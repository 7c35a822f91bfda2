---------------------------- MODULE MCBucketCors ----------------------------
(* Instances of BucketCors for TLC: one list of rules for some origins and    *)
(* one with the origin `*`.                                                  *)
EXTENDS BucketCors

=============================================================================
