---------------------------- MODULE MCLoadBalancer ----------------------------
(* LoadBalancer for TLC: a listener with a certificate of its own, whose      *)
(* backends are changed, swapped and removed, and one whose certificate the   *)
(* platform obtains, which comes and goes and changes for good.               *)
EXTENDS LoadBalancer

CONSTANTS web, api, b1, b2, light, heavy, old, new, c1, c2, s1, s2, text, addr

Pool(x, y) == [t \in {b1, b2} |-> IF t = b1 THEN x ELSE y]
Web(cert, pool) == [challenge |-> "custom", settings |-> s1, credentials |-> Null,
                    certificate |-> cert, pool |-> pool]
Api(s, c) == [challenge |-> "dns01", settings |-> s, credentials |-> c,
              certificate |-> Null, pool |-> Pool(light, Null)]

Webs == {Web(old, Pool(light, Null)), Web(old, Pool(heavy, light)),
         Web(old, Pool(Null, light)), Web(new, Pool(heavy, light)),
         Web(new, Pool(Null, light))}
APage == [body |-> text, edges |-> TRUE]
\* The page, the address and the second listener.
Rest == {<<Null, Null, Api(s1, c1)>>, <<APage, Null, Api(s1, c1)>>,
         <<APage, addr, Api(s1, c1)>>, <<Null, Null, Api(s2, c1)>>, <<Null, Null, Null>>}

Made(w, r) == [page |-> r[1], address |-> r[2],
               listeners |-> [k \in {web, api} |-> IF k = web THEN w ELSE r[3]]]
SomeConfigurations == {Made(w, r) : w \in Webs, r \in Rest}

\* Other credentials and nothing else.
TwoCredentials == {Made(Web(old, Pool(light, Null)), <<Null, Null, Api(s1, c)>>) : c \in {c1, c2}}
=============================================================================
