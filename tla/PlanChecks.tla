------------------------------ MODULE PlanChecks ------------------------------
(* Decisions that a plan takes without keeping state: the extension settings  *)
(* of a PostgreSQL instance, which must come back from the platform as they   *)
(* were planned, and the conditions of an IAM policy document.                *)
(*                                                                            *)
(* As in PolicyDocuments, an optional value is a set: {} when it is null or   *)
(* not known, {x} when it is x.  `prior` is the state, {} at creation.        *)

CONSTANTS
  Later,          \* a written value that another resource has yet to give
  DatabaseNames   \* the texts that are a name of a database

-----------------------------------------------------------------------------
(* PostgreSQL extensions.  A configuration, a state and the platform have the *)
(* settings allowed_extensions and preload_libraries, sets of names, and      *)
(* cron_database.  A catalogue has the extensions that may be allowed, what   *)
(* each requires and which must be preloaded, and what may be.                *)

Settings == {"allowed_extensions", "preload_libraries", "cron_database"}

\* The plan: what is written, or else what the state has.
Planned(written, prior, s) ==
  IF written[s] # {} THEN written[s] \ {Later} ELSE UNION {old[s] : old \in prior}

\* A list that is omitted at creation is checked as empty.
PlannedSetting(written, prior, s) ==
  IF prior = {} /\ written[s] = {} THEN {{}} ELSE Planned(written, prior, s)

CronFits(written, prior) ==
  \A name \in Planned(written, prior, "cron_database") :
    /\ name \in DatabaseNames
    /\ \A loaded \in PlannedSetting(written, prior, "preload_libraries") : "pg_cron" \in loaded

CheckExtensions(catalogue, written, prior) ==
  LET loading == PlannedSetting(written, prior, "preload_libraries") IN
  /\ \A allowed \in PlannedSetting(written, prior, "allowed_extensions") :
       /\ allowed \subseteq DOMAIN catalogue.requires
       /\ \A e \in allowed : catalogue.requires[e] \subseteq allowed
       /\ \A loaded \in loading : allowed \cap catalogue.requires_preload \subseteq loaded
  /\ \A loaded \in loading : loaded \subseteq catalogue.preload_libraries

\* A list that the plan does not know yet differs from every state, null too: in
\* a plan that changes anything, what is null in the state is not known.
ListChanges(written, prior, old, s) ==
  Planned(written, prior, s) = {} \/ Planned(written, prior, s) # old[s]

\* The catalogue is asked for when there is something to look up in it.
LooksUp(written, prior) ==
  /\ \A old \in prior : \E s \in {"allowed_extensions", "preload_libraries"} :
       ListChanges(written, prior, old, s)
  /\ \E s \in {"allowed_extensions", "preload_libraries"} :
       ~(PlannedSetting(written, prior, s) \subseteq {{}})

\* The plan is accepted.  A catalogue that does not exist (available is FALSE)
\* refuses it; one that cannot be read ({}) is a warning.
ModifyPlan(available, catalogue, written, prior) ==
  /\ CronFits(written, prior)
  /\ LooksUp(written, prior) =>
       available /\ \A c \in catalogue : CheckExtensions(c, written, prior)

\* What the apply sends: at creation what is not empty, then what has changed.
ExtensionRequest(written, prior, s) ==
  {v \in Planned(written, prior, s) :
     IF prior = {} THEN s = "cron_database" \/ v # {} ELSE \A old \in prior : old[s] # {v}}

-----------------------------------------------------------------------------
(* The platform keeps what it is not sent, adds the extensions that an        *)
(* allowed one depends on, and drops cron_database when pg_cron is not        *)
(* preloaded.  An instance starts with `current` empty.                       *)

Closed(catalogue, allowed) ==
  \A e \in allowed \cap DOMAIN catalogue.requires : catalogue.requires[e] \subseteq allowed
WithDependencies(catalogue, allowed) ==
  LET known == allowed \cup DOMAIN catalogue.requires
                 \cup UNION {catalogue.requires[e] : e \in DOMAIN catalogue.requires}
  IN  {e \in known : \A all \in SUBSET known : allowed \subseteq all /\ Closed(catalogue, all) => e \in all}
Kept(current, sent, s) == IF sent[s] # {} THEN sent[s] ELSE current[s]
Normalized(catalogue, current, sent) ==
  [allowed_extensions |-> {WithDependencies(catalogue, allowed) :
                             allowed \in Kept(current, sent, "allowed_extensions")},
   preload_libraries |-> Kept(current, sent, "preload_libraries"),
   cron_database |-> {name \in Kept(current, sent, "cron_database") :
                        \A loaded \in Kept(current, sent, "preload_libraries") : "pg_cron" \in loaded}]
AtRest(catalogue, current) ==
  /\ \E allowed \in current.allowed_extensions, loaded \in current.preload_libraries :
       /\ current.allowed_extensions = {allowed} /\ Closed(catalogue, allowed)
       /\ current.preload_libraries = {loaded} /\ (current.cron_database # {} => "pg_cron" \in loaded)
  /\ \A a, b \in current.cron_database : a = b
Blank == [allowed_extensions |-> {{}}, preload_libraries |-> {{}}, cron_database |-> {}]

\* An apply of what is all known, on a state that is new or has been refreshed.
Requests(written, prior) == [s \in Settings |-> ExtensionRequest(written, prior, s)]
AllKnown(written) ==
  \A s \in Settings : Later \notin written[s] /\ \A a, b \in written[s] : a = b
Refreshed(catalogue, prior, current) ==
  \/ prior = {} /\ current = Blank
  \/ prior = {current} /\ AtRest(catalogue, current)
Applied(catalogue, current, written, prior) ==
  Normalized(catalogue, current, Requests(written, prior))

-----------------------------------------------------------------------------
(* The conditions of a statement of an IAM policy document.  Blocks are a     *)
(* sequence of [test, variable, values]; the values of blocks with one test   *)
(* and variable are merged.                                                   *)

Rendered(blocks) ==
  [about \in {<<blocks[i].test, blocks[i].variable>> : i \in DOMAIN blocks} |->
     UNION {blocks[i].values : i \in {j \in DOMAIN blocks :
                                        <<blocks[j].test, blocks[j].variable>> = about}}]

\* A request satisfies `passed`, triples of a test, a variable and a value; it
\* meets a condition that has a value it satisfies, and a document when it
\* meets all of its conditions.
MeetsBlock(passed, block) == \E v \in block.values : <<block.test, block.variable, v>> \in passed
MeetsAll(passed, blocks) == \A i \in DOMAIN blocks : MeetsBlock(passed, blocks[i])
MeetsRendered(passed, conditions) ==
  \A about \in DOMAIN conditions : \E v \in conditions[about] : <<about[1], about[2], v>> \in passed
=============================================================================
