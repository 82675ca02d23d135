---------------------------- MODULE SQLInstances ----------------------------
(***************************************************************************)
(* CloudSQLManager (manager/cloud_sql/instance_manager.py) decides from    *)
(* the listing whether an instance can be asked for its databases and      *)
(* users, "otherwise, it occurs error", and asks afterwards, one instance  *)
(* after the other.  The instances go through their lives meanwhile.       *)
(***************************************************************************)
EXTENDS Naturals, Sequences, FiniteSets

CONSTANTS
  Instance,
  MaxSteps    \* bound on what happens to the instances

VARIABLES
  life,       \* what each instance is doing
  steps,      \* how much has happened
  listed,     \* list_instances: instance -> what it was doing
  asked,      \* the instance whose databases were listed and users were not
  collected,  \* instance -> [display_state, databases]
  errors,     \* instances with an error response
  changed     \* history: instances whose life went on after list_instances

vars == <<life, steps, listed, asked, collected, errors, changed>>

-----------------------------------------------------------------------------
\* state and settings.activationPolicy.  A stopped instance stays RUNNABLE.
Life ==
  [creating    |-> [state |-> "PENDING_CREATE", policy |-> "ALWAYS"],
   running     |-> [state |-> "RUNNABLE", policy |-> "ALWAYS"],
   stopped     |-> [state |-> "RUNNABLE", policy |-> "NEVER"],
   on_demand   |-> [state |-> "RUNNABLE", policy |-> "ON_DEMAND"],
   maintenance |-> [state |-> "MAINTENANCE", policy |-> "ALWAYS"],
   failed      |-> [state |-> "FAILED", policy |-> "ALWAYS"]]

\* What follows what; any instance may be deleted.
Follows ==
  [creating |-> {"running", "failed", "gone"},
   running |-> {"stopped", "maintenance", "on_demand", "failed", "gone"},
   stopped |-> {"running", "gone"},
   on_demand |-> {"running", "gone"},
   maintenance |-> {"running", "failed", "gone"},
   failed |-> {"gone"},
   gone |-> {}]

\* The API answers for databases and users of such an instance.
Answers(i) == life[i] \in {"running", "on_demand"}

Init ==
  /\ life \in [Instance -> DOMAIN Life]
  /\ steps = 0
  /\ listed = <<>> /\ asked = {}
  /\ collected = <<>> /\ errors = {} /\ changed = {}

Left == (DOMAIN listed \ DOMAIN collected) \ errors

GoesOn(i) ==
  /\ steps < MaxSteps /\ (listed = <<>> \/ Left # {})
  /\ \E next \in Follows[life[i]] : life' = [life EXCEPT ![i] = next]
  /\ steps' = steps + 1
  /\ changed' = IF listed = <<>> THEN {} ELSE changed \cup {i}
  /\ UNCHANGED <<listed, asked, collected, errors>>

list_instances ==
  /\ listed = <<>>
  /\ listed' = [i \in {j \in Instance : life[j] # "gone"} |-> Life[life[i]]]
  /\ UNCHANGED <<life, steps, asked, collected, errors, changed>>

_get_display_state(instance) ==
  CASE instance.policy = "ALWAYS" /\ instance.state = "PENDING_CREATE" -> "CREATING"
    [] instance.policy = "ALWAYS" /\ instance.state = "RUNNABLE" -> "RUNNING"
    [] instance.policy = "NEVER" -> "STOPPED"
    [] instance.policy = "ON_DEMAND" -> "ON-DEMAND"
    [] OTHER -> "UNKNOWN"

\* Mutant of _check_sql_instance_is_available: the state alone.
check_sql_instance_is_runnable(instance) == instance.state = "RUNNABLE"

_check_sql_instance_is_available(instance) ==
  instance.state = "RUNNABLE" /\ _get_display_state(instance) = "RUNNING"

\* The loop goes on with the instance it has begun.
Turn(i) == i \in Left /\ asked \subseteq {i}

Report(i, databases) ==
  collected' = [j \in DOMAIN collected \cup {i} |->
    IF j # i THEN collected[j]
    ELSE [display_state |-> _get_display_state(listed[i]), databases |-> databases]]

Skip(i) ==
  /\ Turn(i) /\ ~_check_sql_instance_is_available(listed[i])
  /\ Report(i, "none")
  /\ UNCHANGED <<life, steps, listed, asked, errors, changed>>

list_databases(i) ==
  /\ Turn(i) /\ asked = {} /\ _check_sql_instance_is_available(listed[i])
  /\ Answers(i)
  /\ asked' = {i}
  /\ UNCHANGED <<life, steps, listed, collected, errors, changed>>

list_users(i) ==
  /\ asked = {i} /\ Answers(i)
  /\ Report(i, "listed")
  /\ asked' = {}
  /\ UNCHANGED <<life, steps, listed, errors, changed>>

\* Either call raises.
Unavailable(i) ==
  /\ Turn(i) /\ _check_sql_instance_is_available(listed[i])
  /\ ~Answers(i)
  /\ errors' = errors \cup {i}
  /\ asked' = {}
  /\ UNCHANGED <<life, steps, listed, collected, changed>>

Next ==
  \/ list_instances
  \/ \E i \in Instance : \/ GoesOn(i) \/ Skip(i) \/ list_databases(i)
                         \/ list_users(i) \/ Unavailable(i)

Spec == Init /\ [][Next]_vars

-----------------------------------------------------------------------------
TypeOK ==
  /\ life \in [Instance -> DOMAIN Life \cup {"gone"}]
  /\ steps \in 0 .. MaxSteps
  /\ asked \subseteq Left /\ Cardinality(asked) <= 1
  /\ DOMAIN collected \cap errors = {}
  /\ changed \subseteq Instance

\* No state of an instance makes it an error: whatever it was doing when it
\* was listed, it fails only if its life went on before it was asked, and is
\* otherwise shown with its databases exactly if it runs.
FailsOnlyByChange ==
  /\ errors \subseteq changed
  /\ \A i \in DOMAIN collected \ changed :
       collected[i] = [display_state |-> _get_display_state(Life[life[i]]),
                       databases |-> IF life[i] = "running" THEN "listed" ELSE "none"]

=============================================================================
