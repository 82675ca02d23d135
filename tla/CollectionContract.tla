------------------------ MODULE CollectionContract ------------------------
(***************************************************************************)
(* What a call of collect promises its client, without the pool, the type  *)
(* objects, the shared list or the order of the stream: every manager      *)
(* answers items it listed, each at most once; a manager is concluded once,*)
(* as complete only when nothing is left to answer; a call that ends has   *)
(* concluded every manager it hired, and one that is closed early leaves   *)
(* none at work.                                                           *)
(***************************************************************************)
CONSTANTS Request, Task, Owner, Item

VARIABLES
  phase,    \* each call: "idle", "open", "leaving", "over" or "closed"
  hired,    \* managers each call has put to work
  activity, \* each manager: "waiting", "working" or "finished"
  listing,  \* items each manager found
  answered, \* items of it the client has an answer to
  verdict   \* "none", "complete" or "partial"

contract == <<phase, hired, activity, listing, answered, verdict>>

Staff(r) == {t \in Task : Owner[t] = r}
Idle(r)  == \A t \in hired[r] : activity[t] = "finished"

ContractInit ==
  /\ phase = [r \in Request |-> "idle"]
  /\ hired = [r \in Request |-> {}]
  /\ activity = [t \in Task |-> "waiting"]
  /\ listing = [t \in Task |-> {}]
  /\ answered = [t \in Task |-> {}]
  /\ verdict = [t \in Task |-> "none"]

\* The call is refused without a word, or opened with all its managers or none.
Refuse(r) ==
  /\ phase[r] = "idle"
  /\ phase' = [phase EXCEPT ![r] = "over"]
  /\ UNCHANGED <<hired, activity, listing, answered, verdict>>

Open(r) ==
  /\ phase[r] = "idle"
  /\ phase' = [phase EXCEPT ![r] = "open"]
  /\ \E H \in {{}, Staff(r)} : hired' = [hired EXCEPT ![r] = H]
  /\ UNCHANGED <<activity, listing, answered, verdict>>

Begin(t) ==
  /\ t \in hired[Owner[t]] /\ activity[t] = "waiting"
  /\ phase[Owner[t]] \in {"open", "leaving"}
  /\ activity' = [activity EXCEPT ![t] = "working"]
  /\ UNCHANGED <<phase, hired, listing, answered, verdict>>

Discover(t) ==
  /\ activity[t] = "working" /\ listing[t] = {}
  /\ \E S \in SUBSET Item : listing' = [listing EXCEPT ![t] = S]
  /\ UNCHANGED <<phase, hired, activity, answered, verdict>>

Finish(t) ==
  /\ activity[t] = "working"
  /\ activity' = [activity EXCEPT ![t] = "finished"]
  /\ UNCHANGED <<phase, hired, listing, answered, verdict>>

Answer(t) ==
  /\ phase[Owner[t]] = "open"
  /\ activity[t] = "finished" /\ verdict[t] = "none"
  /\ \E i \in listing[t] \ answered[t] :
       answered' = [answered EXCEPT ![t] = @ \cup {i}]
  /\ UNCHANGED <<phase, hired, activity, listing, verdict>>

Conclude(t) ==
  /\ phase[Owner[t]] = "open"
  /\ activity[t] = "finished" /\ verdict[t] = "none"
  /\ \E v \in {"complete", "partial"} :
       /\ v = "complete" => answered[t] = listing[t]
       /\ verdict' = [verdict EXCEPT ![t] = v]
  /\ UNCHANGED <<phase, hired, activity, listing, answered>>

\* The stream ends: no manager is left without a verdict.
End(r) ==
  /\ phase[r] = "open"
  /\ \A t \in hired[r] : verdict[t] # "none"
  /\ phase' = [phase EXCEPT ![r] = "over"]
  /\ UNCHANGED <<hired, activity, listing, answered, verdict>>

\* The client goes away; the call is closed when its managers have finished.
Leave(r) ==
  /\ phase[r] = "open"
  /\ phase' = [phase EXCEPT ![r] = "leaving"]
  /\ UNCHANGED <<hired, activity, listing, answered, verdict>>

Close(r) ==
  /\ phase[r] \in {"open", "leaving"} /\ Idle(r)
  /\ phase' = [phase EXCEPT ![r] = "closed"]
  /\ UNCHANGED <<hired, activity, listing, answered, verdict>>

ContractNext ==
  \/ \E r \in Request : Refuse(r) \/ Open(r) \/ End(r) \/ Leave(r) \/ Close(r)
  \/ \E t \in Task :
       Begin(t) \/ Discover(t) \/ Finish(t) \/ Answer(t) \/ Conclude(t)

ContractSpec == ContractInit /\ [][ContractNext]_contract

=============================================================================
