---------------------------- MODULE PubSubTopics ----------------------------
(***************************************************************************)
(* TopicManager (manager/pub_sub) asks for the names of the subscriptions  *)
(* and of the snapshots of each topic and then for each of them, a call    *)
(* every 0.2 seconds.  What is gone when it is asked for costs the whole   *)
(* topic.  The project (ChangingProject) changes meanwhile.                *)
(*                                                                         *)
(* Of topics and names alike the connector keeps the last page only: see   *)
(* ConnectorPaging for a listing page by page.                             *)
(***************************************************************************)
EXTENDS Naturals, Sequences, FiniteSets

CONSTANTS
  Topic, Subscription, Snapshot,
  TopicOf,     \* the topic of a subscription or a snapshot
  MaxChanges

VARIABLES
  project, changes, lasting, ever,   \* see ChangingProject
  fractional,  \* topics whose retention has a fraction of a second
  missed,      \* history: what was there, but not on the last page, when it
               \* was listed
  phase,       \* "list", then between two topics "next", then what is asked
               \* of the topic in work: "subscriptions" or "snapshots"
  left,        \* topics listed that the loop has not finished
  topic,       \* the topic in work, the singleton; {} between two
  names,       \* names of this topic that have not been asked for
  parts,       \* what has been got for it
  collected,   \* topic -> its subscriptions and snapshots
  errors       \* topics with an error response

-----------------------------------------------------------------------------
Known(t) == <<"topic", t>>
Kept(p) == <<"part", p>>
Attached(p) == <<"attached", p>>

Part == Subscription \cup Snapshot

Fact == {Known(t) : t \in Topic}
        \cup UNION {{Kept(p), Attached(p)} : p \in Part}

\* A subscription may be detached, and does not go with its topic: it is left
\* with the topic "_deleted-topic_".  So is a snapshot.
Needs(f) ==
  IF f[1] = "attached" THEN {Kept(f[2]), Known(TopicOf[f[2]])} ELSE {}

INSTANCE ChangingProject

projectVars == <<project, changes, lasting, ever>>

work == <<phase, left, topic, names, parts>>

vars == <<projectVars, fractional, missed, work, collected, errors>>

Init ==
  /\ ProjectInit
  /\ fractional \in SUBSET Topic /\ missed = {}
  /\ phase = "list" /\ left = {} /\ topic = {} /\ names = {} /\ parts = {}
  /\ collected = <<>> /\ errors = {}

ProjectChanges ==
  /\ phase = "list" \/ left # {}
  /\ \E f \in Fact : Change(f)
  /\ UNCHANGED <<fractional, missed, work, collected, errors>>

\* The API puts what there is on pages as it likes; each page replaces the one
\* before, so any part of it may be kept.
LastPage(all, page) == page \subseteq all /\ missed' = missed \cup (all \ page)

list_topics ==
  /\ phase = "list"
  /\ \E page \in SUBSET Topic :
       LastPage({t \in Topic : Known(t) \in project}, page) /\ left' = page
  /\ phase' = "next"
  /\ UNCHANGED <<projectVars, fractional, topic, names, parts, collected, errors>>

\* What is attached to the topic when it is asked for.
NamesOf(t, kind) == {p \in kind : TopicOf[p] = t /\ Attached(p) \in project}

list_subscription_names(t) ==
  /\ phase = "next" /\ t \in left
  /\ Known(t) \in project
  /\ phase' = "subscriptions"
  /\ topic' = {t} /\ parts' = {}
  /\ \E page \in SUBSET Subscription :
       LastPage(NamesOf(t, Subscription), page) /\ names' = page
  /\ UNCHANGED <<projectVars, fractional, left, collected, errors>>

list_snapshot_names(t) ==
  /\ phase = "subscriptions" /\ topic = {t} /\ names = {}
  /\ Known(t) \in project
  /\ phase' = "snapshots"
  /\ \E page \in SUBSET Snapshot :
       LastPage(NamesOf(t, Snapshot), page) /\ names' = page
  /\ UNCHANGED <<projectVars, fractional, left, topic, parts, collected, errors>>

\* get_subscription, get_snapshot
Get(p) ==
  /\ p \in names
  /\ Kept(p) \in project
  /\ parts' = parts \cup {p}
  /\ names' = names \ {p}
  /\ UNCHANGED <<projectVars, fractional, missed, phase, left, topic, collected,
                 errors>>

NextTopic(t) ==
  /\ phase' = "next" /\ left' = left \ {t}
  /\ topic' = {} /\ names' = {} /\ parts' = {}

\* What is asked for is gone: the topic, or one of the names.
Gone(t) ==
  \/ phase = "next" /\ t \in left /\ Known(t) \notin project
  \/ /\ phase = "subscriptions" /\ topic = {t} /\ names = {}
     /\ Known(t) \notin project
  \/ topic = {t} /\ \E p \in names : Kept(p) \notin project

\* _change_duration_to_dhm, when all names have been asked for: int("600.5")
\* raises.
Unread(t) ==
  phase = "snapshots" /\ topic = {t} /\ names = {} /\ t \in fractional

FailTopic(t) ==
  /\ Gone(t) \/ Unread(t)
  /\ errors' = errors \cup {t}
  /\ NextTopic(t)
  /\ UNCHANGED <<projectVars, fractional, missed, collected>>

\* Mutant of BuildTopic: the list of subscriptions goes on growing.
BuildTopicWithEarlier(t) ==
  /\ phase = "snapshots" /\ topic = {t} /\ names = {} /\ t \notin fractional
  /\ collected' = [u \in DOMAIN collected \cup {t} |->
       IF u = t THEN parts \cup UNION {collected[v] : v \in DOMAIN collected}
       ELSE collected[u]]
  /\ NextTopic(t)
  /\ UNCHANGED <<projectVars, fractional, missed, errors>>

BuildTopic(t) ==
  /\ phase = "snapshots" /\ topic = {t} /\ names = {} /\ t \notin fractional
  /\ collected' = [u \in DOMAIN collected \cup {t} |->
                     IF u = t THEN parts ELSE collected[u]]
  /\ NextTopic(t)
  /\ UNCHANGED <<projectVars, fractional, missed, errors>>

Next ==
  \/ ProjectChanges \/ list_topics
  \/ \E t \in Topic : \/ list_subscription_names(t) \/ list_snapshot_names(t)
                      \/ FailTopic(t) \/ BuildTopic(t)
  \/ \E p \in Part : Get(p)

Spec == Init /\ [][Next]_vars

-----------------------------------------------------------------------------
TypeOK ==
  /\ ProjectTypeOK
  /\ fractional \subseteq Topic /\ missed \subseteq Topic \cup Part
  /\ phase \in {"list", "next", "subscriptions", "snapshots"}
  /\ left \subseteq Topic /\ topic \subseteq left
  /\ names \cup parts \subseteq {p \in Part : TopicOf[p] \in topic}
  /\ DOMAIN collected \cap errors = {}
  /\ (DOMAIN collected \cup errors) \cap left = {}

\* A topic is shown with what is attached to it all the time, unless the page
\* that had its name was not the last, and with nothing that never is attached.
\* It fails only if it, or something attached to it, came or went, or if its
\* retention has a fraction, as then it always does.  A topic that is there all
\* the time and on the last page is never passed over, whatever becomes of others.
TopicsComplete ==
  /\ \A t \in DOMAIN collected, p \in Part :
       /\ TopicOf[p] = t /\ Attached(p) \in lasting /\ p \notin missed
            => p \in collected[t]
       /\ p \in collected[t] => TopicOf[p] = t /\ Attached(p) \in ever
  /\ DOMAIN collected \cap fractional = {}
  /\ \A t \in errors \ fractional :
       \/ Known(t) \notin lasting
       \/ \E p \in Part : TopicOf[p] = t /\ Kept(p) \in ever \ lasting
  /\ \A t \in Topic \ missed :
       Known(t) \in lasting /\ phase # "list" =>
         t \in left \cup DOMAIN collected \cup errors

=============================================================================
