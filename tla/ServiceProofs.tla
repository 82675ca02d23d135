---------------------------- MODULE ServiceProofs ----------------------------
(***************************************************************************)
(* What is shown of the resources of Cloud SQL, Cloud Storage, Pub/Sub,    *)
(* Cloud Functions and the recommender, laid out as NetworkingProofs.      *)
(***************************************************************************)
EXTENDS ServiceManagers, FiniteSetTheorems, WellFoundedInduction, TLAPS

-----------------------------------------------------------------------------
\* Database instances: while the life of an instance does not go on, what was
\* listed of it is what it is doing, and to be available is to be running.
\* That is when the API answers.

LifeInv ==
  /\ life \in [Instance -> DOMAIN SQL!Life \cup {"gone"}]
  /\ DOMAIN listed \subseteq Instance

\* The listing is true of the instances whose lives have not gone on.
ListingInv ==
  \A i \in DOMAIN listed \ changed :
    life[i] \in DOMAIN SQL!Life /\ listed[i] = SQL!Life[life[i]]

\* Nothing is reported, or asked for, that was not listed.
ReportInv ==
  /\ DOMAIN sql_collected \subseteq DOMAIN listed /\ sql_errors \subseteq DOMAIN listed
  /\ \A i \in asked : /\ i \in DOMAIN listed
                      /\ SQL!_check_sql_instance_is_available(listed[i])

SQLInv == LifeInv /\ ListingInv /\ ReportInv /\ SQL!FailsOnlyByChange

-----------------------------------------------------------------------------
LEMMA AvailableIsRunning ==
  \A l \in DOMAIN SQL!Life :
    SQL!_check_sql_instance_is_available(SQL!Life[l]) <=> l = "running"
BY DEF SQL!Life, SQL!_check_sql_instance_is_available, SQL!_get_display_state

\* What an instance that was left alone is doing, from what was listed of it.
LEMMA ListedIsTrue ==
  ASSUME SQLInv, NEW i \in DOMAIN listed \ changed
  PROVE  /\ SQL!_check_sql_instance_is_available(listed[i]) <=> life[i] = "running"
         /\ life[i] = "running" => SQL!Answers(i)
         /\ listed[i] = SQL!Life[life[i]]
BY AvailableIsRunning DEF SQLInv, ListingInv, SQL!Answers

LEMMA InitSQLInv == SQL!Init => SQLInv
<1> SUFFICES ASSUME SQL!Init PROVE SQLInv
  OBVIOUS
<1>1. /\ DOMAIN listed = {} /\ DOMAIN sql_collected = {}
      /\ sql_errors = {} /\ asked = {}
      /\ life \in [Instance -> DOMAIN SQL!Life \cup {"gone"}]
  BY DEF SQL!Init
<1> QED
  BY <1>1 DEF SQLInv, LifeInv, ListingInv, ReportInv, SQL!FailsOnlyByChange

LEMMA GoesOnKeeps ==
  ASSUME SQLInv, NEW i \in Instance, SQL!GoesOn(i)
  PROVE  SQLInv'
<1>1. PICK next \in SQL!Follows[life[i]] : life' = [life EXCEPT ![i] = next]
  BY DEF SQL!GoesOn
<1>2. UNCHANGED <<listed, asked, sql_collected, sql_errors>>
  BY DEF SQL!GoesOn
<1>3. next \in DOMAIN SQL!Life \cup {"gone"}
  BY DEF SQLInv, LifeInv, SQL!Life, SQL!Follows
<1>4. LifeInv'
  BY <1>1, <1>2, <1>3 DEF SQLInv, LifeInv
<1>5. ReportInv'
  BY <1>2 DEF SQLInv, ReportInv
<1>6. CASE DOMAIN listed = {}
  <2>1. DOMAIN sql_collected = {} /\ sql_errors = {}
    BY <1>6 DEF SQLInv, ReportInv
  <2>2. ListingInv' /\ SQL!FailsOnlyByChange'
    BY <1>2, <1>6, <2>1 DEF ListingInv, SQL!FailsOnlyByChange
  <2> QED
    BY <1>4, <1>5, <2>2 DEF SQLInv
<1>7. CASE DOMAIN listed # {}
  <2>1. listed # <<>>
    BY <1>7
  <2>2. changed' = changed \cup {i}
    BY <2>1 DEF SQL!GoesOn
  <2>3. \A j \in Instance \ changed' : life'[j] = life[j]
    BY <1>1, <2>2 DEF SQLInv, LifeInv
  <2>4. ListingInv'
    BY <1>2, <2>2, <2>3 DEF SQLInv, LifeInv, ListingInv
  <2>5. SQL!FailsOnlyByChange'
    BY <1>2, <2>2, <2>3 DEF SQLInv, LifeInv, ReportInv, SQL!FailsOnlyByChange
  <2> QED
    BY <1>4, <1>5, <2>4, <2>5 DEF SQLInv
<1> QED
  BY <1>6, <1>7

LEMMA ListKeeps == SQLInv /\ SQL!list_instances => SQLInv'
<1> SUFFICES ASSUME SQLInv, SQL!list_instances PROVE SQLInv'
  OBVIOUS
<1>1. /\ DOMAIN listed = {}
      /\ listed' = [i \in {j \in Instance : life[j] # "gone"} |-> SQL!Life[life[i]]]
      /\ UNCHANGED <<life, asked, sql_collected, sql_errors, changed>>
  BY DEF SQL!list_instances
<1>2. DOMAIN sql_collected = {} /\ sql_errors = {} /\ asked = {}
  BY <1>1 DEF SQLInv, ReportInv
<1>3. LifeInv' /\ ListingInv'
  BY <1>1 DEF SQLInv, LifeInv, ListingInv
<1>4. ReportInv' /\ SQL!FailsOnlyByChange'
  BY <1>1, <1>2 DEF ReportInv, SQL!FailsOnlyByChange
<1> QED
  BY <1>3, <1>4 DEF SQLInv

\* A report that is true of an instance whose life has not gone on.
LEMMA ReportKeeps ==
  ASSUME SQLInv, NEW i \in DOMAIN listed, NEW databases,
         SQL!Report(i, databases), UNCHANGED <<life, listed, sql_errors, changed>>,
         asked' \subseteq asked,
         i \notin changed =>
           databases = (IF life[i] = "running" THEN "listed" ELSE "none")
  PROVE  SQLInv'
<1>1. /\ DOMAIN sql_collected' = DOMAIN sql_collected \cup {i}
      /\ sql_collected'[i] = [display_state |-> SQL!_get_display_state(listed[i]),
                              databases |-> databases]
      /\ \A j \in DOMAIN sql_collected \ {i} : sql_collected'[j] = sql_collected[j]
  BY DEF SQL!Report
<1>2. LifeInv' /\ ListingInv'
  BY DEF SQLInv, LifeInv, ListingInv
<1>3. ReportInv'
  BY <1>1 DEF SQLInv, ReportInv
<1>4. i \notin changed =>
        sql_collected'[i] = [display_state |-> SQL!_get_display_state(SQL!Life[life[i]]),
                             databases |-> IF life[i] = "running" THEN "listed" ELSE "none"]
  BY <1>1, ListedIsTrue
<1>5. SQL!FailsOnlyByChange'
  BY <1>1, <1>4 DEF SQLInv, SQL!FailsOnlyByChange
<1> QED
  BY <1>2, <1>3, <1>5 DEF SQLInv

LEMMA SkipKeeps ==
  ASSUME SQLInv, NEW i \in Instance, SQL!Skip(i)
  PROVE  SQLInv'
<1>1. i \in DOMAIN listed /\ ~SQL!_check_sql_instance_is_available(listed[i])
  BY DEF SQL!Skip, SQL!Turn, SQL!Left
<1>2. i \notin changed => life[i] # "running"
  BY <1>1, ListedIsTrue
<1> QED
  BY <1>1, <1>2, ReportKeeps DEF SQL!Skip

LEMMA UsersKeep ==
  ASSUME SQLInv, NEW i \in Instance, SQL!list_users(i)
  PROVE  SQLInv'
<1>1. i \in DOMAIN listed /\ SQL!_check_sql_instance_is_available(listed[i])
  BY DEF SQLInv, ReportInv, SQL!list_users
<1>2. i \notin changed => life[i] = "running"
  BY <1>1, ListedIsTrue
<1> QED
  BY <1>1, <1>2, ReportKeeps DEF SQL!list_users

LEMMA DatabasesKeep ==
  ASSUME SQLInv, NEW i \in Instance, SQL!list_databases(i)
  PROVE  SQLInv'
BY DEF SQLInv, LifeInv, ListingInv, ReportInv, SQL!FailsOnlyByChange,
       SQL!list_databases, SQL!Turn, SQL!Left

LEMMA UnavailableKeeps ==
  ASSUME SQLInv, NEW i \in Instance, SQL!Unavailable(i)
  PROVE  SQLInv'
<1>1. i \in DOMAIN listed /\ SQL!_check_sql_instance_is_available(listed[i]) /\ ~SQL!Answers(i)
  BY DEF SQL!Unavailable, SQL!Turn, SQL!Left
<1>2. i \in changed
  BY <1>1, ListedIsTrue
<1> QED
  BY <1>1, <1>2 DEF SQL!Unavailable, SQLInv, LifeInv, ListingInv, ReportInv, SQL!FailsOnlyByChange

LEMMA SQLInvariance == SQL!Spec => []SQLInv
<1>1. SQL!Init => SQLInv
  BY InitSQLInv
<1>2. SQLInv /\ [SQL!Next]_(SQL!vars) => SQLInv'
  <2> SUFFICES ASSUME SQLInv, [SQL!Next]_(SQL!vars) PROVE SQLInv'
    OBVIOUS
  <2>1. CASE SQL!list_instances
    BY <2>1, ListKeeps
  <2>2. ASSUME NEW i \in Instance,
               SQL!GoesOn(i) \/ SQL!Skip(i) \/ SQL!list_databases(i) \/ SQL!list_users(i)
                 \/ SQL!Unavailable(i)
        PROVE  SQLInv'
    BY <2>2, GoesOnKeeps, SkipKeeps, DatabasesKeep, UsersKeep, UnavailableKeeps
  <2>3. CASE UNCHANGED SQL!vars
    BY <2>3 DEF SQL!vars, SQLInv, LifeInv, ListingInv, ReportInv, SQL!FailsOnlyByChange
  <2> QED
    BY <2>1, <2>2, <2>3 DEF SQL!Next
<1> QED
  BY <1>1, <1>2, PTL DEF SQL!Spec

\* An instance becomes an error response only if its life went on after it
\* was listed, and is otherwise shown as what it is, with its databases
\* exactly if it runs.
LEMMA FailuresAreChanges == SQL!Spec => []SQL!FailsOnlyByChange
<1>1. SQLInv => SQL!FailsOnlyByChange
  BY DEF SQLInv
<1> QED BY <1>1, SQLInvariance, PTL

-----------------------------------------------------------------------------
\* Topics.

\* What lasts, what holds and what ever did each have what they need.
TopicFactsInv ==
  /\ lasting \subseteq project /\ project \subseteq ever
  /\ Topics!Consistent(lasting) /\ Topics!Consistent(project)
  /\ Topics!Consistent(ever)

\* What a listing of this topic returned is in names until it has been got; it
\* returned all but what is missed.
NamesTrue(kind) ==
  \A t \in topic, p \in kind :
    TopicOf[p] = t /\ Topics!Attached(p) \in lasting /\ p \notin missed
      => p \in names \cup parts

WorkInv ==
  /\ phase \in {"list", "next", "subscriptions", "snapshots"}
  /\ phase \in {"list", "next"} => topic = {} /\ names = {} /\ parts = {}
  /\ phase \in {"subscriptions", "snapshots"} => \E t \in Topic : topic = {t}
  /\ \A p \in names \cup parts :
       p \in Topics!Part /\ TopicOf[p] \in topic /\ Topics!Attached(p) \in ever
  /\ phase = "subscriptions" => NamesTrue(Subscription)
  /\ phase = "snapshots" => NamesTrue(Topics!Part)

TopicInv == TopicFactsInv /\ WorkInv /\ Topics!TopicsComplete

\* The project changes: fewer facts last, and more have ever been.
LEMMA TopicFactsChange ==
  ASSUME TopicFactsInv, NEW f, Topics!Change(f)
  PROVE  TopicFactsInv' /\ lasting' \subseteq lasting /\ ever \subseteq ever'
<1>1. /\ Topics!Consistent(project')
      /\ lasting' = lasting \cap project' /\ ever' = ever \cup project'
  BY DEF Topics!Change
<1>2. Topics!Consistent(lasting') /\ Topics!Consistent(ever')
  BY <1>1 DEF TopicFactsInv, Topics!Consistent
<1> QED BY <1>1, <1>2 DEF TopicFactsInv, Topics!Consistent

LEMMA TopicStaysTrue ==
  ASSUME TopicInv, TopicFactsInv', lasting' \subseteq lasting, ever \subseteq ever',
         UNCHANGED <<fractional, missed, phase, left, topic, names, parts, collected,
                     errors>>
  PROVE  TopicInv'
<1>1. WorkInv'
  BY DEF TopicInv, WorkInv, NamesTrue
<1>2. Topics!TopicsComplete'
  BY DEF TopicInv, Topics!TopicsComplete
<1> QED BY <1>1, <1>2 DEF TopicInv

\* A topic fails for something that came or went.
LEMMA GoneIsChange ==
  ASSUME TopicInv, NEW t \in Topic, Topics!Gone(t)
  PROVE  \/ Topics!Known(t) \notin lasting
         \/ \E p \in Topics!Part : TopicOf[p] = t /\ Topics!Kept(p) \in ever \ lasting
<1>1. CASE Topics!Known(t) \notin project
  BY <1>1 DEF TopicInv, TopicFactsInv
<1>2. CASE topic = {t} /\ \E p \in names : Topics!Kept(p) \notin project
  <2>1. PICK p \in names : Topics!Kept(p) \notin project
    BY <1>2
  <2>2. p \in Topics!Part /\ TopicOf[p] = t /\ Topics!Attached(p) \in ever
    BY <1>2 DEF TopicInv, WorkInv
  <2>3. Topics!Kept(p) \in Topics!Needs(Topics!Attached(p))
    BY DEF Topics!Needs, Topics!Attached
  <2>4. Topics!Kept(p) \in ever
    BY <2>2, <2>3 DEF TopicInv, TopicFactsInv, Topics!Consistent
  <2> QED BY <2>1, <2>2, <2>4 DEF TopicInv, TopicFactsInv
<1> QED BY <1>1, <1>2 DEF Topics!Gone

LEMMA InitTopicInv == ASSUME Topics!Init PROVE TopicInv
<1>1. TopicFactsInv
  BY DEF Topics!Init, Topics!ProjectInit, TopicFactsInv
<1>2. WorkInv
  BY DEF Topics!Init, WorkInv
<1>3. DOMAIN collected = {} /\ errors = {}
  BY DEF Topics!Init
<1>4. Topics!TopicsComplete
  BY <1>3 DEF Topics!Init, Topics!TopicsComplete
<1> QED BY <1>1, <1>2, <1>4 DEF TopicInv

LEMMA NamesKeep ==
  ASSUME TopicInv, NEW t \in Topic,
         Topics!list_subscription_names(t) \/ Topics!list_snapshot_names(t)
  PROVE  TopicInv'
<1>1. TopicFactsInv'
  BY DEF TopicInv, TopicFactsInv, Topics!list_subscription_names,
         Topics!list_snapshot_names, Topics!projectVars, Topics!Consistent
<1>2. CASE Topics!list_subscription_names(t)
  <2>1. WorkInv'
    BY <1>2 DEF TopicInv, TopicFactsInv, WorkInv, NamesTrue, Topics!NamesOf, Topics!Part,
       Topics!LastPage, Topics!list_subscription_names, Topics!projectVars
  <2>2. Topics!TopicsComplete'
    BY <1>2 DEF TopicInv, Topics!TopicsComplete, Topics!LastPage,
       Topics!list_subscription_names, Topics!projectVars
  <2> QED BY <1>1, <2>1, <2>2 DEF TopicInv
<1>3. CASE Topics!list_snapshot_names(t)
  <2>1. WorkInv'
    BY <1>3 DEF TopicInv, TopicFactsInv, WorkInv, NamesTrue, Topics!NamesOf, Topics!Part,
       Topics!LastPage, Topics!list_snapshot_names, Topics!projectVars
  <2>2. Topics!TopicsComplete'
    BY <1>3 DEF TopicInv, Topics!TopicsComplete, Topics!LastPage,
       Topics!list_snapshot_names, Topics!projectVars
  <2> QED BY <1>1, <2>1, <2>2 DEF TopicInv
<1> QED BY <1>2, <1>3

LEMMA GetKeeps ==
  ASSUME TopicInv, NEW p \in Topics!Part, Topics!Get(p)
  PROVE  TopicInv'
<1>1. names' \cup parts' = names \cup parts
  BY DEF Topics!Get
<1>2. UNCHANGED <<project, lasting, ever, fractional, missed, phase, left, topic,
                  collected, errors>>
  BY DEF Topics!Get, Topics!projectVars
<1>3. TopicFactsInv'
  BY <1>2 DEF TopicInv, TopicFactsInv, Topics!Consistent
<1>4. phase \notin {"list", "next"}
  BY DEF TopicInv, WorkInv, Topics!Get
<1>5. WorkInv'
  BY <1>1, <1>2, <1>4 DEF TopicInv, WorkInv, NamesTrue
<1>6. Topics!TopicsComplete'
  BY <1>2 DEF TopicInv, Topics!TopicsComplete
<1> QED BY <1>3, <1>5, <1>6 DEF TopicInv

LEMMA FailTopicKeeps ==
  ASSUME TopicInv, NEW t \in Topic, Topics!FailTopic(t)
  PROVE  TopicInv'
<1>1. /\ UNCHANGED <<project, lasting, ever, fractional, missed, collected>>
      /\ errors' = errors \cup {t} /\ left' = left \ {t}
      /\ Topics!Gone(t) \/ t \in fractional
      /\ phase # "list"
      /\ phase' = "next" /\ topic' = {} /\ names' = {} /\ parts' = {}
  BY DEF TopicInv, WorkInv, Topics!FailTopic, Topics!NextTopic, Topics!projectVars,
     Topics!Gone, Topics!Unread
<1>2. TopicFactsInv'
  BY <1>1 DEF TopicInv, TopicFactsInv, Topics!Consistent
<1>3. WorkInv'
  BY <1>1 DEF WorkInv
<1>4. Topics!TopicsComplete'
  BY <1>1, GoneIsChange DEF TopicInv, Topics!TopicsComplete
<1> QED BY <1>2, <1>3, <1>4 DEF TopicInv

LEMMA BuildTopicKeeps ==
  ASSUME TopicInv, NEW t \in Topic, Topics!BuildTopic(t)
  PROVE  TopicInv'
<1>1. /\ UNCHANGED <<project, lasting, ever, fractional, missed, errors>>
      /\ left' = left \ {t} /\ t \notin fractional /\ phase = "snapshots"
      /\ DOMAIN collected' = DOMAIN collected \cup {t}
      /\ collected'[t] = parts
      /\ \A u \in DOMAIN collected \ {t} : collected'[u] = collected[u]
      /\ phase' = "next" /\ topic' = {} /\ names' = {} /\ parts' = {}
  BY DEF Topics!BuildTopic, Topics!NextTopic, Topics!projectVars
<1>2. TopicFactsInv'
  BY <1>1 DEF TopicInv, TopicFactsInv, Topics!Consistent
<1>3. WorkInv'
  BY <1>1 DEF WorkInv
<1>4. \A p \in Topics!Part :
        /\ TopicOf[p] = t /\ Topics!Attached(p) \in lasting /\ p \notin missed
             => p \in parts
        /\ p \in parts => TopicOf[p] = t /\ Topics!Attached(p) \in ever
  BY DEF TopicInv, WorkInv, NamesTrue, Topics!BuildTopic
<1>5. Topics!TopicsComplete'
  BY <1>1, <1>4 DEF TopicInv, Topics!TopicsComplete
<1> QED BY <1>2, <1>3, <1>5 DEF TopicInv

LEMMA TopicInvariance == Topics!Spec => []TopicInv
<1>1. TopicInv /\ [Topics!Next]_(Topics!vars) => TopicInv'
  <2> SUFFICES ASSUME TopicInv, [Topics!Next]_(Topics!vars) PROVE TopicInv'
    OBVIOUS
  <2>1. CASE Topics!ProjectChanges
    <3>1. PICK f \in Topics!Fact : Topics!Change(f)
      BY <2>1 DEF Topics!ProjectChanges
    <3>2. UNCHANGED <<fractional, missed, phase, left, topic, names, parts, collected,
                      errors>>
      BY <2>1 DEF Topics!ProjectChanges, Topics!work
    <3> QED BY <3>1, <3>2, TopicFactsChange, TopicStaysTrue DEF TopicInv
  <2>2. CASE Topics!list_topics
    <3>1. /\ phase' = "next" /\ phase = "list" /\ missed \subseteq missed'
          /\ \A t \in Topic \ missed' : Topics!Known(t) \in project => t \in left'
          /\ UNCHANGED <<project, lasting, ever, fractional, topic, names, parts,
                         collected, errors>>
      BY <2>2 DEF Topics!list_topics, Topics!LastPage, Topics!projectVars
    <3>2. TopicFactsInv' /\ Topics!TopicsComplete'
      BY <3>1 DEF TopicInv, TopicFactsInv, Topics!Consistent, Topics!TopicsComplete
    <3>3. WorkInv'
      BY <3>1 DEF TopicInv, WorkInv
    <3> QED BY <3>2, <3>3 DEF TopicInv
  <2>3. ASSUME NEW t \in Topic,
               \/ Topics!list_subscription_names(t) \/ Topics!list_snapshot_names(t)
               \/ Topics!FailTopic(t) \/ Topics!BuildTopic(t)
        PROVE  TopicInv'
    BY <2>3, NamesKeep, FailTopicKeeps, BuildTopicKeeps
  <2>4. ASSUME NEW p \in Topics!Part, Topics!Get(p) PROVE TopicInv'
    BY <2>4, GetKeeps
  <2>5. CASE UNCHANGED Topics!vars
    <3>1. UNCHANGED <<project, lasting, ever, fractional, missed, phase, left, topic,
                      names, parts, collected, errors>>
      BY <2>5 DEF Topics!vars, Topics!projectVars, Topics!work
    <3>2. TopicFactsInv'
      BY <3>1 DEF TopicInv, TopicFactsInv, Topics!Consistent
    <3> QED BY <3>1, <3>2, TopicStaysTrue
  <2> QED BY <2>1, <2>2, <2>3, <2>4, <2>5 DEF Topics!Next
<1> QED BY <1>1, InitTopicInv, PTL DEF Topics!Spec

\* A topic is shown with what is attached to it all the time, but for names of
\* earlier pages, and with nothing that never is; it fails only if it or
\* something attached to it came or went, or for the fraction of its retention,
\* for any number of topics and of changes.
LEMMA TopicsReported == Topics!Spec => []Topics!TopicsComplete
<1>1. TopicInv => Topics!TopicsComplete
  BY DEF TopicInv
<1> QED BY <1>1, TopicInvariance, PTL

-----------------------------------------------------------------------------
\* Buckets.

\* While the project has changed at most once, a bucket would be shown with an
\* access it has had.  What makes this inductive is that before the change
\* what was listed holds: one change alters what was listed or the policy,
\* not both.
AccessInv ==
  /\ \A b \in Bucket : Storage!TrueAccess(b) \in accesses[b]
  /\ stored_changes <= 1 =>
       \A b \in DOMAIN buckets :
         Storage!_get_public_access(buckets[b].uniform, Storage!AllUsers(b) \in stored)
           \in accesses[b]
  /\ stored_changes = 0 =>
       \A b \in DOMAIN buckets : buckets[b].uniform = (Storage!Uniform(b) \in stored)

\* A payer that was not listed has not been there all the time.
BucketInv ==
  /\ stored_changes \in Nat
  /\ stored_lasting \subseteq stored /\ stored \subseteq stored_ever
  /\ DOMAIN accesses = Bucket
  /\ DOMAIN bucket_collected \cup bucket_errors \subseteq DOMAIN buckets
  /\ DOMAIN buckets \subseteq Bucket
  /\ \A b \in DOMAIN buckets :
       ~buckets[b].requesterPays => Storage!RequesterPays(b) \notin stored_lasting
  /\ AccessInv
  /\ Storage!AccessOnceTrue /\ Storage!BucketsThatFail

\* What is true of a bucket is what would be shown of it if it were listed now.
LEMMA TrueIsShown ==
  ASSUME NEW b
  PROVE  Storage!TrueAccess(b) =
           Storage!_get_public_access(Storage!Uniform(b) \in stored, Storage!AllUsers(b) \in stored)
BY DEF Storage!TrueAccess, Storage!_get_public_access

LEMMA InitBucketInv == ASSUME Storage!Init PROVE BucketInv
<1>1. DOMAIN buckets = {} /\ DOMAIN bucket_collected = {} /\ bucket_errors = {}
  BY DEF Storage!Init
<1>2. DOMAIN accesses = Bucket /\ \A b \in Bucket : Storage!TrueAccess(b) \in accesses[b]
  BY DEF Storage!Init
<1>3. stored_changes \in Nat /\ stored_lasting \subseteq stored /\ stored \subseteq stored_ever
  BY DEF Storage!Init, Storage!ProjectInit
<1> QED
  BY <1>1, <1>2, <1>3
     DEF BucketInv, AccessInv, Storage!AccessOnceTrue, Storage!BucketsThatFail

\* At most one of what was listed of a bucket and its policy has changed.
LEMMA OneChange ==
  ASSUME BucketInv, Storage!ProjectChanges, stored_changes' <= 1, NEW b \in DOMAIN buckets
  PROVE  Storage!_get_public_access(buckets[b].uniform, Storage!AllUsers(b) \in stored')
           \in accesses[b]'
<1>1. PICK f \in Storage!Fact : Storage!Change(f)
  BY DEF Storage!ProjectChanges
<1>2. stored_changes = 0
  BY <1>1 DEF BucketInv, Storage!Change
<1>3. buckets[b].uniform = (Storage!Uniform(b) \in stored) /\ b \in Bucket
  BY <1>2 DEF BucketInv, AccessInv
<1>4. accesses[b]' = accesses[b] \cup {Storage!TrueAccess(b)'}
  BY <1>3 DEF Storage!ProjectChanges
<1>5. CASE f = Storage!AllUsers(b)
  <2>1. Storage!Uniform(b) # f
    BY <1>5 DEF Storage!Uniform, Storage!AllUsers
  <2>2. (Storage!Uniform(b) \in stored) = (Storage!Uniform(b) \in stored')
    BY <1>1, <2>1 DEF Storage!Change
  <2>3. Storage!TrueAccess(b)' =
          Storage!_get_public_access(buckets[b].uniform, Storage!AllUsers(b) \in stored')
    BY <1>3, <2>2 DEF Storage!TrueAccess, Storage!_get_public_access,
       Storage!Uniform, Storage!AllUsers
  <2> QED BY <1>4, <2>3
<1>6. CASE f # Storage!AllUsers(b)
  <2>1. (Storage!AllUsers(b) \in stored) = (Storage!AllUsers(b) \in stored')
    BY <1>1, <1>6 DEF Storage!Change
  <2>2. Storage!_get_public_access(buckets[b].uniform, Storage!AllUsers(b) \in stored)
          \in accesses[b]
    BY <1>2 DEF BucketInv, AccessInv
  <2> QED BY <1>4, <2>1, <2>2
<1> QED BY <1>5, <1>6

LEMMA ProjectChangesBuckets ==
  ASSUME BucketInv, Storage!ProjectChanges
  PROVE  BucketInv'
<1>1. PICK f \in Storage!Fact : Storage!Change(f)
  BY DEF Storage!ProjectChanges
<1>2. /\ stored_changes' = stored_changes + 1 /\ stored_changes \in Nat
      /\ stored_lasting' \subseteq stored_lasting /\ stored_ever \subseteq stored_ever'
      /\ stored_lasting' \subseteq stored' /\ stored' \subseteq stored_ever'
  BY <1>1 DEF Storage!Change, BucketInv
<1>3. /\ UNCHANGED <<buckets, bucket_collected, bucket_errors>>
      /\ accesses' = [b \in Bucket |-> accesses[b] \cup {Storage!TrueAccess(b)'}]
  BY DEF Storage!ProjectChanges
<1>4. \A b \in Bucket : Storage!TrueAccess(b)' \in accesses'[b]
        /\ accesses[b] \subseteq accesses'[b]
  BY <1>3
<1>5. AccessInv'
  <2>1. stored_changes' # 0
    BY <1>2
  <2>2. stored_changes' <= 1 =>
          \A b \in DOMAIN buckets :
            Storage!_get_public_access(buckets[b].uniform, Storage!AllUsers(b) \in stored')
              \in accesses'[b]
    BY OneChange
  <2> QED BY <1>3, <1>4, <2>1, <2>2 DEF AccessInv
<1>6. Storage!AccessOnceTrue'
  BY <1>2, <1>3, <1>4 DEF BucketInv, Storage!AccessOnceTrue
<1>7. Storage!BucketsThatFail'
  BY <1>2, <1>3 DEF BucketInv, Storage!BucketsThatFail
<1> QED BY <1>2, <1>3, <1>5, <1>6, <1>7 DEF BucketInv

\* Between two changes accesses stay, and the properties are about buckets
\* that are handled now or were before.
LEMMA ListBucketsKeeps ==
  ASSUME BucketInv, Storage!list_buckets
  PROVE  BucketInv'
<1>1. /\ UNCHANGED <<stored, stored_changes, stored_lasting, stored_ever, bucket_collected,
                     bucket_errors, accesses>>
      /\ DOMAIN buckets' \subseteq Bucket
      /\ \A b \in DOMAIN buckets' :
           /\ buckets'[b].uniform = (Storage!Uniform(b) \in stored)
           /\ buckets'[b].requesterPays = (Storage!RequesterPays(b) \in stored)
  BY DEF Storage!list_buckets, Storage!projectVars
<1>2. DOMAIN bucket_collected = {} /\ bucket_errors = {}
  <2>1. DOMAIN buckets = {}
    BY DEF Storage!list_buckets
  <2> QED BY <2>1 DEF BucketInv
<1>3. AccessInv'
  <2>1. \A b \in DOMAIN buckets' :
          Storage!_get_public_access(buckets'[b].uniform, Storage!AllUsers(b) \in stored)
            \in accesses[b]
    BY <1>1, TrueIsShown DEF BucketInv, AccessInv
  <2>2. \A b \in Bucket : Storage!TrueAccess(b)' = Storage!TrueAccess(b)
    BY <1>1 DEF Storage!TrueAccess
  <2> QED BY <1>1, <2>1, <2>2 DEF BucketInv, AccessInv
<1>4. Storage!AccessOnceTrue' /\ Storage!BucketsThatFail'
  BY <1>1, <1>2 DEF Storage!AccessOnceTrue, Storage!BucketsThatFail
<1> QED BY <1>1, <1>2, <1>3, <1>4 DEF BucketInv

LEMMA BuildBucketKeeps ==
  ASSUME BucketInv, NEW b \in Bucket, Storage!BuildBucket(b)
  PROVE  BucketInv'
<1>1. /\ UNCHANGED <<stored, stored_changes, stored_lasting, stored_ever, buckets,
                     bucket_errors, accesses>>
      /\ DOMAIN bucket_collected' = DOMAIN bucket_collected \cup {b}
      /\ bucket_collected'[b].public_access =
           Storage!_get_public_access(buckets[b].uniform, Storage!AllUsers(b) \in stored)
      /\ \A c \in DOMAIN bucket_collected \ {b} : bucket_collected'[c] = bucket_collected[c]
      /\ b \in DOMAIN buckets
  BY DEF Storage!BuildBucket, Storage!projectVars, Storage!Left
<1>2. AccessInv'
  BY <1>1 DEF BucketInv, AccessInv, Storage!TrueAccess
<1>3. Storage!AccessOnceTrue'
  BY <1>1 DEF BucketInv, AccessInv, Storage!AccessOnceTrue
<1>4. Storage!BucketsThatFail'
  BY <1>1 DEF BucketInv, Storage!BucketsThatFail
<1> QED BY <1>1, <1>2, <1>3, <1>4 DEF BucketInv

LEMMA FailAtBucketKeeps ==
  ASSUME Storage!LocationsTyped, BucketInv, NEW b \in Bucket, Storage!FailAtBucket(b)
  PROVE  BucketInv'
<1>1. /\ UNCHANGED <<stored, stored_changes, stored_lasting, stored_ever, buckets,
                     bucket_collected, accesses>>
      /\ bucket_errors' = bucket_errors \cup {b} /\ b \in DOMAIN buckets
      /\ ~Storage!PolicyAnswers(b) \/ Storage!get_matching_region(b) = {}
  BY DEF Storage!FailAtBucket, Storage!projectVars, Storage!Left
<1>2. \/ Storage!Exists(b) \notin stored_lasting
      \/ Storage!RequesterPays(b) \in stored_ever \ stored_lasting
      \/ Location[b].type = "region" /\ Location[b].code \notin KnownRegion
  <2>1. CASE ~Storage!PolicyAnswers(b)
    BY <1>1, <2>1 DEF BucketInv, Storage!PolicyAnswers
  <2>2. CASE Storage!get_matching_region(b) = {}
    BY <2>2 DEF Storage!LocationsTyped, Storage!get_matching_region
  <2> QED BY <1>1, <2>1, <2>2
<1>3. AccessInv'
  BY <1>1 DEF BucketInv, AccessInv, Storage!TrueAccess
<1>4. Storage!AccessOnceTrue' /\ Storage!BucketsThatFail'
  BY <1>1, <1>2 DEF BucketInv, Storage!AccessOnceTrue, Storage!BucketsThatFail
<1> QED BY <1>1, <1>3, <1>4 DEF BucketInv

LEMMA BucketInvariance ==
  ASSUME Storage!LocationsTyped
  PROVE  Storage!Spec => []BucketInv
<1>1. BucketInv /\ [Storage!Next]_(Storage!vars) => BucketInv'
  <2> SUFFICES ASSUME BucketInv, [Storage!Next]_(Storage!vars) PROVE BucketInv'
    OBVIOUS
  <2>1. CASE Storage!ProjectChanges \/ Storage!list_buckets
    BY <2>1, ProjectChangesBuckets, ListBucketsKeeps
  <2>2. ASSUME NEW b \in Bucket, Storage!BuildBucket(b) \/ Storage!FailAtBucket(b)
        PROVE  BucketInv'
    BY <2>2, BuildBucketKeeps, FailAtBucketKeeps
  <2>3. CASE UNCHANGED Storage!vars
    <3>1. UNCHANGED <<stored, stored_changes, stored_lasting, stored_ever, buckets,
                      bucket_collected, bucket_errors, accesses>>
      BY <2>3 DEF Storage!vars, Storage!projectVars
    <3>2. AccessInv'
      BY <3>1 DEF BucketInv, AccessInv, Storage!TrueAccess
    <3> QED
      BY <3>1, <3>2 DEF BucketInv, Storage!AccessOnceTrue, Storage!BucketsThatFail
  <2> QED BY <2>1, <2>2, <2>3 DEF Storage!Next
<1> QED BY <1>1, InitBucketInv, PTL DEF Storage!Spec

\* A bucket is shown with a public access it had while the project was being
\* listed, unless the project changed more than once, and fails only if it was
\* deleted, its payer changed or its region is not known.
LEMMA BucketsTrue ==
  ASSUME Storage!LocationsTyped
  PROVE  Storage!Spec => [](Storage!AccessOnceTrue /\ Storage!BucketsThatFail)
<1>1. BucketInv => Storage!AccessOnceTrue /\ Storage!BucketsThatFail
  BY DEF BucketInv
<1>2. Storage!Spec => []BucketInv
  BY BucketInvariance
<1> QED BY <1>1, <1>2, PTL

-----------------------------------------------------------------------------
\* Subscriptions.

\* Before a subscription is handled it is in neither result; those handled are
\* shown with what they were listed with, unless it cannot be read.
SubscriptionInv ==
  /\ subscriptions \in [ShownSubscription -> Subscriptions!Listed]
  /\ DOMAIN sub_collected \subseteq ShownSubscription
  /\ DOMAIN sub_collected \cap sub_left = {} /\ sub_errors \cap sub_left = {}
  /\ \A s \in DOMAIN sub_collected :
       sub_collected[s].retention_duration =
         Subscriptions!_display_time(
           subscriptions[s].messageRetentionDuration.seconds)
  /\ \A s \in ShownSubscription \ sub_left :
       s \in sub_errors <=> ~Subscriptions!ReadsAsInt(s)

\* What cannot be read has a fraction somewhere.
LEMMA FractionsFail ==
  ASSUME NEW s
  PROVE  ~Subscriptions!ReadsAsInt(s) <=>
           \/ subscriptions[s].messageRetentionDuration.fraction
           \/ \E key \in {"ttl", "minimumBackoff", "maximumBackoff"} :
                subscriptions[s][key] = "fraction"
<1>1. (\E key \in {"ttl", "minimumBackoff", "maximumBackoff"} :
         subscriptions[s][key] = "fraction")
      <=> "fraction" \in {subscriptions[s].ttl, subscriptions[s].minimumBackoff,
                          subscriptions[s].maximumBackoff}
  BY Zenon
<1> QED BY <1>1 DEF Subscriptions!ReadsAsInt

\* What is left after each of the units is less than the unit.
LEMMA DurationInUnits ==
  ASSUME NEW s \in Nat
  PROVE  LET V(k) == Subscriptions!Value(s, k)
         IN /\ V(1) \in Nat /\ V(2) \in Nat /\ V(3) \in Nat /\ V(4) \in Nat
            /\ s = 86400 * V(1) + 3600 * V(2) + 60 * V(3) + V(4)
            /\ V(2) <= 23 /\ V(3) <= 59 /\ V(4) <= 59
<1>1. /\ Subscriptions!Value(s, 1) = s \div 86400
      /\ Subscriptions!Value(s, 2) = (s % 86400) \div 3600
      /\ Subscriptions!Value(s, 3) = (s % 3600) \div 60
      /\ Subscriptions!Value(s, 4) = (s % 60) \div 1
  BY DEF Subscriptions!Value, Subscriptions!intervals
<1>2. PICK days \in Nat, rest \in Nat :
        /\ days = s \div 86400 /\ rest = s % 86400
        /\ s = 86400 * days + rest /\ rest < 86400
  BY SMT
<1>3. PICK hours \in Nat, less \in Nat :
        /\ hours = rest \div 3600 /\ rest = 3600 * hours + less
        /\ hours <= 23 /\ less < 3600
  BY <1>2, SMT
<1>4. s % 3600 = less
  BY <1>2, <1>3, SMT
<1>5. PICK minutes \in Nat, seconds \in Nat :
        /\ minutes = less \div 60 /\ less = 60 * minutes + seconds
        /\ minutes <= 59 /\ seconds <= 59
  BY <1>3, SMT
<1>6. (s % 60) \div 1 = seconds
  BY <1>2, <1>3, <1>5, SMT
<1> QED BY <1>1, <1>2, <1>3, <1>4, <1>5, <1>6, SMT

LEMMA DurationShown ==
  ASSUME NEW s \in Nat
  PROVE  LET shown == Subscriptions!_display_time(s)
         IN IF DOMAIN shown = {} THEN s = 0
            ELSE /\ Subscriptions!Total(shown) <= s
                 /\ \A k \in DOMAIN shown :
                      (\A j \in DOMAIN shown : j <= k)
                        => s - Subscriptions!Total(shown) < Subscriptions!intervals[k]
<1> DEFINE V(k) == Subscriptions!Value(s, k)
           shown == Subscriptions!_display_time(s)
           Is(k) == k \in DOMAIN shown
<1>1. /\ V(1) \in Nat /\ V(2) \in Nat /\ V(3) \in Nat /\ V(4) \in Nat
      /\ s = 86400 * V(1) + 3600 * V(2) + 60 * V(3) + V(4)
      /\ V(2) <= 23 /\ V(3) <= 59 /\ V(4) <= 59
  BY DurationInUnits
<1>2. /\ DOMAIN shown \subseteq 1 .. 4
      /\ \A k \in DOMAIN shown : shown[k] = V(k)
      /\ Is(1) <=> V(1) # 0
      /\ Is(2) <=> V(2) # 0
      /\ Is(3) <=> V(3) # 0 /\ (V(1) = 0 \/ V(2) = 0)
      /\ Is(4) <=> V(4) # 0 /\ (V(1) = 0 \/ V(2) = 0) /\ (V(1) = 0 \/ V(3) = 0)
                   /\ (V(2) = 0 \/ V(3) = 0)
  <2>1. /\ DOMAIN shown = {n \in 1 .. 4 : V(n) # 0 /\
             ~\E i, j \in 1 .. n - 1 : i # j /\ V(i) # 0 /\ V(j) # 0}
        /\ \A k \in DOMAIN shown : shown[k] = V(k)
    BY DEF Subscriptions!_display_time
  <2>2. 1 .. 1 - 1 = {} /\ 1 .. 2 - 1 = {1} /\ 1 .. 3 - 1 = {1, 2} /\ 1 .. 4 - 1 = {1, 2, 3}
    OBVIOUS
  <2> HIDE DEF V, shown
  <2> QED BY <2>1, <2>2
<1>3. /\ Subscriptions!intervals[1] = 86400 /\ Subscriptions!intervals[2] = 3600
      /\ Subscriptions!intervals[3] = 60 /\ Subscriptions!intervals[4] = 1
  BY DEF Subscriptions!intervals
<1>4. Subscriptions!Total(shown) =
        (IF Is(1) THEN V(1) * 86400 ELSE 0) + (IF Is(2) THEN V(2) * 3600 ELSE 0)
        + (IF Is(3) THEN V(3) * 60 ELSE 0) + (IF Is(4) THEN V(4) * 1 ELSE 0)
  BY <1>2, <1>3 DEF Subscriptions!Total
<1> DEFINE total == Subscriptions!Total(shown)
<1>5. total = 86400 * V(1) + 3600 * V(2)
              + (IF V(1) = 0 \/ V(2) = 0 THEN 60 * V(3) ELSE 0)
              + (IF (V(1) = 0 \/ V(2) = 0) /\ (V(1) = 0 \/ V(3) = 0) /\ (V(2) = 0 \/ V(3) = 0)
                 THEN V(4) ELSE 0)
  <2> HIDE DEF V, shown, Is
  <2>1. (IF Is(1) THEN V(1) * 86400 ELSE 0) = 86400 * V(1)
    BY <1>1, <1>2, SMT
  <2>2. (IF Is(2) THEN V(2) * 3600 ELSE 0) = 3600 * V(2)
    BY <1>1, <1>2, SMT
  <2>3. (IF Is(3) THEN V(3) * 60 ELSE 0) = (IF V(1) = 0 \/ V(2) = 0 THEN 60 * V(3) ELSE 0)
    BY <1>1, <1>2, SMT
  <2>4. (IF Is(4) THEN V(4) * 1 ELSE 0) =
          (IF (V(1) = 0 \/ V(2) = 0) /\ (V(1) = 0 \/ V(3) = 0) /\ (V(2) = 0 \/ V(3) = 0)
           THEN V(4) ELSE 0)
    BY <1>1, <1>2, SMT
  <2> HIDE DEF total
  <2>5. total = (IF Is(1) THEN V(1) * 86400 ELSE 0) + (IF Is(2) THEN V(2) * 3600 ELSE 0)
                + (IF Is(3) THEN V(3) * 60 ELSE 0) + (IF Is(4) THEN V(4) * 1 ELSE 0)
    BY <1>4 DEF total
  <2> QED BY <2>1, <2>2, <2>3, <2>4, <2>5
<1>6. DOMAIN shown = {} => s = 0
  BY <1>1, <1>2, SMT
<1>7. total \in Nat /\ total <= s
  <2> HIDE DEF V, shown, total, Is
  <2> QED BY <1>1, <1>5, SMT
<1>8. ASSUME NEW k \in DOMAIN shown, \A j \in DOMAIN shown : j <= k
      PROVE  s - total < Subscriptions!intervals[k]
  <2> HIDE DEF V, shown, total
  <2>0. k \in {1, 2, 3, 4} /\ Is(k) /\ \A j \in 1 .. 4 : j > k => ~Is(j)
    BY <1>2, <1>8
  <2> HIDE DEF Is
  <2>1. CASE k = 1
    <3>1. V(2) = 0 /\ V(3) = 0 /\ V(4) = 0
      BY <1>1, <1>2, <2>0, <2>1, SMT
    <3>2. s = 86400 * V(1) /\ total = 86400 * V(1)
      BY <1>1, <1>5, <3>1, SMT
    <3>3. s - total < 86400
      BY <1>1, <3>2, SMT
    <3> QED BY <1>3, <2>1, <3>3
  <2>2. CASE k = 2
    BY <1>1, <1>2, <1>3, <1>5, <2>0, <2>2, SMT
  <2>3. CASE k = 3
    BY <1>1, <1>2, <1>3, <1>5, <2>0, <2>3, SMT
  <2>4. CASE k = 4
    BY <1>1, <1>2, <1>3, <1>5, <2>0, <2>4, SMT
  <2> QED BY <2>0, <2>1, <2>2, <2>3, <2>4
<1> HIDE DEF V, shown, total
<1>9. IF DOMAIN shown = {} THEN s = 0
      ELSE /\ total <= s
           /\ \A k \in DOMAIN shown :
                (\A j \in DOMAIN shown : j <= k) => s - total < Subscriptions!intervals[k]
  BY <1>6, <1>7, <1>8
<1> QED BY <1>9 DEF shown, total

LEMMA InitSubscriptionInv == ASSUME Subscriptions!Init PROVE SubscriptionInv
BY DEF Subscriptions!Init, SubscriptionInv

LEMMA SubscriptionKeeps ==
  ASSUME SubscriptionInv, NEW s \in ShownSubscription,
         Subscriptions!Build(s) \/ Subscriptions!FailToRead(s)
  PROVE  SubscriptionInv'
<1> DEFINE ReadingStays == \A u : Subscriptions!ReadsAsInt(u)' <=> Subscriptions!ReadsAsInt(u)
<1>1. s \in sub_left /\ sub_left' = sub_left \ {s} /\ subscriptions' = subscriptions
  BY DEF Subscriptions!Build, Subscriptions!FailToRead
<1>2. s \notin sub_errors /\ s \notin DOMAIN sub_collected
  BY <1>1 DEF SubscriptionInv
<1>3. CASE Subscriptions!Build(s)
  <2>1. /\ DOMAIN sub_collected' = DOMAIN sub_collected \cup {s}
        /\ sub_collected'[s].retention_duration =
             Subscriptions!_display_time(subscriptions[s].messageRetentionDuration.seconds)
        /\ \A u \in DOMAIN sub_collected : sub_collected'[u] = sub_collected[u]
        /\ sub_errors' = sub_errors
    BY <1>2, <1>3 DEF Subscriptions!Build
  <2>2. Subscriptions!ReadsAsInt(s) /\ ReadingStays
    BY <1>1, <1>3 DEF Subscriptions!Build, Subscriptions!ReadsAsInt
  <2> HIDE DEF ReadingStays
  <2>3. \A u \in ShownSubscription \ sub_left' :
          u \in sub_errors' <=> ~(Subscriptions!ReadsAsInt(u)')
    BY <1>1, <1>2, <2>1, <2>2 DEF SubscriptionInv, ReadingStays
  <2> QED BY <1>1, <1>2, <2>1, <2>3 DEF SubscriptionInv
<1>4. CASE Subscriptions!FailToRead(s)
  <2>1. sub_collected' = sub_collected /\ sub_errors' = sub_errors \cup {s}
    BY <1>4 DEF Subscriptions!FailToRead
  <2>2. ~Subscriptions!ReadsAsInt(s) /\ ReadingStays
    BY <1>1, <1>4 DEF Subscriptions!FailToRead, Subscriptions!ReadsAsInt
  <2> HIDE DEF ReadingStays
  <2>3. \A u \in ShownSubscription \ sub_left' :
          u \in sub_errors' <=> ~(Subscriptions!ReadsAsInt(u)')
    BY <1>1, <1>2, <2>1, <2>2 DEF SubscriptionInv, ReadingStays
  <2> QED BY <1>1, <1>2, <2>1, <2>3 DEF SubscriptionInv
<1> QED BY <1>3, <1>4

\* A duration is shown by its largest units, to less than the smallest shown;
\* just subscriptions with a fractional duration fail.
LEMMA RetentionTrue ==
  ASSUME Seconds \subseteq Nat
  PROVE  Subscriptions!Spec => []Subscriptions!RetentionShown
<1>1. SubscriptionInv /\ [Subscriptions!Next]_(Subscriptions!vars) => SubscriptionInv'
  <2>1. CASE UNCHANGED Subscriptions!vars
    BY <2>1 DEF Subscriptions!vars, SubscriptionInv, Subscriptions!ReadsAsInt
  <2> QED BY <2>1, SubscriptionKeeps DEF Subscriptions!Next
<1>2. SubscriptionInv => Subscriptions!RetentionShown
  <2> SUFFICES ASSUME SubscriptionInv PROVE Subscriptions!RetentionShown
    OBVIOUS
  <2>1. ASSUME NEW s \in DOMAIN sub_collected
        PROVE  /\ sub_collected[s].retention_duration =
                    Subscriptions!_display_time(
                      subscriptions[s].messageRetentionDuration.seconds)
               /\ subscriptions[s].messageRetentionDuration.seconds \in Nat
    BY DEF SubscriptionInv, Subscriptions!Listed, Subscriptions!Duration
  <2>2. \A s \in ShownSubscription \ sub_left :
          s \in sub_errors <=>
            \/ subscriptions[s].messageRetentionDuration.fraction
            \/ \E key \in {"ttl", "minimumBackoff", "maximumBackoff"} :
                 subscriptions[s][key] = "fraction"
    BY FractionsFail DEF SubscriptionInv
  <2> QED BY <2>1, <2>2, DurationShown DEF Subscriptions!RetentionShown
<1> QED BY <1>1, <1>2, InitSubscriptionInv, PTL DEF Subscriptions!Spec

-----------------------------------------------------------------------------
\* Cloud Functions.

\* Entry k of the map is what listing j of the name has.
EntryOf(k, j) ==
  /\ providers[j].displayName = trigger_provider_map[k].name
  /\ providers[j].eventTypes = trigger_provider_map[k].types

\* Of the listings before position, j is the last of its name.
LastSoFar(j) ==
  /\ j < position
  /\ \A i \in DOMAIN providers :
       i < position /\ providers[i].displayName = providers[j].displayName => i <= j

\* The map has an entry for every name so far, and each is its last listing.
TriggersInv ==
  /\ \E n \in Nat : providers \in [1 .. n -> CloudFunctionsOf!Provider]
  /\ position \in Nat \ {0}
  /\ trigger_provider_map \in Seq(CloudFunctionsOf!Entry)
  /\ \A j \in DOMAIN providers : j < position =>
       \E k \in DOMAIN trigger_provider_map :
         trigger_provider_map[k].name = providers[j].displayName
  /\ \A k \in DOMAIN trigger_provider_map :
       \E j \in DOMAIN providers : EntryOf(k, j) /\ LastSoFar(j)

\* What may be shown for event e.
Offered(e, shown) ==
  IF shown = "Not Found"
  THEN \A name \in DisplayName : \A k \in CloudFunctionsOf!OfName(name) :
         (\A j \in CloudFunctionsOf!OfName(name) : j <= k)
           => e \notin providers[k].eventTypes
  ELSE \E k \in CloudFunctionsOf!OfName(shown) : e \in providers[k].eventTypes

FunctionsInv ==
  /\ TriggersInv
  /\ fun_collected = <<>> \/ position > Len(providers)
  /\ CloudFunctionsOf!ProviderOffersEvent

LEMMA LeastOf ==
  ASSUME NEW S \in SUBSET Nat, S # {}
  PROVE  \E k \in S : \A m \in S : k <= m
<1> DEFINE Less == OpToRel(<, Nat)
<1>1. PICK k \in S : \A m \in S : ~(<<m, k>> \in Less)
  BY NatLessThanWellFounded, WFMin, Zenon
<1>2. \A m, n \in Nat : m < n => <<m, n>> \in Less
  BY DEF OpToRel
<1>3. \A m \in S : ~(m < k)
  BY <1>1, <1>2, Zenon
<1>4. \A m \in S : k <= m
  BY <1>3
<1> QED BY <1>4

LEMMA InitFunctionsInv == ASSUME CloudFunctionsOf!Init PROVE FunctionsInv
<1>1. \E n \in Nat : providers \in [1 .. n -> CloudFunctionsOf!Provider]
  BY DEF CloudFunctionsOf!Init
<1>2. position = 1 /\ trigger_provider_map = <<>> /\ fun_collected = <<>>
  BY DEF CloudFunctionsOf!Init
<1>3. TriggersInv
  BY <1>1, <1>2 DEF TriggersInv
<1> QED BY <1>2, <1>3 DEF FunctionsInv, CloudFunctionsOf!ProviderOffersEvent

\* A listing is put in the place of the earlier one of its name, or last.
LEMMA AssignKeeps ==
  ASSUME FunctionsInv, CloudFunctionsOf!_create_trigger_provider_map
  PROVE  FunctionsInv'
<1> DEFINE now == providers[position]
           entry == [name |-> now.displayName, types |-> now.eventTypes]
           map == trigger_provider_map
<1>1. PICK n \in Nat : /\ providers \in [1 .. n -> CloudFunctionsOf!Provider]
                       /\ Len(providers) = n /\ DOMAIN providers = 1 .. n
  BY DEF FunctionsInv, TriggersInv
<1>2. /\ position \in 1 .. n /\ position' = position + 1
      /\ UNCHANGED <<providers, functions, fun_collected>> /\ fun_collected = <<>>
  BY <1>1 DEF FunctionsInv, TriggersInv, CloudFunctionsOf!_create_trigger_provider_map
<1>3. map' = CloudFunctionsOf!Assign(map, now.displayName, now.eventTypes)
  BY DEF CloudFunctionsOf!_create_trigger_provider_map, CloudFunctionsOf!EventTypes
<1>4. now \in CloudFunctionsOf!Provider /\ entry \in CloudFunctionsOf!Entry
  BY <1>1, <1>2 DEF CloudFunctionsOf!Provider, CloudFunctionsOf!Entry
<1>5. /\ map' \in Seq(CloudFunctionsOf!Entry)
      /\ DOMAIN map \subseteq DOMAIN map'
      /\ \A k \in DOMAIN map : map'[k] = IF map[k].name = now.displayName THEN entry ELSE map[k]
      /\ \A k \in DOMAIN map' \ DOMAIN map : map'[k] = entry
      /\ \E k \in DOMAIN map' : map'[k] = entry
      /\ \A k \in DOMAIN map' : map'[k] = entry \/ (k \in DOMAIN map /\ map'[k] = map[k]
                                                     /\ map[k].name # now.displayName)
  <2>1. map \in Seq(CloudFunctionsOf!Entry)
    BY DEF FunctionsInv, TriggersInv
  <2>2. CASE \E k \in DOMAIN map : map[k].name = now.displayName
    <3>1. map' = [k \in DOMAIN map |-> IF map[k].name = now.displayName THEN entry ELSE map[k]]
      BY <1>3, <2>2 DEF CloudFunctionsOf!Assign
    <3> HIDE DEF entry, map, now
    <3>2. map \in Seq(CloudFunctionsOf!Entry)
      BY <2>1 DEF map
    <3> QED BY <1>4, <3>1, <3>2, <2>2
  <2>3. CASE ~\E k \in DOMAIN map : map[k].name = now.displayName
    <3>1. map' = Append(map, entry)
      BY <1>3, <2>3 DEF CloudFunctionsOf!Assign
    <3> HIDE DEF entry, map, now
    <3>2. map \in Seq(CloudFunctionsOf!Entry)
      BY <2>1 DEF map
    <3> QED BY <1>4, <3>1, <3>2, <2>3
  <2> QED BY <2>2, <2>3
<1>6. ASSUME NEW j \in DOMAIN providers, j < position'
      PROVE  \E k \in DOMAIN map' : map'[k].name = providers[j].displayName
  <2>1. CASE j = position
    <3>1. PICK k \in DOMAIN map' : map'[k] = entry
      BY <1>5
    <3> QED BY <2>1, <3>1
  <2>2. CASE j < position
    <3>1. PICK m \in DOMAIN map : map[m].name = providers[j].displayName
      BY <2>2 DEF FunctionsInv, TriggersInv
    <3>2. m \in DOMAIN map' /\ map'[m].name = map[m].name
      <4>1. CASE map[m].name = now.displayName
        <5>1. map'[m] = entry
          BY <1>5, <4>1
        <5> QED BY <1>5, <4>1, <5>1
      <4>2. CASE map[m].name # now.displayName
        <5>1. map'[m] = map[m]
          BY <1>5, <4>2
        <5> QED BY <1>5, <5>1
      <4> QED BY <4>1, <4>2
    <3> QED BY <3>1, <3>2
  <2> QED BY <1>1, <1>2, <1>6, <2>1, <2>2
<1>7. ASSUME NEW k \in DOMAIN map'
      PROVE  \E j \in DOMAIN providers : (EntryOf(k, j) /\ LastSoFar(j))'
  <2>1. CASE map'[k] = entry
    <3>1. PICK j \in DOMAIN providers : j = position
      BY <1>1, <1>2
    <3>2. EntryOf(k, j)' /\ LastSoFar(j)'
      BY <1>1, <1>2, <2>1, <3>1 DEF EntryOf, LastSoFar
    <3> QED BY <1>1, <1>2, <3>2
  <2>2. CASE k \in DOMAIN map /\ map'[k] = map[k] /\ map[k].name # now.displayName
    <3>1. PICK j \in DOMAIN providers : EntryOf(k, j) /\ LastSoFar(j)
      BY <2>2 DEF FunctionsInv, TriggersInv
    <3>2. EntryOf(k, j)' /\ LastSoFar(j)'
      BY <1>1, <1>2, <2>2, <3>1 DEF EntryOf, LastSoFar
    <3> QED BY <3>2
  <2> QED BY <1>5, <2>1, <2>2
<1>8. TriggersInv'
  <2>1. (\E m \in Nat : providers \in [1 .. m -> CloudFunctionsOf!Provider])'
    BY <1>1, <1>2
  <2>2. position' \in Nat \ {0}
    BY <1>1, <1>2
  <2>3. trigger_provider_map' \in Seq(CloudFunctionsOf!Entry)
    BY <1>5
  <2>4. \A j \in DOMAIN providers' : j < position' =>
          \E k \in DOMAIN map' : map'[k].name = providers'[j].displayName
    BY <1>2, <1>6
  <2>5. (\A k \in DOMAIN trigger_provider_map :
           \E j \in DOMAIN providers : EntryOf(k, j) /\ LastSoFar(j))'
    BY <1>2, <1>7
  <2> QED BY <2>1, <2>2, <2>3, <2>4, <2>5 DEF TriggersInv
<1> QED BY <1>2, <1>8 DEF FunctionsInv, CloudFunctionsOf!ProviderOffersEvent

\* What is shown for an event when all providers are in the map.
LEMMA ProviderFound ==
  ASSUME TriggersInv, CloudFunctionsOf!NamesTyped, position > Len(providers), NEW e
  PROVE  Offered(e, CloudFunctionsOf!_get_event_provider_from_trigger_map(e))
<1> DEFINE map == trigger_provider_map
           offering == {k \in DOMAIN map : e \in map[k].types}
           shown == CloudFunctionsOf!_get_event_provider_from_trigger_map(e)
<1>0. PICK n \in Nat : providers \in [1 .. n -> CloudFunctionsOf!Provider]
  BY DEF TriggersInv
<1>1. Len(providers) = n /\ n < position /\ DOMAIN providers = 1 .. n /\ position \in Nat
  BY <1>0 DEF TriggersInv
<1>2. CASE offering = {}
  <2>1. shown = "Not Found"
    BY <1>2 DEF CloudFunctionsOf!_get_event_provider_from_trigger_map
  <2>2. ASSUME NEW name \in DisplayName, NEW k \in CloudFunctionsOf!OfName(name),
               \A j \in CloudFunctionsOf!OfName(name) : j <= k
        PROVE  e \notin providers[k].eventTypes
    <3>1. k \in 1 .. n /\ providers[k].displayName = name
      BY <1>1 DEF CloudFunctionsOf!OfName
    <3>2. PICK m \in DOMAIN map : map[m].name = name
      <4>1. k \in DOMAIN providers /\ k < position
        BY <1>1, <3>1, SMT DEF TriggersInv
      <4> QED BY <3>1, <4>1 DEF TriggersInv
    <3>3. PICK j \in DOMAIN providers : EntryOf(m, j) /\ LastSoFar(j)
      BY DEF TriggersInv
    <3>4. j \in CloudFunctionsOf!OfName(name)
      BY <3>2, <3>3 DEF EntryOf, CloudFunctionsOf!OfName
    <3>5. k <= j
      <4>1. k < position /\ providers[k].displayName = providers[j].displayName
        BY <1>1, <3>1, <3>2, <3>3, SMT DEF EntryOf
      <4> QED BY <1>1, <3>1, <3>3, <4>1 DEF LastSoFar
    <3>6. j = k
      <4>1. j <= k /\ j \in Nat /\ k \in Nat
        BY <1>1, <2>2, <3>1, <3>4
      <4> QED BY <3>5, <4>1
    <3> QED BY <1>2, <3>3, <3>6 DEF EntryOf
  <2> QED BY <2>1, <2>2 DEF Offered
<1>3. CASE offering # {}
  <2>1. offering \in SUBSET Nat
    BY DEF TriggersInv
  <2>2. \E k \in offering : \A m \in offering : k <= m
    BY <1>3, <2>1, LeastOf
  <2>3. CloudFunctionsOf!Min(offering) \in offering
    BY <2>2 DEF CloudFunctionsOf!Min
  <2>4. PICK m \in offering : shown = map[m].name
    BY <1>3, <2>3 DEF CloudFunctionsOf!_get_event_provider_from_trigger_map
  <2>5. PICK j \in DOMAIN providers : EntryOf(m, j)
    BY DEF TriggersInv
  <2>6. shown # "Not Found"
    <3>1. map[m] \in CloudFunctionsOf!Entry
      BY DEF TriggersInv
    <3> QED BY <2>4, <3>1 DEF CloudFunctionsOf!Entry, CloudFunctionsOf!NamesTyped
  <2>7. j \in CloudFunctionsOf!OfName(shown) /\ e \in providers[j].eventTypes
    BY <2>4, <2>5 DEF EntryOf, CloudFunctionsOf!OfName
  <2> QED BY <2>6, <2>7 DEF Offered
<1> QED BY <1>2, <1>3

LEMMA FunctionKeeps ==
  ASSUME FunctionsInv, CloudFunctionsOf!NamesTyped, NEW f \in Function,
         CloudFunctionsOf!BuildFunction(f) \/ CloudFunctionsOf!FailFunction(f)
  PROVE  FunctionsInv'
<1>1. /\ UNCHANGED <<providers, position, trigger_provider_map, functions>>
      /\ position > Len(providers)
  BY DEF CloudFunctionsOf!BuildFunction, CloudFunctionsOf!FailFunction
<1>2. TriggersInv' /\ (position > Len(providers))'
  BY <1>1 DEF FunctionsInv, TriggersInv, EntryOf, LastSoFar
<1>3. \A e, shown : Offered(e, shown)' <=> Offered(e, shown)
  BY <1>1 DEF Offered, CloudFunctionsOf!OfName
<1>4. \A g \in DOMAIN fun_collected' :
        functions[g].environment = "GEN_2" /\ functions[g].trigger # "HTTP" =>
          Offered(functions[g].trigger, fun_collected'[g])
  <2>1. \A g \in DOMAIN fun_collected :
          functions[g].environment = "GEN_2" /\ functions[g].trigger # "HTTP" =>
            Offered(functions[g].trigger, fun_collected[g])
    BY DEF FunctionsInv, CloudFunctionsOf!ProviderOffersEvent, Offered
  <2>2. CASE CloudFunctionsOf!FailFunction(f)
    BY <2>1, <2>2 DEF CloudFunctionsOf!FailFunction
  <2>3. CASE CloudFunctionsOf!BuildFunction(f)
    <3>1. /\ DOMAIN fun_collected' = DOMAIN fun_collected \cup {f}
          /\ fun_collected'[f] = CloudFunctionsOf!Trigger(f)
          /\ \A g \in DOMAIN fun_collected \ {f} : fun_collected'[g] = fun_collected[g]
      BY <2>3 DEF CloudFunctionsOf!BuildFunction
    <3>2. functions[f].environment = "GEN_2" /\ functions[f].trigger # "HTTP" =>
            fun_collected'[f] =
              CloudFunctionsOf!_get_event_provider_from_trigger_map(functions[f].trigger)
      BY <3>1 DEF CloudFunctionsOf!Trigger
    <3> QED BY <1>1, <2>1, <3>1, <3>2, ProviderFound DEF FunctionsInv
  <2> QED BY <2>2, <2>3
<1>5. (\A g \in DOMAIN fun_collected :
         functions[g].environment = "GEN_2" /\ functions[g].trigger # "HTTP" =>
           Offered(functions[g].trigger, fun_collected[g]))'
  BY <1>1, <1>3, <1>4
<1>6. CloudFunctionsOf!ProviderOffersEvent'
  BY <1>5 DEF CloudFunctionsOf!ProviderOffersEvent, Offered
<1> QED BY <1>1, <1>2, <1>6 DEF FunctionsInv

LEMMA FunctionsInvariance ==
  ASSUME CloudFunctionsOf!NamesTyped
  PROVE  CloudFunctionsOf!Spec => []FunctionsInv
<1>1. FunctionsInv /\ [CloudFunctionsOf!Next]_(CloudFunctionsOf!vars) => FunctionsInv'
  <2>1. CASE UNCHANGED CloudFunctionsOf!vars
    BY <2>1 DEF CloudFunctionsOf!vars, FunctionsInv, TriggersInv, EntryOf, LastSoFar,
                CloudFunctionsOf!ProviderOffersEvent, CloudFunctionsOf!OfName
  <2> QED BY <2>1, AssignKeeps, FunctionKeeps DEF CloudFunctionsOf!Next
<1> QED BY <1>1, InitFunctionsInv, PTL DEF CloudFunctionsOf!Spec

LEMMA ProvidersTrue ==
  ASSUME CloudFunctionsOf!NamesTyped
  PROVE  CloudFunctionsOf!Spec => []CloudFunctionsOf!ProviderOffersEvent
<1>1. FunctionsInv => CloudFunctionsOf!ProviderOffersEvent
  BY DEF FunctionsInv
<1>2. CloudFunctionsOf!Spec => []FunctionsInv
  BY FunctionsInvariance
<1> QED BY <1>1, <1>2, PTL

-----------------------------------------------------------------------------
\* Types: what holds of each manager's state besides the invariants above.

\* The loop is at most at one instance, and at none that it has finished.
SQLTypes ==
  /\ steps \in 0 .. MaxSteps
  /\ asked = {} \/ \E i \in Instance : asked = {i}
  /\ asked \subseteq SQL!Left
  /\ (DOMAIN sql_collected) \cap sql_errors = {}
  /\ changed \subseteq Instance

LEMMA InstancesTyped == SQLInv /\ SQLTypes => SQL!TypeOK
<1> SUFFICES ASSUME SQLInv, SQLTypes PROVE SQL!TypeOK
  OBVIOUS
<1>1. Cardinality(asked) = 0 \/ Cardinality(asked) = 1
  <2>1. CASE asked = {}
    BY <2>1, FS_EmptySet, Zenon
  <2>2. ASSUME NEW i \in Instance, asked = {i} PROVE Cardinality(asked) = 1
    BY <2>2, FS_Singleton, Zenon
  <2> QED BY <2>1, <2>2 DEF SQLTypes
<1>2. Cardinality(asked) = SQL!Cardinality(asked)
  BY Zenon DEF Cardinality, SQL!Cardinality
<1> QED BY <1>1, <1>2 DEF SQLInv, LifeInv, SQLTypes, SQL!TypeOK

LEMMA InitSQLTypes == ASSUME MaxSteps \in Nat, SQL!Init PROVE SQLTypes
BY DEF SQL!Init, SQLTypes

\* An instance that is skipped is not one that has been asked.
LEMMA SQLTypesKept ==
  ASSUME MaxSteps \in Nat, SQLInv, SQLTypes, [SQL!Next]_(SQL!vars)
  PROVE  SQLTypes'
<1>1. ASSUME NEW i \in Instance, SQL!GoesOn(i) PROVE SQLTypes'
  <2>1. /\ UNCHANGED <<listed, asked, sql_collected, sql_errors>>
        /\ steps < MaxSteps /\ steps' = steps + 1
        /\ changed' = {} \/ changed' = changed \cup {i}
    BY <1>1 DEF SQL!GoesOn
  <2>2. SQL!Left' = SQL!Left
    BY <2>1 DEF SQL!Left
  <2>3. steps' \in 0 .. MaxSteps
    BY <2>1, SMT DEF SQLTypes
  <2> QED BY <2>1, <2>2, <2>3 DEF SQLTypes
<1>2. CASE SQL!list_instances
  <2>1. /\ listed = <<>>
        /\ UNCHANGED <<life, steps, asked, sql_collected, sql_errors, changed>>
    BY <1>2 DEF SQL!list_instances
  <2>2. asked = {}
    BY <2>1 DEF SQLTypes, SQL!Left
  <2> QED BY <2>1, <2>2 DEF SQLTypes
<1>3. ASSUME NEW i \in Instance, NEW databases, i \in SQL!Left,
             SQL!Report(i, databases), asked' = {},
             UNCHANGED <<steps, listed, sql_errors, changed>>
      PROVE  SQLTypes'
  <2>1. DOMAIN sql_collected' = DOMAIN sql_collected \cup {i}
    BY <1>3 DEF SQL!Report
  <2> QED BY <1>3, <2>1 DEF SQLTypes, SQL!Left
<1>4. ASSUME NEW i \in Instance, SQL!Skip(i) PROVE SQLTypes'
  <2>1. asked = {}
    BY <1>4 DEF SQL!Skip, SQL!Turn, SQLInv, ReportInv
  <2> QED BY <1>3, <1>4, <2>1 DEF SQL!Skip, SQL!Turn
<1>5. ASSUME NEW i \in Instance, SQL!list_users(i) PROVE SQLTypes'
  <2>1. i \in SQL!Left
    BY <1>5 DEF SQL!list_users, SQLTypes
  <2> QED BY <1>3, <1>5, <2>1 DEF SQL!list_users
<1>6. ASSUME NEW i \in Instance, SQL!list_databases(i) PROVE SQLTypes'
  BY <1>6 DEF SQL!list_databases, SQL!Turn, SQLTypes, SQL!Left
<1>7. ASSUME NEW i \in Instance, SQL!Unavailable(i) PROVE SQLTypes'
  BY <1>7 DEF SQL!Unavailable, SQL!Turn, SQLTypes, SQL!Left
<1>8. CASE UNCHANGED SQL!vars
  BY <1>8 DEF SQL!vars, SQLTypes, SQL!Left
<1> QED BY <1>1, <1>2, <1>4, <1>5, <1>6, <1>7, <1>8 DEF SQL!Next

LEMMA SQLTyped ==
  ASSUME MaxSteps \in Nat
  PROVE  SQL!Spec => []SQL!TypeOK
<1>1. SQL!Init => SQLTypes
  BY InitSQLTypes
<1>2. SQLInv /\ SQLTypes /\ [SQL!Next]_(SQL!vars) => SQLTypes'
  BY SQLTypesKept
<1> QED BY <1>1, <1>2, SQLInvariance, InstancesTyped, PTL DEF SQL!Spec

LEMMA BucketsTyped ==
  ASSUME MaxBucketChanges \in Nat, Storage!LocationsTyped
  PROVE  Storage!Spec => []Storage!TypeOK
<1>1. Storage!Init => Storage!TypeOK
  <2> SUFFICES ASSUME Storage!Init PROVE Storage!TypeOK
    OBVIOUS
  <2>1. Storage!ProjectTypeOK
    BY DEF Storage!Init, Storage!ProjectInit, Storage!ProjectTypeOK, Storage!Consistent
  <2> QED BY <2>1 DEF Storage!Init, Storage!TypeOK
<1>2. BucketInv' /\ Storage!TypeOK /\ [Storage!Next]_(Storage!vars) => Storage!TypeOK'
  <2> SUFFICES ASSUME BucketInv', Storage!TypeOK, [Storage!Next]_(Storage!vars)
               PROVE  Storage!TypeOK'
    OBVIOUS
  <2>1. DOMAIN buckets' \subseteq Bucket
    BY DEF BucketInv
  <2>2. CASE Storage!ProjectChanges
    <3>1. PICK f \in Storage!Fact : Storage!Change(f)
      BY <2>2 DEF Storage!ProjectChanges
    <3>2. Storage!Consistent(stored)' /\ stored_changes' = stored_changes + 1
      BY <3>1 DEF Storage!Change
    <3>3. stored_changes' \in 0 .. MaxBucketChanges
      BY <3>1, <3>2, SMT DEF Storage!Change, Storage!TypeOK, Storage!ProjectTypeOK
    <3>4. /\ stored_lasting' \subseteq stored' /\ stored' \subseteq stored_ever'
          /\ stored_ever' \subseteq Storage!Fact
      BY <3>1, <3>2 DEF Storage!Change, Storage!TypeOK, Storage!ProjectTypeOK, Storage!Consistent
    <3>5. UNCHANGED <<bucket_collected, bucket_errors>>
      BY <2>2 DEF Storage!ProjectChanges
    <3> QED BY <2>1, <3>2, <3>3, <3>4, <3>5 DEF Storage!TypeOK, Storage!ProjectTypeOK
  <2>3. ASSUME UNCHANGED <<stored, stored_changes, stored_lasting, stored_ever>>
        PROVE  Storage!ProjectTypeOK'
    BY <2>3 DEF Storage!TypeOK, Storage!ProjectTypeOK, Storage!Consistent
  <2>4. CASE Storage!list_buckets \/ UNCHANGED Storage!vars
    BY <2>1, <2>3, <2>4
       DEF Storage!list_buckets, Storage!vars, Storage!projectVars, Storage!TypeOK
  <2>5. ASSUME NEW b \in Bucket, Storage!BuildBucket(b) PROVE Storage!TypeOK'
    <3>1. /\ b \in Storage!Left /\ bucket_errors' = bucket_errors
          /\ DOMAIN bucket_collected' = DOMAIN bucket_collected \cup {b}
      BY <2>5 DEF Storage!BuildBucket
    <3>2. Storage!ProjectTypeOK'
      BY <2>3, <2>5 DEF Storage!BuildBucket, Storage!projectVars
    <3> QED BY <2>1, <3>1, <3>2 DEF Storage!TypeOK, Storage!Left
  <2>6. ASSUME NEW b \in Bucket, Storage!FailAtBucket(b) PROVE Storage!TypeOK'
    <3>1. Storage!ProjectTypeOK'
      BY <2>3, <2>6 DEF Storage!FailAtBucket, Storage!projectVars
    <3> QED BY <2>1, <2>6, <3>1 DEF Storage!FailAtBucket, Storage!TypeOK, Storage!Left
  <2> QED BY <2>2, <2>4, <2>5, <2>6 DEF Storage!Next
<1> QED BY <1>1, <1>2, BucketInvariance, PTL DEF Storage!Spec

NothingYet == phase = "list" => DOMAIN collected = {} /\ errors = {}

LEMMA TopicsTyped ==
  ASSUME MaxChanges \in Nat
  PROVE  Topics!Spec => []Topics!TypeOK
<1>1. Topics!Init => Topics!TypeOK
  <2> SUFFICES ASSUME Topics!Init PROVE Topics!TypeOK
    OBVIOUS
  <2>1. Topics!ProjectTypeOK
    BY DEF Topics!Init, Topics!ProjectInit, Topics!ProjectTypeOK, Topics!Consistent
  <2> QED BY <2>1 DEF Topics!Init, Topics!TypeOK
<1>2. Topics!Init => NothingYet
  BY DEF Topics!Init, NothingYet
<1>3. NothingYet /\ [Topics!Next]_(Topics!vars) => NothingYet'
  BY DEF NothingYet, Topics!Next, Topics!ProjectChanges, Topics!list_topics,
         Topics!list_subscription_names, Topics!list_snapshot_names, Topics!FailTopic,
         Topics!BuildTopic, Topics!NextTopic, Topics!Get, Topics!vars, Topics!work
<1>4. TopicInv /\ TopicInv' /\ NothingYet /\ Topics!TypeOK /\ [Topics!Next]_(Topics!vars)
        => Topics!TypeOK'
  <2> SUFFICES ASSUME TopicInv, TopicInv', NothingYet, Topics!TypeOK,
                      [Topics!Next]_(Topics!vars)
               PROVE  Topics!TypeOK'
    OBVIOUS
  <2>1. /\ phase' \in {"list", "next", "subscriptions", "snapshots"}
        /\ names' \cup parts' \subseteq {p \in Topics!Part : TopicOf[p] \in topic'}
    BY DEF TopicInv, WorkInv
  <2>0. fractional' \subseteq Topic /\ missed' \subseteq Topic \cup Topics!Part
    BY DEF Topics!TypeOK, Topics!Next, Topics!ProjectChanges, Topics!list_topics,
       Topics!list_subscription_names, Topics!list_snapshot_names, Topics!LastPage,
       Topics!NamesOf, Topics!Part, Topics!FailTopic, Topics!BuildTopic, Topics!Get, Topics!vars
  <2> DEFINE Results == /\ left' \subseteq Topic /\ topic' \subseteq left'
                        /\ DOMAIN collected' \cap errors' = {}
                        /\ (DOMAIN collected' \cup errors') \cap left' = {}
  <2>2. ASSUME UNCHANGED <<project, changes, lasting, ever>>, Results
        PROVE  Topics!TypeOK'
    <3>1. Topics!ProjectTypeOK'
      BY <2>2 DEF Topics!TypeOK, Topics!ProjectTypeOK, Topics!Consistent
    <3> QED BY <2>0, <2>1, <2>2, <3>1 DEF Topics!TypeOK
  <2>3. CASE Topics!ProjectChanges
    <3>1. PICK f \in Topics!Fact : Topics!Change(f)
      BY <2>3 DEF Topics!ProjectChanges
    <3>2. Topics!Consistent(project)' /\ changes' = changes + 1
      BY <3>1 DEF Topics!Change
    <3>3. changes' \in 0 .. MaxChanges
      BY <3>1, <3>2, SMT DEF Topics!Change, Topics!TypeOK, Topics!ProjectTypeOK
    <3>4. lasting' \subseteq project' /\ project' \subseteq ever' /\ ever' \subseteq Topics!Fact
      BY <3>1, <3>2 DEF Topics!Change, Topics!TypeOK, Topics!ProjectTypeOK, Topics!Consistent
    <3>5. UNCHANGED <<left, topic, collected, errors>>
      BY <2>3 DEF Topics!ProjectChanges, Topics!work
    <3> QED BY <2>0, <2>1, <3>2, <3>3, <3>4, <3>5 DEF Topics!TypeOK, Topics!ProjectTypeOK
  <2>4. CASE Topics!list_topics
    <3>1. /\ phase = "list" /\ left' \subseteq Topic
          /\ UNCHANGED <<project, changes, lasting, ever, topic, collected, errors>>
      BY <2>4 DEF Topics!list_topics, Topics!projectVars
    <3>2. topic = {} /\ DOMAIN collected = {} /\ errors = {}
      BY <3>1 DEF TopicInv, WorkInv, NothingYet
    <3> QED BY <2>2, <3>1, <3>2
  <2>5. ASSUME NEW t \in Topic, Topics!list_subscription_names(t) PROVE Topics!TypeOK'
    BY <2>2, <2>5 DEF Topics!list_subscription_names, Topics!projectVars, Topics!TypeOK
  <2>6. ASSUME NEW t \in Topic, Topics!list_snapshot_names(t) PROVE Topics!TypeOK'
    BY <2>2, <2>6 DEF Topics!list_snapshot_names, Topics!projectVars, Topics!TypeOK
  <2>7. ASSUME NEW p \in Topics!Part, Topics!Get(p) PROVE Topics!TypeOK'
    BY <2>2, <2>7 DEF Topics!Get, Topics!projectVars, Topics!TypeOK
  <2>8. ASSUME NEW t \in Topic, Topics!FailTopic(t) PROVE Topics!TypeOK'
    <3>1. /\ left' = left \ {t} /\ topic' = {} /\ errors' = errors \cup {t}
          /\ UNCHANGED <<project, changes, lasting, ever, collected>>
          /\ Topics!Gone(t) \/ Topics!Unread(t)
      BY <2>8 DEF Topics!FailTopic, Topics!NextTopic, Topics!projectVars
    <3>2. t \in left
      BY <3>1 DEF Topics!Gone, Topics!Unread, Topics!TypeOK
    <3> QED BY <2>2, <3>1, <3>2 DEF Topics!TypeOK
  <2>9. ASSUME NEW t \in Topic, Topics!BuildTopic(t) PROVE Topics!TypeOK'
    <3>1. /\ left' = left \ {t} /\ topic' = {} /\ errors' = errors /\ topic = {t}
          /\ DOMAIN collected' = DOMAIN collected \cup {t}
          /\ UNCHANGED <<project, changes, lasting, ever>>
      BY <2>9 DEF Topics!BuildTopic, Topics!NextTopic, Topics!projectVars
    <3>2. t \in left
      BY <3>1 DEF Topics!TypeOK
    <3> QED BY <2>2, <3>1, <3>2 DEF Topics!TypeOK
  <2>10. CASE UNCHANGED Topics!vars
    BY <2>2, <2>10 DEF Topics!vars, Topics!projectVars, Topics!work, Topics!TypeOK
  <2> QED BY <2>3, <2>4, <2>5, <2>6, <2>7, <2>8, <2>9, <2>10 DEF Topics!Next
<1> QED BY <1>1, <1>2, <1>3, <1>4, TopicInvariance, PTL DEF Topics!Spec

LEMMA SubscriptionsTyped == Subscriptions!Spec => []Subscriptions!TypeOK
<1>1. Subscriptions!Init => Subscriptions!TypeOK
  <2>1. DOMAIN <<>> = {}
    OBVIOUS
  <2> QED BY <2>1 DEF Subscriptions!Init, Subscriptions!TypeOK
<1>2. Subscriptions!TypeOK /\ [Subscriptions!Next]_(Subscriptions!vars)
        => Subscriptions!TypeOK'
  <2> SUFFICES ASSUME Subscriptions!TypeOK, [Subscriptions!Next]_(Subscriptions!vars)
               PROVE  Subscriptions!TypeOK'
    OBVIOUS
  <2>1. ASSUME NEW s \in ShownSubscription, Subscriptions!Build(s)
        PROVE  Subscriptions!TypeOK'
    <3>1. /\ s \in sub_left /\ sub_left' = sub_left \ {s}
          /\ DOMAIN sub_collected' = DOMAIN sub_collected \cup {s}
          /\ UNCHANGED <<subscriptions, sub_errors>>
      BY <2>1 DEF Subscriptions!Build
    <3> QED BY <3>1 DEF Subscriptions!TypeOK
  <2>2. ASSUME NEW s \in ShownSubscription, Subscriptions!FailToRead(s)
        PROVE  Subscriptions!TypeOK'
    BY <2>2 DEF Subscriptions!FailToRead, Subscriptions!TypeOK
  <2>3. CASE UNCHANGED Subscriptions!vars
    BY <2>3 DEF Subscriptions!vars, Subscriptions!TypeOK
  <2> QED BY <2>1, <2>2, <2>3 DEF Subscriptions!Next
<1> QED BY <1>1, <1>2, PTL DEF Subscriptions!Spec

\* An entry is put at its place or after all others: names stay distinct, and
\* there are at most as many as listings that have been looked at.
LEMMA AssignedTyped ==
  ASSUME FunctionsInv, CloudFunctionsOf!TypeOK,
         CloudFunctionsOf!_create_trigger_provider_map
  PROVE  /\ Len(trigger_provider_map') <= Len(trigger_provider_map) + 1
         /\ \A j, k \in DOMAIN trigger_provider_map' :
              trigger_provider_map'[j].name = trigger_provider_map'[k].name => j = k
<1> DEFINE name == providers[position].displayName
           entry == [name |-> name, types |-> providers[position].eventTypes]
           map == trigger_provider_map
<1>1. map' = CloudFunctionsOf!Assign(map, name, providers[position].eventTypes)
  BY DEF CloudFunctionsOf!_create_trigger_provider_map, CloudFunctionsOf!EventTypes
<1>2. /\ map \in Seq(CloudFunctionsOf!Entry)
      /\ \A j, k \in DOMAIN map : map[j].name = map[k].name => j = k
  BY DEF FunctionsInv, TriggersInv, CloudFunctionsOf!TypeOK
<1>3. entry.name = name
  OBVIOUS
<1>4. CASE \E k \in DOMAIN map : map[k].name = name
  <2>1. map' = [k \in DOMAIN map |-> IF map[k].name = name THEN entry ELSE map[k]]
    BY <1>1, <1>4 DEF CloudFunctionsOf!Assign
  <2> HIDE DEF entry, map, name
  <2>2. DOMAIN map' = DOMAIN map /\ \A k \in DOMAIN map : map'[k].name = map[k].name
    BY <1>3, <2>1
  <2>3. \E n \in Nat : DOMAIN map = 1 .. n /\ Len(map) = n /\ Len(map') = n
    <3>1. DOMAIN map = 1 .. Len(map) /\ Len(map) \in Nat
      BY <1>2
    <3>2. Len(map') = Len(map)
      BY <2>1, <3>1
    <3> QED BY <3>1, <3>2
  <2>4. /\ Len(map') <= Len(map) + 1
        /\ \A j, k \in DOMAIN map' : map'[j].name = map'[k].name => j = k
    BY <1>2, <2>2, <2>3
  <2> QED BY <2>4 DEF map
<1>5. CASE ~\E k \in DOMAIN map : map[k].name = name
  <2>1. map' = Append(map, entry)
    BY <1>1, <1>5 DEF CloudFunctionsOf!Assign
  <2>2. entry \in CloudFunctionsOf!Entry
    <3>1. PICK n \in Nat : providers \in [1 .. n -> CloudFunctionsOf!Provider]
      BY DEF FunctionsInv, TriggersInv
    <3>2. position \in 1 .. n
      BY <3>1 DEF FunctionsInv, TriggersInv, CloudFunctionsOf!_create_trigger_provider_map
    <3>3. providers[position] \in CloudFunctionsOf!Provider
      BY <3>1, <3>2
    <3> QED BY <3>3 DEF CloudFunctionsOf!Provider, CloudFunctionsOf!Entry
  <2> HIDE DEF entry, map, name
  <2>3. /\ Len(map') = Len(map) + 1 /\ Len(map) \in Nat
        /\ DOMAIN map = 1 .. Len(map) /\ DOMAIN map' = 1 .. Len(map) + 1
        /\ map'[Len(map) + 1] = entry
        /\ \A k \in DOMAIN map : map'[k] = map[k]
    BY <1>2, <2>1, <2>2
  <2>4. /\ Len(map') <= Len(map) + 1
        /\ \A j, k \in DOMAIN map' : map'[j].name = map'[k].name => j = k
    BY <1>2, <1>3, <1>5, <2>3
  <2> QED BY <2>4 DEF map
<1> QED BY <1>4, <1>5

LEMMA FunctionsTyped ==
  ASSUME CloudFunctionsOf!NamesTyped
  PROVE  CloudFunctionsOf!Spec => []CloudFunctionsOf!TypeOK
<1>1. ASSUME FunctionsInv
      PROVE  /\ providers \in Seq(CloudFunctionsOf!Provider)
             /\ Len(providers) \in Nat /\ position \in Nat \ {0}
             /\ trigger_provider_map \in Seq(CloudFunctionsOf!Entry)
  <2>1. PICK n \in Nat : providers \in [1 .. n -> CloudFunctionsOf!Provider]
    BY <1>1 DEF FunctionsInv, TriggersInv
  <2> QED BY <1>1, <2>1 DEF FunctionsInv, TriggersInv
<1>2. CloudFunctionsOf!Init => CloudFunctionsOf!TypeOK
  <2> SUFFICES ASSUME CloudFunctionsOf!Init PROVE CloudFunctionsOf!TypeOK
    OBVIOUS
  <2>1. /\ providers \in Seq(CloudFunctionsOf!Provider) /\ Len(providers) \in Nat
    BY <1>1, InitFunctionsInv
  <2>2. /\ position = 1 /\ Len(trigger_provider_map) = 0 /\ DOMAIN trigger_provider_map = {}
        /\ fun_left = Function /\ DOMAIN fun_collected = {} /\ fun_errors = {}
    BY DEF CloudFunctionsOf!Init
  <2> QED BY <2>1, <2>2 DEF CloudFunctionsOf!TypeOK
<1>3. FunctionsInv /\ FunctionsInv' /\ CloudFunctionsOf!TypeOK
        /\ [CloudFunctionsOf!Next]_(CloudFunctionsOf!vars) => CloudFunctionsOf!TypeOK'
  <2> SUFFICES ASSUME FunctionsInv, FunctionsInv', CloudFunctionsOf!TypeOK,
                      [CloudFunctionsOf!Next]_(CloudFunctionsOf!vars)
               PROVE  CloudFunctionsOf!TypeOK'
    OBVIOUS
  <2>1. CASE CloudFunctionsOf!_create_trigger_provider_map
    <3>1. /\ position <= Len(providers) /\ position' = position + 1
          /\ UNCHANGED <<providers, functions, fun_left, fun_collected, fun_errors>>
      BY <2>1 DEF CloudFunctionsOf!_create_trigger_provider_map
    <3>2. Len(trigger_provider_map) \in Nat /\ Len(trigger_provider_map') \in Nat
      <4>1. trigger_provider_map' \in Seq(CloudFunctionsOf!Entry)
        BY DEF FunctionsInv, TriggersInv
      <4> QED BY <1>1, <4>1
    <3>3. position' \in 1 .. Len(providers) + 1 /\ Len(trigger_provider_map') < position'
      BY <1>1, <2>1, <3>1, <3>2, AssignedTyped DEF CloudFunctionsOf!TypeOK
    <3> QED BY <2>1, <3>1, <3>3, AssignedTyped DEF CloudFunctionsOf!TypeOK
  <2>2. ASSUME NEW f \in Function, CloudFunctionsOf!BuildFunction(f)
        PROVE  CloudFunctionsOf!TypeOK'
    <3>1. /\ f \in fun_left /\ fun_left' = fun_left \ {f}
          /\ DOMAIN fun_collected' = DOMAIN fun_collected \cup {f}
          /\ UNCHANGED <<providers, position, trigger_provider_map, functions, fun_errors>>
      BY <2>2 DEF CloudFunctionsOf!BuildFunction
    <3> QED BY <2>2, <3>1 DEF CloudFunctionsOf!TypeOK
  <2>3. ASSUME NEW f \in Function, CloudFunctionsOf!FailFunction(f)
        PROVE  CloudFunctionsOf!TypeOK'
    BY <2>3 DEF CloudFunctionsOf!FailFunction, CloudFunctionsOf!TypeOK
  <2>4. CASE UNCHANGED CloudFunctionsOf!vars
    BY <2>4 DEF CloudFunctionsOf!vars, CloudFunctionsOf!TypeOK
  <2> QED BY <2>1, <2>2, <2>3, <2>4 DEF CloudFunctionsOf!Next
<1>4. CloudFunctionsOf!Spec => []FunctionsInv
  BY FunctionsInvariance
<1> QED BY <1>2, <1>3, <1>4, PTL DEF CloudFunctionsOf!Spec
-----------------------------------------------------------------------------
\* Recommendations.

Steps == {"waiting", "checking", "updating", "appending", "counting",
          "reporting", "returned", "raised"}

\* A request that merges has something to merge, one that reports something to
\* report.
AdviceTypes ==
  /\ at \in [Request -> Steps]
  /\ DOMAIN todo = Request /\ DOMAIN received = Request
  /\ \A r \in Request :
       todo[r] \subseteq received[r] /\ received[r] \subseteq Advice!Listed(r)
  /\ merged \in [Request -> Seq(Advice!Recommender)]
  /\ recommender_map \in [Advice!Recommender -> Seq(Recommendation)]
  /\ primary_priority_level
       \in [Advice!Recommender -> {"none"} \cup Advice!Range(Advice!Levels)]
  /\ \A r \in Request : at[r] \in {"updating", "appending"} => todo[r] # {}
  /\ \A r \in Request : at[r] = "reporting" => merged[r] # <<>>

\* What is in the map is of its recommender, and its request has received it.
\* What is merged is a recommender that something was received of, with an entry
\* in the map.
MapInv ==
  /\ \A id \in Advice!Recommender : \A i \in Advice!Range(recommender_map[id]) :
       /\ RecommenderOf[i] = id
       /\ \E s \in received[RequestOf[i]] : s.recommendation = i
  /\ \A r \in Request : \A id \in Advice!Range(merged[r]) :
       /\ recommender_map[id] # <<>>
       /\ \E s \in received[r] : RecommenderOf[s.recommendation] = id
  /\ \A r \in Request : at[r] = "waiting" => received[r] = {}

AdviceInv == AdviceTypes /\ MapInv

LEMMA TurnExists ==
  ASSUME Advice!WellTyped, NEW r \in Request, todo[r] \subseteq Advice!Listed(r),
         todo[r] # {}
  PROVE  Advice!Turn(r) \in todo[r]
<1> DEFINE S == todo[r]
<1>1. ASSUME NEW s \in S
      PROVE  s.parent[1] \in Nat /\ s.parent[2] \in Nat /\ s.parent[3] \in Nat
  <2>1. s.parent \in Advice!_create_recommendation_parents(Assets[r])
    BY DEF Advice!Listed
  <2>2. PICK k \in DOMAIN Assets[r], j \in DOMAIN Recommenders, z \in DOMAIN Advice!ZoneOrder :
          s.parent = <<k, j, z>>
    BY <2>1 DEF Advice!_create_recommendation_parents, Advice!_select_available_locations,
                Advice!_create_target_locations
  <2>3. k \in Nat /\ j \in Nat /\ z \in Nat
    BY DEF Advice!WellTyped, Advice!ZoneOrder
  <2> QED BY <2>2, <2>3
<1>2. PICK a \in S : \A s \in S : a.parent[1] <= s.parent[1]
  <2> DEFINE N == {s.parent[1] : s \in S}
  <2>1. N \in SUBSET Nat /\ N # {}
    BY <1>1
  <2>2. PICK n \in N : \A m \in N : n <= m
    BY <2>1, LeastOf
  <2> QED BY <2>2
<1> DEFINE S2 == {s \in S : s.parent[1] = a.parent[1]}
<1>3. PICK b \in S2 : \A s \in S2 : b.parent[2] <= s.parent[2]
  <2> DEFINE N == {s.parent[2] : s \in S2}
  <2>1. N \in SUBSET Nat /\ N # {}
    BY <1>1
  <2>2. PICK n \in N : \A m \in N : n <= m
    BY <2>1, LeastOf
  <2> QED BY <2>2
<1> DEFINE S3 == {s \in S2 : s.parent[2] = b.parent[2]}
<1>4. PICK c \in S3 : \A s \in S3 : c.parent[3] <= s.parent[3]
  <2> DEFINE N == {s.parent[3] : s \in S3}
  <2>1. N \in SUBSET Nat /\ N # {}
    BY <1>1
  <2>2. PICK n \in N : \A m \in N : n <= m
    BY <2>1, LeastOf
  <2> QED BY <2>2
<1>5. ASSUME NEW t \in S PROVE ~Advice!Before(t.parent, c.parent)
  <2>1. /\ c.parent[1] = a.parent[1] /\ c.parent[2] = b.parent[2]
        /\ a.parent[1] <= t.parent[1]
        /\ t.parent[1] = a.parent[1] => b.parent[2] <= t.parent[2]
        /\ t.parent[1] = a.parent[1] /\ t.parent[2] = b.parent[2]
             => c.parent[3] <= t.parent[3]
    BY <1>2, <1>3, <1>4
  <2>2. /\ t.parent[1] \in Nat /\ t.parent[2] \in Nat /\ t.parent[3] \in Nat
        /\ c.parent[1] \in Nat /\ c.parent[2] \in Nat /\ c.parent[3] \in Nat
    BY <1>1
  <2> QED BY <2>1, <2>2 DEF Advice!Before
<1>6. \E s \in todo[r] : \A t \in todo[r] : ~Advice!Before(t.parent, s.parent)
  BY <1>5
<1> QED BY <1>6 DEF Advice!Turn

LEMMA IdOfTurn ==
  ASSUME Advice!WellTyped, AdviceTypes, NEW r \in Request, todo[r] # {}
  PROVE  /\ Advice!Turn(r) \in todo[r] /\ Advice!Turn(r) \in received[r]
         /\ Advice!Turn(r) \in Advice!Listed(r)
         /\ Advice!Turn(r).recommendation \in Recommendation
         /\ RequestOf[Advice!Turn(r).recommendation] = r
         /\ Advice!Id(r) = RecommenderOf[Advice!Turn(r).recommendation]
         /\ Advice!Id(r) \in Advice!Recommender
<1>1. /\ Advice!Turn(r) \in todo[r] /\ Advice!Turn(r) \in received[r]
      /\ Advice!Turn(r) \in Advice!Listed(r)
  BY TurnExists DEF AdviceTypes
<1>2. /\ Advice!Turn(r).recommendation \in Recommendation
      /\ RequestOf[Advice!Turn(r).recommendation] = r
  BY <1>1 DEF Advice!Listed, Advice!list_recommendations
<1> QED BY <1>1, <1>2 DEF Advice!Id, Advice!WellTyped

LEMMA InitAdviceInv == ASSUME Advice!Init PROVE AdviceInv /\ Advice!EndedBy
<1>1. /\ \A r \in Request : /\ at[r] = "waiting" /\ merged[r] = <<>>
                              /\ todo[r] = {} /\ received[r] = {}
      /\ \A id \in Advice!Recommender : recommender_map[id] = <<>>
  BY DEF Advice!Init
<1>2. Advice!Range(<<>>) = {}
  BY DEF Advice!Range
<1>3. MapInv
  BY <1>1, <1>2 DEF MapInv
<1>4. AdviceTypes
  BY <1>1 DEF Advice!Init, AdviceTypes, Steps
<1> QED BY <1>1, <1>3, <1>4 DEF AdviceInv, Advice!EndedBy

\* What EndedBy says of a request that was ended.
Cause(r) ==
  \/ \E asset \in Advice!Range(Assets[r]) : asset.collection = "nested"
  \/ \E s \in received[r] :
       \/ ~content[s.recommendation].readable
       \/ \E c \in Advice!ReceivedOf(RecommenderOf[s.recommendation]) :
            c.priority \notin {"P1", "P2", "P3", "P4"}
       \/ \E c, d \in Advice!ReceivedOf(RecommenderOf[s.recommendation]) :
            c.category = "COST" /\ ~d.cost

LEMMA EndedHasCause ==
  Advice!EndedBy <=> \A r \in Request : at[r] = "raised" => Cause(r)
BY Zenon DEF Advice!EndedBy, Cause

\* More is received, and nothing that was is forgotten.
LEMMA CauseStays ==
  ASSUME UNCHANGED content, \A q \in Request : received[q] \subseteq received'[q],
         NEW r \in Request, Cause(r)
  PROVE  Cause(r)'
<1>1. ASSUME NEW id, NEW c \in Advice!ReceivedOf(id) PROVE c \in Advice!ReceivedOf(id)'
  BY <1>1 DEF Advice!ReceivedOf
<1>2. CASE \E asset \in Advice!Range(Assets[r]) : asset.collection = "nested"
  BY <1>2 DEF Cause
<1>3. ASSUME NEW s \in received[r],
             \/ ~content[s.recommendation].readable
             \/ \E c \in Advice!ReceivedOf(RecommenderOf[s.recommendation]) :
                  c.priority \notin {"P1", "P2", "P3", "P4"}
             \/ \E c, d \in Advice!ReceivedOf(RecommenderOf[s.recommendation]) :
                  c.category = "COST" /\ ~d.cost
      PROVE  Cause(r)'
  <2>1. s \in received'[r]
    BY <1>3
  <2>2. CASE ~content[s.recommendation].readable
    BY <2>1, <2>2 DEF Cause
  <2>3. CASE \E c \in Advice!ReceivedOf(RecommenderOf[s.recommendation]) :
               c.priority \notin {"P1", "P2", "P3", "P4"}
    BY <1>1, <2>1, <2>3, Zenon DEF Cause
  <2>4. CASE \E c, d \in Advice!ReceivedOf(RecommenderOf[s.recommendation]) :
               c.category = "COST" /\ ~d.cost
    BY <1>1, <2>1, <2>4, Zenon DEF Cause
  <2> QED BY <1>3, <2>2, <2>3, <2>4
<1> QED BY <1>2, <1>3 DEF Cause

\* Only the step of one request changes.
LEMMA EndedStays ==
  ASSUME AdviceTypes, Advice!EndedBy, NEW r \in Request, NEW step \in Steps \ {"waiting"},
         at' = [at EXCEPT ![r] = step], UNCHANGED content,
         \A q \in Request : received[q] \subseteq received'[q],
         step = "raised" => Cause(r)'
  PROVE  Advice!EndedBy'
<1>1. \A q \in Request : at'[q] = IF q = r THEN step ELSE at[q]
  BY DEF AdviceTypes
<1>2. \A q \in Request \ {r} : at'[q] = "raised" => Cause(q)'
  BY <1>1, CauseStays, EndedHasCause
<1>3. \A q \in Request : at'[q] = "raised" => Cause(q)'
  BY <1>1, <1>2
<1> QED BY <1>3, Zenon DEF Advice!EndedBy, Cause

LEMMA RangeOfAppend ==
  ASSUME NEW S, NEW l \in Seq(S), NEW x \in S
  PROVE  /\ Append(l, x) \in Seq(S) /\ Append(l, x) # <<>>
         /\ Advice!Range(Append(l, x)) = Advice!Range(l) \cup {x}
<1>1. /\ Len(l) \in Nat /\ DOMAIN l = 1 .. Len(l)
      /\ DOMAIN Append(l, x) = 1 .. Len(l) + 1 /\ Append(l, x)[Len(l) + 1] = x
      /\ \A k \in DOMAIN l : Append(l, x)[k] = l[k]
  OBVIOUS
<1>2. Append(l, x) \in Seq(S) /\ Len(Append(l, x)) = Len(l) + 1
  OBVIOUS
<1>3. Append(l, x) # <<>>
  BY <1>1, <1>2
<1> QED BY <1>1, <1>2, <1>3 DEF Advice!Range

LEMMA ListedStays == \A r \in Request : Advice!Listed(r)' = Advice!Listed(r)
BY DEF Advice!Listed, Advice!_create_recommendation_parents, Advice!list_recommendations,
       Advice!_select_available_locations, Advice!_create_target_locations

\* A step that leaves the map and forgets nothing that was received.
LEMMA MapStays ==
  ASSUME Advice!WellTyped, AdviceInv, NEW r \in Request, NEW step \in Steps \ {"waiting"},
         at' = [at EXCEPT ![r] = step], UNCHANGED recommender_map,
         \A q \in Request : Advice!Range(merged'[q]) \subseteq Advice!Range(merged[q]),
         \A q \in Request \ {r} : received'[q] = received[q],
         received[r] \subseteq received'[r]
  PROVE  MapInv'
<1>1. \A q \in Request : at'[q] = IF q = r THEN step ELSE at[q]
  BY DEF AdviceInv, AdviceTypes
<1>2. \A id \in Advice!Recommender : \A i \in Advice!Range(recommender_map[id]) :
        /\ RecommenderOf[i] = id
        /\ \E s \in received'[RequestOf[i]] : s.recommendation = i
  <2> SUFFICES ASSUME NEW id \in Advice!Recommender, NEW i \in Advice!Range(recommender_map[id])
               PROVE  /\ RecommenderOf[i] = id
                      /\ \E s \in received'[RequestOf[i]] : s.recommendation = i
    OBVIOUS
  <2>1. /\ RecommenderOf[i] = id
        /\ \E s \in received[RequestOf[i]] : s.recommendation = i
    BY DEF AdviceInv, MapInv
  <2>2. i \in Recommendation
    <3>1. recommender_map[id] \in Seq(Recommendation)
      BY DEF AdviceInv, AdviceTypes
    <3> QED BY <3>1 DEF Advice!Range
  <2>3. RequestOf[i] \in Request
    BY <2>2 DEF Advice!WellTyped
  <2>4. received[RequestOf[i]] \subseteq received'[RequestOf[i]]
    BY <2>3
  <2> QED BY <2>1, <2>4
<1>3. \A q \in Request : \A id \in Advice!Range(merged'[q]) :
       /\ recommender_map[id] # <<>>
       /\ \E s \in received'[q] : RecommenderOf[s.recommendation] = id
  <2> SUFFICES ASSUME NEW q \in Request, NEW id \in Advice!Range(merged'[q])
               PROVE  /\ recommender_map[id] # <<>>
                      /\ \E s \in received'[q] : RecommenderOf[s.recommendation] = id
    OBVIOUS
  <2>1. /\ recommender_map[id] # <<>>
        /\ \E s \in received[q] : RecommenderOf[s.recommendation] = id
    BY DEF AdviceInv, MapInv
  <2>2. received[q] \subseteq received'[q]
    OBVIOUS
  <2> QED BY <2>1, <2>2
<1>4. \A q \in Request : at'[q] = "waiting" => received'[q] = {}
  BY <1>1 DEF AdviceInv, MapInv
<1> QED BY <1>2, <1>3, <1>4 DEF MapInv

LEMMA NestedKeeps ==
  ASSUME Advice!WellTyped, AdviceInv, Advice!EndedBy, NEW r \in Request,
         Advice!StartNested(r)
  PROVE  AdviceInv' /\ Advice!EndedBy'
<1>1. /\ at' = [at EXCEPT ![r] = "raised"] /\ "raised" \in Steps \ {"waiting"}
      /\ UNCHANGED <<content, received, todo, merged, recommender_map,
                     primary_priority_level>>
  BY DEF Advice!StartNested, Steps
<1>2. Cause(r)'
  BY DEF Advice!StartNested, Advice!Nested, Cause
<1>3. MapInv'
  BY <1>1, MapStays
<1>4. Advice!EndedBy'
  BY <1>1, <1>2, EndedStays DEF AdviceInv
<1>5. AdviceTypes'
  BY <1>1, ListedStays DEF AdviceInv, AdviceTypes
<1> QED BY <1>3, <1>4, <1>5 DEF AdviceInv

LEMMA StartKeeps ==
  ASSUME Advice!WellTyped, AdviceInv, Advice!EndedBy, NEW r \in Request, Advice!Start(r)
  PROVE  AdviceInv' /\ Advice!EndedBy'
<1>1. PICK pages \in SUBSET Advice!Listed(r) :
        /\ received' = [received EXCEPT ![r] = pages]
        /\ todo' = [todo EXCEPT ![r] = pages]
        /\ at' = [at EXCEPT ![r] = IF \A s \in pages : Advice!Reads(s.recommendation)
                                   THEN "checking" ELSE "raised"]
  BY DEF Advice!Start
<1> DEFINE step == IF \A s \in pages : Advice!Reads(s.recommendation)
                   THEN "checking" ELSE "raised"
<1>2. /\ UNCHANGED <<content, merged, recommender_map, primary_priority_level>>
      /\ step \in Steps \ {"waiting"} /\ at[r] = "waiting"
  BY DEF Advice!Start, Steps
<1>3. /\ \A q \in Request : at'[q] = IF q = r THEN step ELSE at[q]
      /\ \A q \in Request : todo'[q] = IF q = r THEN pages ELSE todo[q]
      /\ \A q \in Request : received'[q] = IF q = r THEN pages ELSE received[q]
      /\ at' \in [Request -> Steps] /\ DOMAIN todo' = Request /\ DOMAIN received' = Request
  BY <1>1, <1>2 DEF AdviceInv, AdviceTypes
<1>4. \A q \in Request : received[q] \subseteq received'[q]
  BY <1>2, <1>3 DEF AdviceInv, MapInv
<1>5. ASSUME step = "raised" PROVE Cause(r)'
  <2>1. PICK s \in pages : ~Advice!Reads(s.recommendation)
    BY <1>5
  <2>2. s \in received'[r] /\ ~content'[s.recommendation].readable
    BY <1>2, <1>3, <2>1 DEF Advice!Reads
  <2> QED BY <2>2 DEF Cause
<1>6. step \notin {"updating", "appending", "reporting"}
  OBVIOUS
<1>7. at' = [at EXCEPT ![r] = step]
  BY <1>1
<1> HIDE DEF step
<1>8. MapInv'
  BY <1>2, <1>3, <1>4, <1>7, MapStays
<1>9. Advice!EndedBy'
  BY <1>2, <1>4, <1>5, <1>7, EndedStays DEF AdviceInv
<1>10. AdviceTypes'
  <2>1. /\ \A q \in Request : at'[q] \in {"updating", "appending"} => todo'[q] # {}
        /\ \A q \in Request : at'[q] = "reporting" => merged'[q] # <<>>
    BY <1>2, <1>3, <1>6 DEF AdviceInv, AdviceTypes
  <2>2. \A q \in Request :
          todo'[q] \subseteq received'[q] /\ received'[q] \subseteq Advice!Listed(q)
    BY <1>3 DEF AdviceInv, AdviceTypes
  <2> QED BY <1>2, <1>3, <2>1, <2>2, ListedStays DEF AdviceInv, AdviceTypes
<1> QED BY <1>8, <1>9, <1>10 DEF AdviceInv

\* The steps that only decide what is done next.
LEMMA TurnsKeep ==
  ASSUME Advice!WellTyped, AdviceInv, Advice!EndedBy, NEW r \in Request,
         Advice!Check(r) \/ Advice!Merged(r) \/ Advice!Return(r)
  PROVE  AdviceInv' /\ Advice!EndedBy'
<1>1. UNCHANGED <<content, received, todo, merged, recommender_map, primary_priority_level>>
  BY DEF Advice!Check, Advice!Merged, Advice!Return
<1>2. PICK step \in Steps \ {"waiting", "raised", "reporting"} :
        /\ at' = [at EXCEPT ![r] = step]
        /\ step \in {"updating", "appending"} => todo[r] # {}
  BY DEF Advice!Check, Advice!Merged, Advice!Return, Steps
<1>3. MapInv'
  BY <1>1, <1>2, MapStays
<1>5. Advice!EndedBy'
  BY <1>1, <1>2, EndedStays DEF AdviceInv
<1>4. AdviceTypes'
  <2>1. /\ \A q \in Request : at'[q] = IF q = r THEN step ELSE at[q]
        /\ at' \in [Request -> Steps]
    BY <1>2 DEF AdviceInv, AdviceTypes
  <2> QED BY <1>1, <1>2, <2>1, ListedStays DEF AdviceInv, AdviceTypes
<1> QED BY <1>3, <1>4, <1>5 DEF AdviceInv

\* What a request merges is of the recommender it is merged into.
LEMMA MergesKeep ==
  ASSUME Advice!WellTyped, AdviceInv, Advice!EndedBy, NEW r \in Request,
         Advice!Update(r) \/ Advice!AppendAll(r)
  PROVE  AdviceInv' /\ Advice!EndedBy'
<1> DEFINE id == Advice!Id(r)
           i == Advice!Turn(r).recommendation
<1>1. PICK entries : /\ entries \in {<<i>>, Append(recommender_map[id], i)}
                     /\ Advice!Merge(r, entries) /\ at[r] \in {"updating", "appending"}
  BY DEF Advice!Update, Advice!AppendAll
<1>2. /\ Advice!Turn(r) \in todo[r] /\ Advice!Turn(r) \in received[r]
      /\ i \in Recommendation /\ RequestOf[i] = r /\ id = RecommenderOf[i]
      /\ id \in Advice!Recommender
  BY <1>1, IdOfTurn DEF AdviceInv, AdviceTypes
<1>3. /\ recommender_map' = [recommender_map EXCEPT ![id] = entries]
      /\ merged' = [merged EXCEPT ![r] = Append(@, id)]
      /\ todo' = [todo EXCEPT ![r] = @ \ {Advice!Turn(r)}]
      /\ at' = [at EXCEPT ![r] = "checking"]
      /\ UNCHANGED <<content, received, primary_priority_level>>
  BY <1>1 DEF Advice!Merge
<1>4. /\ entries \in Seq(Recommendation) /\ entries # <<>>
      /\ Advice!Range(entries) \subseteq Advice!Range(recommender_map[id]) \cup {i}
  <2>1. recommender_map[id] \in Seq(Recommendation)
    BY <1>2 DEF AdviceInv, AdviceTypes
  <2>2. CASE entries = <<i>>
    BY <1>2, <2>2 DEF Advice!Range
  <2>3. CASE entries = Append(recommender_map[id], i)
    BY <1>2, <2>1, <2>3, RangeOfAppend
  <2> QED BY <1>1, <2>2, <2>3
<1>5. merged[r] \in Seq(Advice!Recommender)
  BY DEF AdviceInv, AdviceTypes
<1>6. /\ Append(merged[r], id) \in Seq(Advice!Recommender)
      /\ Advice!Range(Append(merged[r], id)) = Advice!Range(merged[r]) \cup {id}
  BY <1>2, <1>5, RangeOfAppend
<1> HIDE DEF i, id
<1>7. /\ \A q \in Request : at'[q] = IF q = r THEN "checking" ELSE at[q]
      /\ \A q \in Request : todo'[q] = IF q = r THEN todo[r] \ {Advice!Turn(r)} ELSE todo[q]
      /\ \A q \in Request : merged'[q] = IF q = r THEN Append(merged[r], id) ELSE merged[q]
      /\ \A x \in Advice!Recommender :
           recommender_map'[x] = IF x = id THEN entries ELSE recommender_map[x]
      /\ DOMAIN todo' = Request
  BY <1>2, <1>3 DEF AdviceInv, AdviceTypes
<1>8. AdviceTypes'
  <2>1. at' \in [Request -> Steps]
    BY <1>3 DEF AdviceInv, AdviceTypes, Steps
  <2>2. merged' \in [Request -> Seq(Advice!Recommender)]
    BY <1>3, <1>6 DEF AdviceInv, AdviceTypes
  <2>3. recommender_map' \in [Advice!Recommender -> Seq(Recommendation)]
    BY <1>2, <1>3, <1>4 DEF AdviceInv, AdviceTypes
  <2>4. \A q \in Request :
          todo'[q] \subseteq received[q] /\ received[q] \subseteq Advice!Listed(q)
    BY <1>7 DEF AdviceInv, AdviceTypes
  <2>5. /\ \A q \in Request : at'[q] \in {"updating", "appending"} => todo'[q] # {}
        /\ \A q \in Request : at'[q] = "reporting" => merged'[q] # <<>>
    BY <1>7 DEF AdviceInv, AdviceTypes
  <2> QED BY <1>3, <1>7, <2>1, <2>2, <2>3, <2>4, <2>5, ListedStays DEF AdviceInv, AdviceTypes
<1>9. MapInv'
  <2>1. ASSUME NEW x \in Advice!Recommender, NEW j \in Advice!Range(recommender_map'[x])
        PROVE  /\ RecommenderOf[j] = x
               /\ \E s \in received[RequestOf[j]] : s.recommendation = j
    <3>1. j \in Advice!Range(recommender_map[x]) \/ (x = id /\ j = i)
      BY <1>4, <1>7, <2>1
    <3>2. CASE x = id /\ j = i
      BY <1>2, <3>2 DEF i
    <3>3. CASE j \in Advice!Range(recommender_map[x])
      BY <3>3 DEF AdviceInv, MapInv
    <3> QED BY <3>1, <3>2, <3>3
  <2>2. ASSUME NEW q \in Request, NEW x \in Advice!Range(merged'[q])
        PROVE  /\ recommender_map'[x] # <<>>
               /\ \E s \in received[q] : RecommenderOf[s.recommendation] = x
    <3>1. x \in Advice!Range(merged[q]) \/ (q = r /\ x = id)
      BY <1>6, <1>7, <2>2
    <3>2. CASE q = r /\ x = id
      BY <1>2, <1>4, <1>7, <3>2 DEF i
    <3>3. CASE x \in Advice!Range(merged[q])
      <4>1. /\ recommender_map[x] # <<>>
            /\ \E s \in received[q] : RecommenderOf[s.recommendation] = x
        BY <3>3 DEF AdviceInv, MapInv
      <4>2. x \in Advice!Recommender
        <5>1. merged[q] \in Seq(Advice!Recommender)
          BY DEF AdviceInv, AdviceTypes
        <5> QED BY <3>3, <5>1 DEF Advice!Range
      <4> QED BY <1>4, <1>7, <4>1, <4>2
    <3> QED BY <3>1, <3>2, <3>3
  <2>3. \A q \in Request : at'[q] = "waiting" => received[q] = {}
    BY <1>7 DEF AdviceInv, MapInv
  <2> QED BY <1>3, <2>1, <2>2, <2>3 DEF MapInv
<1>10. Advice!EndedBy'
  BY <1>3, EndedStays DEF AdviceInv, Steps
<1> QED BY <1>8, <1>9, <1>10 DEF AdviceInv

LEMMA DomainOfSeq ==
  ASSUME NEW S, NEW l \in Seq(S)
  PROVE  DOMAIN l = 1 .. Len(l) /\ Len(l) \in Nat
OBVIOUS

LEMMA FourLevels ==
  /\ DOMAIN Advice!Levels = 1 .. 4
  /\ Advice!Levels[1] = "Highest" /\ Advice!Levels[2] = "Second Highest"
  /\ Advice!Levels[3] = "Second Lowest" /\ Advice!Levels[4] = "Lowest"
  /\ Advice!Range(Advice!Levels) = {"Highest", "Second Highest", "Second Lowest", "Lowest"}
<1>1. Len(Advice!Levels) = 4
  BY DEF Advice!Levels
<1>2. DOMAIN Advice!Levels = 1 .. 4
  <2>1. Advice!Levels \in Seq({"Highest", "Second Highest", "Second Lowest", "Lowest"})
    BY DEF Advice!Levels
  <2>2. DOMAIN Advice!Levels = 1 .. Len(Advice!Levels)
    BY <2>1, DomainOfSeq, Zenon
  <2> QED BY <1>1, <2>2, Zenon
<1>3. /\ Advice!Levels[1] = "Highest" /\ Advice!Levels[2] = "Second Highest"
      /\ Advice!Levels[3] = "Second Lowest" /\ Advice!Levels[4] = "Lowest"
  BY DEF Advice!Levels
<1>4. 1 .. 4 = {1, 2, 3, 4}
  OBVIOUS
<1>5. Advice!Range(Advice!Levels) = {"Highest", "Second Highest", "Second Lowest", "Lowest"}
  BY <1>2, <1>3, <1>4 DEF Advice!Range
<1> QED BY <1>2, <1>3, <1>5

\* The level of a report is one of the four: there is something to report on.
LEMMA LevelOfReport ==
  ASSUME NEW recommendations \in Seq(Recommendation), recommendations # <<>>,
         Advice!LevelsOf(recommendations) \subseteq Advice!Range(Advice!Levels)
  PROVE  \E n \in DOMAIN Advice!Levels :
           /\ Advice!_get_state_and_priority(recommendations) = Advice!Levels[n]
           /\ Advice!Levels[n] \in Advice!LevelsOf(recommendations)
           /\ \A m \in DOMAIN Advice!Levels :
                Advice!Levels[m] \in Advice!LevelsOf(recommendations) => n <= m
<1> DEFINE N == {n \in DOMAIN Advice!Levels : Advice!Levels[n] \in Advice!LevelsOf(recommendations)}
<1>1. DOMAIN Advice!Levels = 1 .. 4
  BY FourLevels
<1>2. N # {}
  <2>1. 1 \in DOMAIN recommendations
    <3>1. Len(recommendations) \in Nat /\ DOMAIN recommendations = 1 .. Len(recommendations)
          /\ Len(recommendations) # 0
      OBVIOUS
    <3> QED BY <3>1
  <2>2. \E level : level \in Advice!LevelsOf(recommendations)
    BY <2>1 DEF Advice!LevelsOf, Advice!Range
  <2> QED BY <2>2 DEF Advice!Range
<1>3. \E k \in N : \A m \in N : k <= m
  <2>1. N \in SUBSET Nat
    BY <1>1
  <2> QED BY <1>2, <2>1, LeastOf
<1> HIDE DEF N
<1>4. Advice!Min(N) \in N /\ \A m \in N : Advice!Min(N) <= m
  BY <1>3 DEF Advice!Min
<1>5. Advice!_get_state_and_priority(recommendations) = Advice!Levels[Advice!Min(N)]
  BY DEF Advice!_get_state_and_priority, N
<1> QED BY <1>4, <1>5 DEF N

\* The first of a list and the others.
LEMMA HeadAndTail ==
  ASSUME NEW S, NEW l \in Seq(S), l # <<>>
  PROVE  /\ Head(l) \in S /\ Head(l) \in Advice!Range(l) /\ Tail(l) \in Seq(S)
         /\ Advice!Range(l) = {Head(l)} \cup Advice!Range(Tail(l))
<1>1. Len(l) \in Nat /\ Len(l) # 0 /\ DOMAIN l = 1 .. Len(l)
  OBVIOUS
<1>2. /\ Tail(l) \in Seq(S) /\ DOMAIN Tail(l) = 1 .. Len(l) - 1 /\ Head(l) = l[1]
      /\ \A k \in 1 .. Len(l) - 1 : Tail(l)[k] = l[k + 1]
  BY <1>1
<1>3. Head(l) \in Advice!Range(l) /\ Head(l) \in S
  BY <1>1, <1>2 DEF Advice!Range
<1>4. ASSUME NEW x \in Advice!Range(l), x # Head(l) PROVE x \in Advice!Range(Tail(l))
  <2>1. PICK k \in DOMAIN l : l[k] = x
    BY DEF Advice!Range
  <2>2. k - 1 \in 1 .. Len(l) - 1 /\ k = (k - 1) + 1
    BY <1>1, <1>2, <1>4, <2>1
  <2>3. Tail(l)[k - 1] = x
    BY <1>2, <2>1, <2>2
  <2> QED BY <1>2, <2>2, <2>3 DEF Advice!Range
<1>5. ASSUME NEW x \in Advice!Range(Tail(l)) PROVE x \in Advice!Range(l)
  <2>1. PICK k \in 1 .. Len(l) - 1 : Tail(l)[k] = x
    BY <1>2 DEF Advice!Range
  <2>2. k + 1 \in DOMAIN l /\ l[k + 1] = x
    BY <1>1, <1>2, <2>1
  <2> QED BY <2>2 DEF Advice!Range
<1> QED BY <1>2, <1>3, <1>4, <1>5

\* What is in the map is what some request received.
LEMMA MapReceived ==
  ASSUME Advice!WellTyped, AdviceInv, NEW id \in Advice!Recommender,
         NEW i \in Advice!Range(recommender_map[id])
  PROVE  content[i] \in Advice!ReceivedOf(id)
<1>1. i \in Recommendation
  <2>1. recommender_map[id] \in Seq(Recommendation)
    BY DEF AdviceInv, AdviceTypes
  <2> QED BY <2>1 DEF Advice!Range
<1>2. RequestOf[i] \in Request
  BY <1>1 DEF Advice!WellTyped
<1>3. RecommenderOf[i] = id /\ \E s \in received[RequestOf[i]] : s.recommendation = i
  BY DEF AdviceInv, MapInv
<1> QED BY <1>1, <1>2, <1>3 DEF Advice!ReceivedOf

\* One recommendation of the map whose level is not one of the four raises, and
\* one without a cost where costs are added.
LEMMA UncountedHasCause ==
  ASSUME Advice!WellTyped, AdviceInv, NEW r \in Request, NEW id \in Advice!Range(merged[r]),
         id \in Advice!Recommender,
         ~(Advice!CostsAdd(recommender_map[id]) /\ Advice!LevelsCount(recommender_map[id]))
  PROVE  Cause(r)
<1> DEFINE said == Advice!ReceivedOf(id)
<1>1. /\ recommender_map[id] \in Seq(Recommendation) /\ recommender_map[id] # <<>>
      /\ \E s \in received[r] : RecommenderOf[s.recommendation] = id
  BY DEF AdviceInv, AdviceTypes, MapInv
<1>2. \A i \in Advice!Range(recommender_map[id]) : content[i] \in said
  BY MapReceived
<1> HIDE DEF said
<1>3. CASE ~Advice!LevelsCount(recommender_map[id])
  <2>1. PICK i \in Advice!Range(recommender_map[id]) :
          Advice!convert_readable_priority(content[i].priority)
            \notin Advice!Range(Advice!Levels)
    BY <1>3 DEF Advice!LevelsCount, Advice!LevelsOf
  <2>2. content[i].priority \notin {"P1", "P2", "P3", "P4"}
    BY <2>1, FourLevels DEF Advice!convert_readable_priority
  <2>3. \E c \in said : c.priority \notin {"P1", "P2", "P3", "P4"}
    BY <1>2, <2>2
  <2> QED BY <1>1, <2>3 DEF Cause, said
<1>4. CASE ~Advice!CostsAdd(recommender_map[id])
  <2>1. PICK i \in Advice!Range(recommender_map[id]) : ~content[i].cost
    BY <1>4 DEF Advice!CostsAdd
  <2>2. content[Head(recommender_map[id])].category = "COST"
    BY <1>4 DEF Advice!CostsAdd
  <2>3. Head(recommender_map[id]) \in Advice!Range(recommender_map[id])
    BY <1>1, HeadAndTail
  <2>4. \E c, d \in said : c.category = "COST" /\ ~d.cost
    BY <1>2, <2>1, <2>2, <2>3, Zenon
  <2> QED BY <1>1, <2>4 DEF Cause, said
<1> QED BY <1>3, <1>4

LEMMA CountKeeps ==
  ASSUME Advice!WellTyped, AdviceInv, Advice!EndedBy, NEW r \in Request, Advice!Count(r)
  PROVE  AdviceInv' /\ Advice!EndedBy'
<1> DEFINE id == Head(merged[r])
           counted == /\ Advice!CostsAdd(recommender_map[id])
                      /\ Advice!LevelsCount(recommender_map[id])
           step == IF counted THEN "reporting" ELSE "raised"
<1>1. /\ at' = [at EXCEPT ![r] = step] /\ merged[r] # <<>>
      /\ primary_priority_level' =
           IF counted
           THEN [primary_priority_level EXCEPT
                   ![id] = Advice!_get_state_and_priority(recommender_map[id])]
           ELSE primary_priority_level
      /\ UNCHANGED <<content, received, todo, merged, recommender_map>>
      /\ step \in Steps \ {"waiting"}
  BY DEF Advice!Count, Steps
<1>2. id \in Advice!Recommender /\ id \in Advice!Range(merged[r])
  <2>1. merged[r] \in Seq(Advice!Recommender)
    BY DEF AdviceInv, AdviceTypes
  <2> QED BY <1>1, <2>1, HeadAndTail
<1>3. recommender_map[id] \in Seq(Recommendation) /\ recommender_map[id] # <<>>
  BY <1>2 DEF AdviceInv, AdviceTypes, MapInv
<1> HIDE DEF id
<1>4. MapInv'
  BY <1>1, MapStays
<1>5. \A q \in Request : at'[q] = IF q = r THEN step ELSE at[q]
  BY <1>1 DEF AdviceInv, AdviceTypes
<1>6. ASSUME ~counted PROVE Cause(r)'
  <2>1. Cause(r)
    BY <1>2, <1>6, UncountedHasCause
  <2> QED BY <1>1, <2>1, CauseStays
<1>7. step = "raised" => ~counted
  BY Zenon
<1> HIDE DEF step
<1>8. Advice!EndedBy'
  <2> HIDE DEF counted
  <2> QED BY <1>1, <1>6, <1>7, EndedStays DEF AdviceInv
<1>9. AdviceTypes'
  <2>1. primary_priority_level'
          \in [Advice!Recommender -> {"none"} \cup Advice!Range(Advice!Levels)]
    <3>1. CASE counted
      <4>1. Advice!_get_state_and_priority(recommender_map[id]) \in Advice!Range(Advice!Levels)
        BY <1>3, <3>1, LevelOfReport DEF Advice!Range, Advice!LevelsCount
      <4>2. primary_priority_level' = [primary_priority_level EXCEPT
               ![id] = Advice!_get_state_and_priority(recommender_map[id])]
        BY <1>1, <3>1
      <4> QED BY <4>1, <4>2 DEF AdviceInv, AdviceTypes
    <3>2. CASE ~counted
      BY <1>1, <3>2 DEF AdviceInv, AdviceTypes
    <3> QED BY <3>1, <3>2
  <2>2. at' \in [Request -> Steps]
    BY <1>1 DEF AdviceInv, AdviceTypes
  <2>3. step \notin {"updating", "appending"}
    BY Zenon DEF step
  <2> HIDE DEF counted
  <2>4. /\ \A q \in Request : at'[q] \in {"updating", "appending"} => todo'[q] # {}
        /\ \A q \in Request : at'[q] = "reporting" => merged'[q] # <<>>
    BY <1>1, <1>5, <2>3 DEF AdviceInv, AdviceTypes
  <2> QED BY <1>1, <2>1, <2>2, <2>4, ListedStays DEF AdviceInv, AdviceTypes
<1> QED BY <1>4, <1>8, <1>9 DEF AdviceInv

LEMMA ReportKeepsAdvice ==
  ASSUME Advice!WellTyped, AdviceInv, Advice!EndedBy, NEW r \in Request, Advice!Report(r)
  PROVE  AdviceInv' /\ Advice!EndedBy'
<1>1. /\ at' = [at EXCEPT ![r] = "counting"] /\ at[r] = "reporting"
      /\ merged' = [merged EXCEPT ![r] = Tail(@)]
      /\ UNCHANGED <<content, received, todo, recommender_map, primary_priority_level>>
  BY DEF Advice!Report
<1>2. /\ Tail(merged[r]) \in Seq(Advice!Recommender)
      /\ Advice!Range(Tail(merged[r])) \subseteq Advice!Range(merged[r])
  <2>1. merged[r] \in Seq(Advice!Recommender) /\ merged[r] # <<>>
    BY <1>1 DEF AdviceInv, AdviceTypes
  <2>2. /\ Tail(merged[r]) \in Seq(Advice!Recommender)
        /\ \A k \in DOMAIN Tail(merged[r]) :
             k + 1 \in DOMAIN merged[r] /\ Tail(merged[r])[k] = merged[r][k + 1]
    BY <2>1
  <2> QED BY <2>2 DEF Advice!Range
<1>3. /\ \A q \in Request : at'[q] = IF q = r THEN "counting" ELSE at[q]
      /\ \A q \in Request : merged'[q] = IF q = r THEN Tail(merged[r]) ELSE merged[q]
  BY <1>1 DEF AdviceInv, AdviceTypes
<1>4. MapInv'
  <2>1. "counting" \in Steps \ {"waiting"}
    BY DEF Steps
  <2>2. \A q \in Request : Advice!Range(merged'[q]) \subseteq Advice!Range(merged[q])
    BY <1>2, <1>3
  <2> QED BY <1>1, <2>1, <2>2, MapStays
<1>6. Advice!EndedBy'
  <2>1. "counting" \in Steps \ {"waiting"}
    BY DEF Steps
  <2> QED BY <1>1, <2>1, EndedStays DEF AdviceInv
<1>5. AdviceTypes'
  <2>1. at' \in [Request -> Steps] /\ merged' \in [Request -> Seq(Advice!Recommender)]
    BY <1>1, <1>2 DEF AdviceInv, AdviceTypes, Steps
  <2>2. /\ \A q \in Request : at'[q] \in {"updating", "appending"} => todo'[q] # {}
        /\ \A q \in Request : at'[q] = "reporting" => merged'[q] # <<>>
    BY <1>1, <1>3 DEF AdviceInv, AdviceTypes
  <2> QED BY <1>1, <2>1, <2>2, ListedStays DEF AdviceInv, AdviceTypes
<1> QED BY <1>4, <1>5, <1>6 DEF AdviceInv

LEMMA AdviceInvariance ==
  ASSUME Advice!WellTyped
  PROVE  Advice!Spec => [](AdviceInv /\ Advice!EndedBy)
<1>1. AdviceInv /\ Advice!EndedBy /\ [Advice!Next]_(Advice!vars)
        => AdviceInv' /\ Advice!EndedBy'
  <2> SUFFICES ASSUME AdviceInv, Advice!EndedBy, [Advice!Next]_(Advice!vars)
               PROVE  AdviceInv' /\ Advice!EndedBy'
    OBVIOUS
  <2>1. CASE UNCHANGED Advice!vars
    <3>1. UNCHANGED <<content, received, at, todo, merged, recommender_map,
                      primary_priority_level>>
      BY <2>1 DEF Advice!vars
    <3>2. AdviceInv'
      BY <3>1, ListedStays DEF AdviceInv, AdviceTypes, MapInv
    <3>3. Advice!EndedBy'
      <4>1. \A r \in Request : at'[r] = "raised" => Cause(r)'
        BY <3>1, CauseStays, EndedHasCause
      <4> QED BY <4>1, Zenon DEF Advice!EndedBy, Cause
    <3> QED BY <3>2, <3>3
  <2>2. ASSUME NEW r \in Request,
               \/ Advice!StartNested(r) \/ Advice!Start(r) \/ Advice!Check(r)
               \/ Advice!Update(r) \/ Advice!AppendAll(r) \/ Advice!Merged(r) \/ Advice!Count(r)
               \/ Advice!Report(r) \/ Advice!Return(r)
        PROVE  AdviceInv' /\ Advice!EndedBy'
    BY <2>2, NestedKeeps, StartKeeps, TurnsKeep, MergesKeep, CountKeeps, ReportKeepsAdvice
  <2> QED BY <2>1, <2>2 DEF Advice!Next
<1>2. Advice!Init => AdviceInv /\ Advice!EndedBy
  BY InitAdviceInv
<1> QED BY <1>1, <1>2, PTL DEF Advice!Spec

-----------------------------------------------------------------------------
\* What there is to list of one of a request's recommendations, and the
\* locations among its assets that stand for its region: there are as many of
\* the one as of the other, since a location is taken once, each recommender is
\* asked for once for it, and of the region and its zones one is the
\* recommendation's.  So there are of those the request received and those where
\* it did not miss it.

Slots(r, i) == {s \in Advice!Listed(r) : s.recommendation = i}

LocationsOf(r) ==
  {asset.place : asset \in {a \in Advice!Range(Assets[r]) :
                              a.collection \in {"locations", "regions"}}}

StandFor(r, i) == {l \in LocationsOf(r) : Advice!Covers(l, i)}

LEMMA SlotOf ==
  ASSUME Advice!WellTyped, NEW r \in Request, NEW i \in Recommendation,
         NEW s \in Slots(r, i)
  PROVE  \E k \in DOMAIN Assets[r], j \in DOMAIN Recommenders, z \in DOMAIN Advice!ZoneOrder :
           /\ s = [parent |-> <<k, j, z>>, recommendation |-> i]
           /\ k \in Advice!_create_target_locations(Assets[r])
           /\ Advice!StandsForRegion(Assets[r][k].place)
           /\ z \in Advice!ZonesAsked(Assets[r][k].place.region, Recommenders[j])
           /\ RecommenderOf[i] = Recommenders[j]
           /\ Place[i].region = Assets[r][k].place.region
           /\ Place[i].zone = Advice!ZoneOrder[z]
<1>1. /\ s.parent \in Advice!_create_recommendation_parents(Assets[r])
      /\ s.recommendation = i /\ i \in Advice!list_recommendations(r, s.parent)
      /\ s = [parent |-> s.parent, recommendation |-> s.recommendation]
  BY DEF Slots, Advice!Listed
<1>2. PICK k \in Advice!_select_available_locations(Assets[r]), j \in DOMAIN Recommenders,
           z \in DOMAIN Advice!ZoneOrder :
        /\ s.parent = <<k, j, z>>
        /\ z \in Advice!ZonesAsked(Assets[r][k].place.region, Recommenders[j])
  BY <1>1 DEF Advice!_create_recommendation_parents
<1>3. /\ k \in Advice!_create_target_locations(Assets[r]) /\ k \in DOMAIN Assets[r]
      /\ Advice!StandsForRegion(Assets[r][k].place)
  BY DEF Advice!_select_available_locations, Advice!_create_target_locations
<1>4. /\ RecommenderOf[i] = Recommenders[j]
      /\ Place[i] = [region |-> Assets[r][k].place.region, zone |-> Advice!ZoneOrder[z]]
  BY <1>1, <1>2 DEF Advice!list_recommendations
<1> QED BY <1>1, <1>2, <1>3, <1>4

LEMMA FourZones ==
  /\ DOMAIN Advice!ZoneOrder = {1, 2, 3, 4}
  /\ Advice!ZoneOrder[1] = "" /\ Advice!ZoneOrder[2] = "a"
  /\ Advice!ZoneOrder[3] = "b" /\ Advice!ZoneOrder[4] = "c"
<1>1. Advice!ZoneOrder \in Seq({"", "a", "b", "c"}) /\ Len(Advice!ZoneOrder) = 4
  BY DEF Advice!ZoneOrder
<1>2. DOMAIN Advice!ZoneOrder = 1 .. 4
  BY <1>1, DomainOfSeq, Zenon
<1>3. /\ Advice!ZoneOrder[1] = "" /\ Advice!ZoneOrder[2] = "a"
      /\ Advice!ZoneOrder[3] = "b" /\ Advice!ZoneOrder[4] = "c"
  BY DEF Advice!ZoneOrder
<1>4. 1 .. 4 = {1, 2, 3, 4}
  OBVIOUS
<1> QED BY <1>2, <1>3, <1>4

\* The location of a slot stands for the recommendation's region.
LEMMA SlotStandsFor ==
  ASSUME Advice!WellTyped, NEW r \in Request, NEW i \in Recommendation,
         NEW s \in Slots(r, i)
  PROVE  Assets[r][s.parent[1]].place \in StandFor(r, i)
<1>1. PICK k \in DOMAIN Assets[r], j \in DOMAIN Recommenders, z \in DOMAIN Advice!ZoneOrder :
        /\ s = [parent |-> <<k, j, z>>, recommendation |-> i]
        /\ k \in Advice!_create_target_locations(Assets[r])
        /\ Advice!StandsForRegion(Assets[r][k].place)
        /\ z \in Advice!ZonesAsked(Assets[r][k].place.region, Recommenders[j])
        /\ RecommenderOf[i] = Recommenders[j]
        /\ Place[i].region = Assets[r][k].place.region
        /\ Place[i].zone = Advice!ZoneOrder[z]
  BY SlotOf
<1>2. s.parent[1] = k
  BY <1>1
<1>3. Assets[r][k].place \in LocationsOf(r)
  BY <1>1 DEF LocationsOf, Advice!Range, Advice!_create_target_locations, Advice!Located
<1>4. \/ Place[i].zone = ""
      \/ /\ Place[i].zone \in Advice!Zones /\ Assets[r][k].place.region # "global"
         /\ RecommenderOf[i] \in COST_RECOMMENDER_IDS
  <2>1. CASE z = 1
    BY <1>1, <2>1, FourZones
  <2>2. CASE z # 1
    <3>1. /\ RecommenderOf[i] \in COST_RECOMMENDER_IDS
          /\ Assets[r][k].place.region # "global"
      BY <1>1, <2>2 DEF Advice!ZonesAsked
    <3>2. z \in {2, 3, 4}
      BY <2>2, FourZones
    <3>3. Advice!ZoneOrder[z] \in Advice!Zones
      BY <3>2, FourZones DEF Advice!Zones
    <3> QED BY <1>1, <3>1, <3>3
  <2> QED BY <2>1, <2>2
<1>5. Advice!Covers(Assets[r][k].place, i)
  BY <1>1, <1>4 DEF Advice!Covers, Advice!StandsForRegion
<1> QED BY <1>2, <1>3, <1>5 DEF StandFor

\* Two slots of a recommendation have not the same location.
LEMMA SlotsDiffer ==
  ASSUME Advice!WellTyped, NEW r \in Request, NEW i \in Recommendation,
         NEW s \in Slots(r, i), NEW t \in Slots(r, i),
         Assets[r][s.parent[1]].place = Assets[r][t.parent[1]].place
  PROVE  s = t
<1>1. PICK k \in DOMAIN Assets[r], j \in DOMAIN Recommenders, z \in DOMAIN Advice!ZoneOrder :
        /\ s = [parent |-> <<k, j, z>>, recommendation |-> i]
        /\ k \in Advice!_create_target_locations(Assets[r])
        /\ RecommenderOf[i] = Recommenders[j] /\ Place[i].zone = Advice!ZoneOrder[z]
  BY SlotOf
<1>2. PICK k2 \in DOMAIN Assets[r], j2 \in DOMAIN Recommenders, z2 \in DOMAIN Advice!ZoneOrder :
        /\ t = [parent |-> <<k2, j2, z2>>, recommendation |-> i]
        /\ k2 \in Advice!_create_target_locations(Assets[r])
        /\ RecommenderOf[i] = Recommenders[j2] /\ Place[i].zone = Advice!ZoneOrder[z2]
  BY SlotOf
<1>3. k = k2
  <2>1. Assets[r][k].place = Assets[r][k2].place
    BY <1>1, <1>2
  <2>2. k <= k2 /\ k2 <= k
    BY <1>1, <1>2, <2>1 DEF Advice!_create_target_locations
  <2>3. k \in Nat /\ k2 \in Nat
    BY DEF Advice!WellTyped
  <2> QED BY <2>2, <2>3
<1>4. j = j2
  BY <1>1, <1>2 DEF Advice!WellTyped
<1>5. z = z2
  <2>1. Advice!ZoneOrder[z] = Advice!ZoneOrder[z2]
    BY <1>1, <1>2
  <2>2. z \in {1, 2, 3, 4} /\ z2 \in {1, 2, 3, 4}
    BY FourZones
  <2>3. CASE z = 1
    BY <2>1, <2>2, <2>3, FourZones
  <2>4. CASE z = 2
    BY <2>1, <2>2, <2>4, FourZones
  <2>5. CASE z = 3
    BY <2>1, <2>2, <2>5, FourZones
  <2>6. CASE z = 4
    BY <2>1, <2>2, <2>6, FourZones
  <2> QED BY <2>2, <2>3, <2>4, <2>5, <2>6
<1> QED BY <1>1, <1>2, <1>3, <1>4, <1>5

\* Every location that stands for the region has its slot: the first asset it
\* is taken from, the recommender, and the zone.
LEMMA SlotForLocation ==
  ASSUME Advice!WellTyped, NEW r \in Request, NEW i \in Recommendation,
         RequestOf[i] = r, NEW l \in StandFor(r, i)
  PROVE  \E s \in Slots(r, i) : Assets[r][s.parent[1]].place = l
<1> DEFINE found == {k \in DOMAIN Assets[r] :
                       Advice!Located(Assets[r][k]) /\ Assets[r][k].place = l}
<1>1. found # {}
  BY DEF StandFor, LocationsOf, Advice!Range, Advice!Located
<1>2. found \in SUBSET Nat
  BY DEF Advice!WellTyped
<1>3. PICK k \in found : \A m \in found : k <= m
  BY <1>1, <1>2, LeastOf
<1>4. k \in Advice!_create_target_locations(Assets[r]) /\ Assets[r][k].place = l
  BY <1>3 DEF Advice!_create_target_locations
<1>5. Advice!Covers(l, i)
  BY DEF StandFor
<1>6. k \in Advice!_select_available_locations(Assets[r])
  BY <1>4, <1>5 DEF Advice!_select_available_locations, Advice!StandsForRegion, Advice!Covers
<1>7. PICK j \in DOMAIN Recommenders : Recommenders[j] = RecommenderOf[i]
  BY DEF Advice!WellTyped, Advice!Recommender, Advice!Range
<1>8. PICK z \in DOMAIN Advice!ZoneOrder :
        /\ Advice!ZoneOrder[z] = Place[i].zone
        /\ z \in Advice!ZonesAsked(l.region, Recommenders[j])
  <2>1. CASE Place[i].zone = ""
    <3>1. 1 \in Advice!ZonesAsked(l.region, Recommenders[j])
      BY FourZones DEF Advice!ZonesAsked
    <3> QED BY <2>1, <3>1, FourZones
  <2>2. CASE Place[i].zone # ""
    <3>1. /\ Place[i].zone \in Advice!Zones /\ l.region # "global"
          /\ RecommenderOf[i] \in COST_RECOMMENDER_IDS
      BY <1>5, <2>2 DEF Advice!Covers
    <3>2. PICK z \in DOMAIN Advice!ZoneOrder : Advice!ZoneOrder[z] = Place[i].zone
      BY <3>1, FourZones DEF Advice!Zones
    <3> QED BY <1>7, <3>1, <3>2 DEF Advice!ZonesAsked
  <2> QED BY <2>1, <2>2
<1> DEFINE p == <<k, j, z>>
<1>9. p \in Advice!_create_recommendation_parents(Assets[r])
  BY <1>4, <1>6, <1>8 DEF Advice!_create_recommendation_parents
<1>10. i \in Advice!list_recommendations(r, p)
  <2>1. p[1] = k /\ p[2] = j /\ p[3] = z
    OBVIOUS
  <2>2. Place[i] = [region |-> Place[i].region, zone |-> Place[i].zone]
    BY DEF Advice!WellTyped
  <2>3. Place[i].region = l.region
    BY <1>5 DEF Advice!Covers
  <2> HIDE DEF p
  <2> QED BY <1>4, <1>7, <1>8, <2>1, <2>2, <2>3 DEF Advice!list_recommendations
<1>11. [parent |-> p, recommendation |-> i] \in Slots(r, i)
  BY <1>9, <1>10 DEF Slots, Advice!Listed
<1>12. Assets[r][p[1]].place = l
  BY <1>4
<1> QED BY <1>11, <1>12

Had(r, i) == {s \in received[r] : s.recommendation = i}

HadAt(r, i) ==
  {l \in LocationsOf(r) : Advice!Covers(l, i) /\ ~Advice!Missed(r, l, i)}

LEMMA HadAreLocations ==
  ASSUME Advice!WellTyped, NEW r \in Request, NEW i \in Recommendation,
         RequestOf[i] = r, received[r] \subseteq Advice!Listed(r), IsFiniteSet(Had(r, i))
  PROVE  Cardinality(HadAt(r, i)) = Cardinality(Had(r, i))
<1> DEFINE f == [s \in Had(r, i) |-> Assets[r][s.parent[1]].place]
<1>1. Had(r, i) \subseteq Slots(r, i)
  BY DEF Had, Slots
<1>2. ASSUME NEW s \in Had(r, i) PROVE Assets[r][s.parent[1]].place \in HadAt(r, i)
  <2>1. Assets[r][s.parent[1]].place \in StandFor(r, i)
    BY <1>1, SlotStandsFor
  <2>2. ~Advice!Missed(r, Assets[r][s.parent[1]].place, i)
    <3> SUFFICES ASSUME NEW t \in Advice!Listed(r) \ received[r], t.recommendation = i,
                        Assets[r][t.parent[1]].place = Assets[r][s.parent[1]].place
                 PROVE  FALSE
      BY DEF Advice!Missed
    <3>1. s \in Slots(r, i) /\ t \in Slots(r, i)
      BY <1>1 DEF Slots
    <3>2. s = t
      BY <3>1, SlotsDiffer
    <3> QED BY <3>2 DEF Had
  <2> QED BY <2>1, <2>2 DEF HadAt, StandFor
<1>3. \A s, t \in Had(r, i) : f[s] = f[t] => s = t
  BY <1>1, SlotsDiffer
<1>4. ASSUME NEW l \in HadAt(r, i) PROVE \E s \in Had(r, i) : f[s] = l
  <2>1. l \in StandFor(r, i)
    BY DEF HadAt, StandFor
  <2>2. PICK s \in Slots(r, i) : Assets[r][s.parent[1]].place = l
    BY <2>1, SlotForLocation
  <2>3. s \in received[r]
    BY <2>2 DEF HadAt, Advice!Missed, Slots
  <2>4. s \in Had(r, i)
    BY <2>3 DEF Had, Slots
  <2> QED BY <2>2, <2>4
<1>5. f \in [Had(r, i) -> HadAt(r, i)]
  BY <1>2
<1>6. f \in Bijection(Had(r, i), HadAt(r, i))
  <2> HIDE DEF f
  <2> QED BY <1>3, <1>4, <1>5 DEF Bijection, Injection, Surjection, IsInjective
<1> QED BY <1>6, FS_Bijection DEF ExistsBijection

\* Where a request had it changes when it is listed only.
LEMMA HadStays ==
  ASSUME NEW r \in Request, received'[r] = received[r]
  PROVE  \A i : (HadAt(r, i))' = HadAt(r, i)
<1>1. \A l, i : (Advice!Missed(r, l, i))' <=> Advice!Missed(r, l, i)
  BY ListedStays DEF Advice!Missed
<1> QED BY <1>1 DEF HadAt, LocationsOf, Advice!Covers

\* How often a recommendation is in a list.
LEMMA SameCardinality == \A S : Advice!Cardinality(S) = Cardinality(S)
BY Zenon DEF Cardinality, Advice!Cardinality

LEMMA OccurrencesInNone == \A i : Advice!Occurrences(<<>>, i) = 0
<1>1. ASSUME NEW i PROVE {k \in DOMAIN <<>> : <<>>[k] = i} = {}
  OBVIOUS
<1> QED BY <1>1, SameCardinality, FS_EmptySet DEF Advice!Occurrences

LEMMA OccurrencesAppend ==
  ASSUME NEW S, NEW l \in Seq(S), NEW x \in S, NEW i
  PROVE  /\ Advice!Occurrences(l, i) \in Nat
         /\ Advice!Occurrences(Append(l, x), i) =
              Advice!Occurrences(l, i) + (IF x = i THEN 1 ELSE 0)
<1> DEFINE at_l == {k \in DOMAIN l : l[k] = i}
           at_x == {k \in DOMAIN Append(l, x) : Append(l, x)[k] = i}
<1>1. /\ Len(l) \in Nat /\ DOMAIN l = 1 .. Len(l)
      /\ DOMAIN Append(l, x) = 1 .. Len(l) + 1 /\ Append(l, x)[Len(l) + 1] = x
      /\ \A k \in DOMAIN l : Append(l, x)[k] = l[k]
  OBVIOUS
<1>2. IsFiniteSet(at_l)
  <2>1. IsFiniteSet(1 .. Len(l))
    BY <1>1, FS_Interval
  <2> QED BY <1>1, <2>1, FS_Subset
<1>3. /\ Advice!Occurrences(l, i) = Cardinality(at_l)
      /\ Advice!Occurrences(Append(l, x), i) = Cardinality(at_x)
  BY SameCardinality, Zenon DEF Advice!Occurrences
<1>4. at_x = IF x = i THEN at_l \cup {Len(l) + 1} ELSE at_l
  BY <1>1
<1>5. Len(l) + 1 \notin at_l
  BY <1>1
<1> HIDE DEF at_l, at_x
<1>6. Cardinality(at_l) \in Nat
  BY <1>2, FS_CardinalityType
<1>7. Cardinality(at_x) = Cardinality(at_l) + (IF x = i THEN 1 ELSE 0)
  <2>1. CASE x = i
    <3>1. Cardinality(at_l \cup {Len(l) + 1}) = Cardinality(at_l) + 1
      BY <1>2, <1>5, FS_AddElement, Zenon
    <3> QED BY <1>4, <2>1, <3>1
  <2>2. CASE x # i
    BY <1>4, <1>6, <2>2
  <2> QED BY <2>1, <2>2
<1> QED BY <1>3, <1>6, <1>7

\* Where requests are that are at work.
Merging == {"checking", "updating", "appending", "counting", "reporting"}

ReportSet ==
  [id : Advice!Recommender, recommendations : Seq(Recommendation),
   primary_priority_level : {"none"} \cup Advice!Range(Advice!Levels)]

\* Of two requests at work each has met the other.
AloneInv == \A r, q \in Advice!Running : r # q => r \in met

\* What has been merged is still to be reported, or is reported.
OrderInv ==
  /\ reports \in [Request -> Seq(ReportSet)]
  /\ \A r \in Request : at[r] \in {"counting", "reporting", "returned"} => todo[r] = {}
  /\ \A r \in Request : at[r] = "returned" => merged[r] = <<>>
  /\ \A r \in Request : at[r] = "waiting" => reports[r] = <<>>
  /\ \A r \in Request : at[r] \in Merging \cup {"returned"} =>
       \A s \in received[r] \ todo[r] :
         \/ RecommenderOf[s.recommendation] \in Advice!Range(merged[r])
         \/ \E k \in DOMAIN reports[r] :
              reports[r][k].id = RecommenderOf[s.recommendation]

\* What has been merged of a recommendation.
Done(r, i) == {s \in received[r] \ todo[r] : s.recommendation = i}

IsHighest(recommendations, level) ==
  \E n \in DOMAIN Advice!Levels :
    /\ level = Advice!Levels[n]
    /\ Advice!Levels[n] \in Advice!LevelsOf(recommendations)
    /\ \A m \in DOMAIN Advice!Levels :
         Advice!Levels[m] \in Advice!LevelsOf(recommendations) => n <= m

\* While a request is alone the map has of its recommendations what it has
\* merged, and an entry that was found empty still is.
StillEmpty(r) == at[r] = "updating" => recommender_map[Advice!Id(r)] = <<>>

MergedOnce(r) ==
  at[r] \in Merging =>
    \A i \in Recommendation : RequestOf[i] = r =>
      /\ IsFiniteSet(Done(r, i))
      /\ Advice!Occurrences(recommender_map[RecommenderOf[i]], i) = Cardinality(Done(r, i))

LevelTrue(r) ==
  at[r] = "reporting" => IsHighest(recommender_map[Head(merged[r])],
                                   primary_priority_level[Head(merged[r])])

ReportsTrue(r) ==
  \A k \in DOMAIN reports[r] :
    /\ IsHighest(reports[r][k].recommendations, reports[r][k].primary_priority_level)
    /\ \A i \in Recommendation :
         RequestOf[i] = r /\ RecommenderOf[i] = reports[r][k].id =>
           Advice!Occurrences(reports[r][k].recommendations, i) = Cardinality(HadAt(r, i))

OwnOf(r) == StillEmpty(r) /\ MergedOnce(r) /\ LevelTrue(r) /\ ReportsTrue(r)

OwnInv == AloneInv /\ OrderInv /\ \A r \in Request \ met : OwnOf(r)

LEMMA RunningIsMerging ==
  ASSUME AdviceTypes
  PROVE  \A r \in Request : r \in Advice!Running <=> at[r] \in Merging
<1>1. \A r \in Request : at[r] \in Steps
  BY DEF AdviceTypes
<1> QED BY <1>1 DEF Advice!Running, Merging, Steps

LEMMA HighestStays ==
  ASSUME UNCHANGED content
  PROVE  \A recommendations, level :
           IsHighest(recommendations, level)' <=> IsHighest(recommendations, level)
BY DEF IsHighest, Advice!LevelsOf

\* What a request is shown does not change by the steps of another, if they
\* have not met.
LEMMA OthersOwn ==
  ASSUME AdviceTypes, AdviceTypes', OwnInv, NEW r \in Request,
         NEW step \in Steps \ {"waiting"}, at' = [at EXCEPT ![r] = step],
         \/ r \in Advice!Running /\ met' = met
         \/ met' = IF Advice!Running = {} THEN met ELSE met \cup Advice!Running \cup {r},
         UNCHANGED content, \A q \in Request \ {r} : reports'[q] = reports[q],
         \A q \in Request \ {r} : received'[q] = received[q]
  PROVE  AloneInv' /\ \A q \in Request \ met' : q # r => OwnOf(q)'
<1>1. \A q \in Request : at'[q] = IF q = r THEN step ELSE at[q]
  BY DEF AdviceTypes
<1>2. /\ Advice!Running \subseteq Request /\ Advice!Running' \subseteq Request
      /\ \A q \in Request \ {r} : q \in Advice!Running' <=> q \in Advice!Running
      /\ met \subseteq met'
  BY <1>1 DEF Advice!Running
<1>3. AloneInv'
  <2> SUFFICES ASSUME NEW p \in Advice!Running', NEW q \in Advice!Running', p # q
               PROVE  p \in met'
    BY DEF AloneInv
  <2>1. CASE r \in Advice!Running /\ met' = met
    <3>1. p \in Advice!Running /\ q \in Advice!Running
      BY <1>2, <2>1
    <3> QED BY <2>1, <3>1 DEF OwnInv, AloneInv
  <2>2. CASE met' = IF Advice!Running = {} THEN met ELSE met \cup Advice!Running \cup {r}
    BY <1>2, <2>2
  <2> QED BY <2>1, <2>2
<1>4. ASSUME NEW q \in Request \ met', q # r PROVE OwnOf(q)'
  <2>1. q \notin Advice!Running /\ q \notin met
    BY <1>2, <1>4 DEF OwnInv, AloneInv
  <2>2. at'[q] \notin Merging
    BY <1>1, <1>4, <2>1, RunningIsMerging
  <2>3. (StillEmpty(q) /\ MergedOnce(q) /\ LevelTrue(q))'
    BY <2>2 DEF StillEmpty, MergedOnce, LevelTrue, Merging
  <2>4. ReportsTrue(q)'
    <3>1. ReportsTrue(q) /\ reports'[q] = reports[q]
      BY <1>4, <2>1 DEF OwnInv, OwnOf
    <3>2. \A i : (HadAt(q, i))' = HadAt(q, i)
      BY <1>4, HadStays
    <3> QED BY <3>1, <3>2, HighestStays DEF ReportsTrue
  <2> QED BY <2>3, <2>4 DEF OwnOf
<1> QED BY <1>3, <1>4

LEMMA InitOwnInv == ASSUME Advice!Init PROVE OwnInv
<1>1. \A r \in Request : at[r] = "waiting" /\ reports[r] = <<>>
  BY DEF Advice!Init
<1>2. AloneInv
  BY <1>1 DEF AloneInv, Advice!Running
<1>3. OrderInv
  BY <1>1 DEF Advice!Init, OrderInv, Merging
<1>4. \A r \in Request : OwnOf(r)
  BY <1>1 DEF OwnOf, StillEmpty, MergedOnce, LevelTrue, ReportsTrue, Merging
<1> QED BY <1>2, <1>3, <1>4 DEF OwnInv

\* A request that ends before it starts leaves everything as it is.
LEMMA NestedOwn ==
  ASSUME Advice!WellTyped, AdviceInv, AdviceInv', OwnInv, NEW r \in Request,
         Advice!StartNested(r)
  PROVE  OwnInv'
<1>1. /\ at' = [at EXCEPT ![r] = "raised"] /\ at[r] = "waiting"
      /\ UNCHANGED <<content, received, todo, merged, recommender_map,
                     primary_priority_level, reports, met>>
  BY DEF Advice!StartNested
<1>2. \A q \in Request : at'[q] = IF q = r THEN "raised" ELSE at[q]
  BY <1>1 DEF AdviceInv, AdviceTypes
<1>3. AloneInv'
  BY <1>1, <1>2 DEF OwnInv, AloneInv, Advice!Running
<1>4. OrderInv'
  BY <1>1, <1>2 DEF OwnInv, OrderInv, Merging
<1>5. ASSUME NEW q \in Request \ met PROVE OwnOf(q)'
  <2>1. OwnOf(q) /\ reports'[q] = reports[q]
    BY <1>1 DEF OwnInv
  <2>2. \A i : (HadAt(q, i))' = HadAt(q, i)
    BY <1>1, HadStays
  <2>3. ReportsTrue(q)'
    BY <1>1, <2>1, <2>2, HighestStays DEF OwnOf, ReportsTrue
  <2>4. StillEmpty(q)'
    BY <1>1, <1>2, <2>1 DEF OwnOf, StillEmpty, Advice!Id, Advice!Turn
  <2>5. MergedOnce(q)'
    BY <1>1, <1>2, <2>1 DEF OwnOf, MergedOnce, Done, Merging
  <2>6. LevelTrue(q)'
    BY <1>1, <1>2, <2>1, HighestStays DEF OwnOf, LevelTrue
  <2> QED BY <2>3, <2>4, <2>5, <2>6 DEF OwnOf
<1> QED BY <1>1, <1>3, <1>4, <1>5 DEF OwnInv

\* Before a request starts the map has nothing of it.
LEMMA StartOwn ==
  ASSUME Advice!WellTyped, AdviceInv, AdviceInv', OwnInv, NEW r \in Request, Advice!Start(r)
  PROVE  OwnInv'
<1>0. PICK pages \in SUBSET Advice!Listed(r) :
        /\ received' = [received EXCEPT ![r] = pages]
        /\ todo' = [todo EXCEPT ![r] = pages]
        /\ at' = [at EXCEPT ![r] = IF \A s \in pages : Advice!Reads(s.recommendation)
                                   THEN "checking" ELSE "raised"]
  BY DEF Advice!Start
<1> DEFINE step == IF \A s \in pages : Advice!Reads(s.recommendation)
                   THEN "checking" ELSE "raised"
<1>1. /\ at' = [at EXCEPT ![r] = step] /\ at[r] = "waiting"
      /\ met' = IF Advice!Running = {} THEN met ELSE met \cup Advice!Running \cup {r}
      /\ UNCHANGED <<content, merged, recommender_map, reports>>
      /\ step \in {"checking", "raised"}
  BY <1>0 DEF Advice!Start
<1> HIDE DEF step
<1>2. /\ \A q \in Request : at'[q] = IF q = r THEN step ELSE at[q]
      /\ \A q \in Request : todo'[q] = IF q = r THEN pages ELSE todo[q]
      /\ \A q \in Request : received'[q] = IF q = r THEN pages ELSE received[q]
  BY <1>0, <1>1 DEF AdviceInv, AdviceTypes
<1>3. AloneInv' /\ \A q \in Request \ met' : q # r => OwnOf(q)'
  <2>1. step \in Steps \ {"waiting"}
    BY <1>1 DEF Steps
  <2> QED BY <1>1, <1>2, <2>1, OthersOwn DEF AdviceInv
<1>4. OrderInv'
  <2>1. reports' \in [Request -> Seq(ReportSet)]
    BY <1>1 DEF OwnInv, OrderInv
  <2>2. /\ \A q \in Request : at'[q] \in {"counting", "reporting", "returned"} => todo'[q] = {}
        /\ \A q \in Request : at'[q] = "returned" => merged'[q] = <<>>
    <3>1. \A q \in Request : at'[q] \in {"counting", "reporting", "returned"} =>
            q # r /\ at'[q] = at[q] /\ todo'[q] = todo[q] /\ merged'[q] = merged[q]
      BY <1>1, <1>2
    <3>2. /\ \A q \in Request : at[q] \in {"counting", "reporting", "returned"} => todo[q] = {}
          /\ \A q \in Request : at[q] = "returned" => merged[q] = <<>>
      BY DEF OwnInv, OrderInv
    <3> QED BY <3>1, <3>2
  <2>4. \A q \in Request : at'[q] = "waiting" => reports'[q] = <<>>
    <3>1. \A q \in Request : at[q] = "waiting" => reports[q] = <<>>
      BY DEF OwnInv, OrderInv
    <3>2. \A q \in Request : at'[q] = "waiting" => at[q] = "waiting"
      BY <1>1, <1>2
    <3> QED BY <1>1, <3>1, <3>2
  <2>3. ASSUME NEW q \in Request, at'[q] \in Merging \cup {"returned"},
               NEW s \in received'[q] \ todo'[q]
        PROVE  \/ RecommenderOf[s.recommendation] \in Advice!Range(merged'[q])
               \/ \E k \in DOMAIN reports'[q] :
                    reports'[q][k].id = RecommenderOf[s.recommendation]
    <3>1. q # r
      BY <1>2, <2>3
    <3> QED BY <1>1, <1>2, <2>3, <3>1 DEF OwnInv, OrderInv
  <2> QED BY <2>1, <2>2, <2>3, <2>4 DEF OrderInv
<1>5. ASSUME r \notin met' PROVE OwnOf(r)'
  <2>1. r \notin met
    BY <1>1, <1>5
  <2>2. StillEmpty(r)' /\ LevelTrue(r)'
    BY <1>1, <1>2 DEF StillEmpty, LevelTrue
  <2>3. ReportsTrue(r)'
    <3>1. reports'[r] = <<>>
      BY <1>1 DEF OwnInv, OrderInv
    <3>2. DOMAIN reports'[r] = {}
      BY <3>1
    <3> QED BY <3>2 DEF ReportsTrue
  <2>4. MergedOnce(r)'
    <3> SUFFICES ASSUME NEW i \in Recommendation, RequestOf[i] = r
                 PROVE  /\ IsFiniteSet(Done(r, i)')
                        /\ Advice!Occurrences(recommender_map[RecommenderOf[i]], i)
                             = Cardinality(Done(r, i)')
      BY <1>1 DEF MergedOnce
    <3>1. Done(r, i)' = {}
      BY <1>2 DEF Done
    <3>2. Advice!Occurrences(recommender_map[RecommenderOf[i]], i) = 0
      <4> DEFINE list == recommender_map[RecommenderOf[i]]
      <4>1. RecommenderOf[i] \in Advice!Recommender
        BY DEF Advice!WellTyped
      <4>2. i \notin Advice!Range(list)
        <5>1. received[r] = {}
          BY <1>1 DEF AdviceInv, MapInv
        <5> QED BY <4>1, <5>1 DEF AdviceInv, MapInv
      <4>3. {k \in DOMAIN list : list[k] = i} = {}
        BY <4>2 DEF Advice!Range
      <4> HIDE DEF list
      <4>4. Advice!Occurrences(list, i) = 0
        BY <4>3, SameCardinality, FS_EmptySet, Zenon DEF Advice!Occurrences
      <4> QED BY <4>4 DEF list
    <3> QED BY <3>1, <3>2, FS_EmptySet
  <2> QED BY <2>2, <2>3, <2>4 DEF OwnOf
<1> QED BY <1>3, <1>4, <1>5 DEF OwnInv

\* Deciding what comes next.
LEMMA TurnsOwn ==
  ASSUME Advice!WellTyped, AdviceInv, AdviceInv', OwnInv, NEW r \in Request,
         Advice!Check(r) \/ Advice!Merged(r) \/ Advice!Return(r)
  PROVE  OwnInv'
<1>1. /\ UNCHANGED <<content, received, todo, merged, recommender_map, primary_priority_level,
                     reports, met>>
      /\ at[r] \in {"checking", "counting"}
  BY DEF Advice!Check, Advice!Merged, Advice!Return
<1>2. PICK step \in {"updating", "appending", "counting", "returned"} :
        /\ at' = [at EXCEPT ![r] = step]
        /\ step = "updating" => recommender_map[Advice!Id(r)] = <<>>
        /\ step \in {"counting", "returned"} => todo[r] = {} \/ at[r] = "counting"
        /\ step = "returned" => merged[r] = <<>>
  BY DEF Advice!Check, Advice!Merged, Advice!Return
<1>3. \A q \in Request : at'[q] = IF q = r THEN step ELSE at[q]
  BY <1>2 DEF AdviceInv, AdviceTypes
<1>4. AloneInv' /\ \A q \in Request \ met' : q # r => OwnOf(q)'
  <2>1. step \in Steps \ {"waiting"}
    BY DEF Steps
  <2>2. r \in Advice!Running
    BY <1>1 DEF Advice!Running
  <2> QED BY <1>1, <1>2, <2>1, <2>2, OthersOwn DEF AdviceInv
<1>5. OrderInv'
  <2>1. reports' \in [Request -> Seq(ReportSet)]
    BY <1>1 DEF OwnInv, OrderInv
  <2>2. /\ \A q \in Request : at'[q] \in {"counting", "reporting", "returned"} => todo'[q] = {}
        /\ \A q \in Request : at'[q] = "returned" => merged'[q] = <<>>
    BY <1>1, <1>2, <1>3 DEF OwnInv, OrderInv
  <2>5. \A q \in Request : at'[q] = "waiting" => reports'[q] = <<>>
    BY <1>1, <1>3 DEF OwnInv, OrderInv
  <2>3. ASSUME NEW q \in Request, at'[q] \in Merging \cup {"returned"}
        PROVE  at[q] \in Merging \cup {"returned"}
    BY <1>1, <1>3, <2>3 DEF Merging
  <2>4. \A q \in Request : at'[q] \in Merging \cup {"returned"} =>
          \A s \in received[q] \ todo[q] :
            \/ RecommenderOf[s.recommendation] \in Advice!Range(merged[q])
            \/ \E k \in DOMAIN reports[q] : reports[q][k].id = RecommenderOf[s.recommendation]
    BY <2>3 DEF OwnInv, OrderInv
  <2> QED BY <1>1, <2>1, <2>2, <2>4, <2>5 DEF OrderInv
<1>6. ASSUME r \notin met' PROVE OwnOf(r)'
  <2>1. OwnOf(r) /\ at[r] \in Merging
    BY <1>1, <1>6 DEF OwnInv, Merging
  <2>2. StillEmpty(r)'
    BY <1>1, <1>2, <1>3 DEF StillEmpty, Advice!Id, Advice!Turn
  <2>3. LevelTrue(r)'
    BY <1>3 DEF LevelTrue
  <2>4. MergedOnce(r)'
    BY <1>1, <2>1 DEF OwnOf, MergedOnce, Done
  <2>5. ReportsTrue(r)'
    BY <1>1, <2>1, HighestStays, HadStays DEF OwnOf, ReportsTrue
  <2> QED BY <2>2, <2>3, <2>4, <2>5 DEF OwnOf
<1> QED BY <1>4, <1>5, <1>6 DEF OwnInv

\* A recommendation is put at the end of what there is of its recommender; a
\* request that is alone still finds nothing where it found nothing.
LEMMA MergesOwn ==
  ASSUME Advice!WellTyped, AdviceInv, AdviceInv', OwnInv, NEW r \in Request,
         Advice!Update(r) \/ Advice!AppendAll(r)
  PROVE  OwnInv'
<1> DEFINE id == Advice!Id(r)
           turn == Advice!Turn(r)
           i == turn.recommendation
<1>1. PICK entries : /\ \/ at[r] = "updating" /\ entries = <<i>>
                        \/ at[r] = "appending" /\ entries = Append(recommender_map[id], i)
                     /\ Advice!Merge(r, entries)
  BY DEF Advice!Update, Advice!AppendAll
<1>2. /\ turn \in todo[r] /\ turn \in received[r]
      /\ i \in Recommendation /\ RequestOf[i] = r /\ id = RecommenderOf[i]
      /\ id \in Advice!Recommender
  BY <1>1, IdOfTurn DEF AdviceInv, AdviceTypes
<1>3. /\ recommender_map' = [recommender_map EXCEPT ![id] = entries]
      /\ merged' = [merged EXCEPT ![r] = Append(@, id)]
      /\ todo' = [todo EXCEPT ![r] = @ \ {turn}]
      /\ at' = [at EXCEPT ![r] = "checking"]
      /\ UNCHANGED <<content, received, primary_priority_level, reports, met>>
  BY <1>1 DEF Advice!Merge
<1>4. Advice!Range(Append(merged[r], id)) = Advice!Range(merged[r]) \cup {id}
  <2>1. merged[r] \in Seq(Advice!Recommender)
    BY DEF AdviceInv, AdviceTypes
  <2> QED BY <1>2, <2>1, RangeOfAppend
<1> HIDE DEF id, turn
<1>5. /\ \A q \in Request : at'[q] = IF q = r THEN "checking" ELSE at[q]
      /\ \A q \in Request : todo'[q] = IF q = r THEN todo[r] \ {turn} ELSE todo[q]
      /\ \A q \in Request : merged'[q] = IF q = r THEN Append(merged[r], id) ELSE merged[q]
      /\ \A x \in Advice!Recommender :
           recommender_map'[x] = IF x = id THEN entries ELSE recommender_map[x]
  BY <1>2, <1>3 DEF AdviceInv, AdviceTypes
<1>6. AloneInv' /\ \A q \in Request \ met' : q # r => OwnOf(q)'
  <2>1. "checking" \in Steps \ {"waiting"}
    BY DEF Steps
  <2>2. r \in Advice!Running
    BY <1>1 DEF Advice!Running
  <2> QED BY <1>3, <2>1, <2>2, OthersOwn DEF AdviceInv
<1>7. OrderInv'
  <2>1. reports' \in [Request -> Seq(ReportSet)]
    BY <1>3 DEF OwnInv, OrderInv
  <2>2. /\ \A q \in Request : at'[q] \in {"counting", "reporting", "returned"} => todo'[q] = {}
        /\ \A q \in Request : at'[q] = "returned" => merged'[q] = <<>>
    BY <1>5 DEF OwnInv, OrderInv
  <2>5. \A q \in Request : at'[q] = "waiting" => reports'[q] = <<>>
    BY <1>3, <1>5 DEF OwnInv, OrderInv
  <2>3. ASSUME NEW q \in Request, at'[q] \in Merging \cup {"returned"},
               NEW s \in received[q] \ todo'[q]
        PROVE  \/ RecommenderOf[s.recommendation] \in Advice!Range(merged'[q])
               \/ \E k \in DOMAIN reports'[q] :
                    reports'[q][k].id = RecommenderOf[s.recommendation]
    <3>1. CASE q # r
      BY <1>3, <1>5, <2>3, <3>1 DEF OwnInv, OrderInv
    <3>2. CASE q = r /\ s = turn
      BY <1>2, <1>4, <1>5, <3>2
    <3>3. CASE q = r /\ s # turn
      <4>1. s \in received[r] \ todo[r] /\ at[r] \in Merging
        BY <1>1, <1>5, <2>3, <3>3 DEF Merging
      <4>2. \/ RecommenderOf[s.recommendation] \in Advice!Range(merged[r])
            \/ \E k \in DOMAIN reports[r] : reports[r][k].id = RecommenderOf[s.recommendation]
        BY <4>1 DEF OwnInv, OrderInv
      <4> QED BY <1>3, <1>4, <1>5, <3>3, <4>2
    <3> QED BY <3>1, <3>2, <3>3
  <2> QED BY <1>3, <2>1, <2>2, <2>3, <2>5 DEF OrderInv
<1>8. ASSUME r \notin met' PROVE OwnOf(r)'
  <2>1. OwnOf(r) /\ at[r] \in Merging
    BY <1>1, <1>3, <1>8 DEF OwnInv, Merging
  <2>2. recommender_map[id] \in Seq(Recommendation)
    BY <1>2 DEF AdviceInv, AdviceTypes
  <2>3. entries = Append(recommender_map[id], i)
    <3>1. CASE at[r] = "updating"
      <4>1. recommender_map[id] = <<>>
        BY <2>1, <3>1 DEF OwnOf, StillEmpty, id
      <4>2. Append(<<>>, i) = <<i>>
        OBVIOUS
      <4> QED BY <1>1, <3>1, <4>1, <4>2
    <3>2. CASE at[r] # "updating"
      BY <1>1, <3>2
    <3> QED BY <3>1, <3>2
  <2>4. (StillEmpty(r) /\ LevelTrue(r))'
    BY <1>5 DEF StillEmpty, LevelTrue
  <2>5. ReportsTrue(r)'
    BY <1>3, <2>1, HighestStays, HadStays DEF OwnOf, ReportsTrue
  <2>6. ASSUME NEW j \in Recommendation, RequestOf[j] = r
        PROVE  /\ IsFiniteSet(Done(r, j)')
               /\ Advice!Occurrences(recommender_map'[RecommenderOf[j]], j)
                    = Cardinality(Done(r, j)')
    <3>1. /\ IsFiniteSet(Done(r, j))
          /\ Advice!Occurrences(recommender_map[RecommenderOf[j]], j) = Cardinality(Done(r, j))
      BY <2>1, <2>6 DEF OwnOf, MergedOnce
    <3>2. RecommenderOf[j] \in Advice!Recommender
      BY DEF Advice!WellTyped
    <3>3. CASE j = i
      <4>1. Done(r, j)' = Done(r, j) \cup {turn} /\ turn \notin Done(r, j)
        BY <1>2, <1>3, <1>5, <3>3 DEF Done
      <4>2. /\ IsFiniteSet(Done(r, j) \cup {turn})
            /\ Cardinality(Done(r, j) \cup {turn}) = Cardinality(Done(r, j)) + 1
        BY <3>1, <4>1, FS_AddElement
      <4>3. recommender_map'[RecommenderOf[j]] = Append(recommender_map[RecommenderOf[j]], i)
        BY <1>2, <1>5, <2>3, <3>2, <3>3
      <4>4. Advice!Occurrences(Append(recommender_map[RecommenderOf[j]], i), j)
              = Advice!Occurrences(recommender_map[RecommenderOf[j]], j) + 1
        BY <1>2, <2>2, <3>3, OccurrencesAppend
      <4> QED BY <3>1, <4>1, <4>2, <4>3, <4>4
    <3>4. CASE j # i
      <4>1. Done(r, j)' = Done(r, j)
        BY <1>2, <1>3, <1>5, <3>4 DEF Done
      <4>2. Advice!Occurrences(recommender_map'[RecommenderOf[j]], j)
              = Advice!Occurrences(recommender_map[RecommenderOf[j]], j)
        <5>1. CASE RecommenderOf[j] = id
          <6>1. recommender_map'[RecommenderOf[j]] = Append(recommender_map[id], i)
            BY <1>5, <2>3, <3>2, <5>1
          <6>2. /\ Advice!Occurrences(recommender_map[id], j) \in Nat
                /\ Advice!Occurrences(Append(recommender_map[id], i), j)
                     = Advice!Occurrences(recommender_map[id], j) + 0
            BY <1>2, <2>2, <3>4, OccurrencesAppend
          <6> QED BY <5>1, <6>1, <6>2
        <5>2. CASE RecommenderOf[j] # id
          BY <1>5, <3>2, <5>2
        <5> QED BY <5>1, <5>2
      <4> QED BY <3>1, <4>1, <4>2
    <3> QED BY <3>3, <3>4
  <2>7. MergedOnce(r)'
    BY <2>6 DEF MergedOnce
  <2> QED BY <2>4, <2>5, <2>7 DEF OwnOf
<1> QED BY <1>6, <1>7, <1>8 DEF OwnInv

\* The level that is counted is the highest, unless it raises.
LEMMA CountOwn ==
  ASSUME Advice!WellTyped, AdviceInv, AdviceInv', OwnInv, NEW r \in Request, Advice!Count(r)
  PROVE  OwnInv'
<1> DEFINE id == Head(merged[r])
           counted == /\ Advice!CostsAdd(recommender_map[id])
                      /\ Advice!LevelsCount(recommender_map[id])
           step == IF counted THEN "reporting" ELSE "raised"
<1>1. /\ at' = [at EXCEPT ![r] = step] /\ at[r] = "counting" /\ merged[r] # <<>>
      /\ primary_priority_level' =
           IF counted
           THEN [primary_priority_level EXCEPT
                   ![id] = Advice!_get_state_and_priority(recommender_map[id])]
           ELSE primary_priority_level
      /\ UNCHANGED <<content, received, todo, merged, recommender_map, reports, met>>
  BY DEF Advice!Count
<1>2. id \in Advice!Recommender /\ id \in Advice!Range(merged[r])
  <2>1. merged[r] \in Seq(Advice!Recommender)
    BY DEF AdviceInv, AdviceTypes
  <2> QED BY <1>1, <2>1, HeadAndTail
<1>3. recommender_map[id] \in Seq(Recommendation) /\ recommender_map[id] # <<>>
  BY <1>2 DEF AdviceInv, AdviceTypes, MapInv
<1>4. step \in {"reporting", "raised"} /\ (step = "reporting" => counted)
  BY Zenon
<1> HIDE DEF step
<1>5. \A q \in Request : at'[q] = IF q = r THEN step ELSE at[q]
  BY <1>1 DEF AdviceInv, AdviceTypes
<1>6. AloneInv' /\ \A q \in Request \ met' : q # r => OwnOf(q)'
  <2>1. step \in Steps \ {"waiting"}
    BY <1>4 DEF Steps
  <2>2. r \in Advice!Running
    BY <1>1 DEF Advice!Running
  <2> QED BY <1>1, <2>1, <2>2, OthersOwn DEF AdviceInv
<1>7. OrderInv'
  <2> HIDE DEF counted
  <2>1. reports' \in [Request -> Seq(ReportSet)]
    BY <1>1 DEF OwnInv, OrderInv
  <2>2. /\ \A q \in Request : at'[q] \in {"counting", "reporting", "returned"} => todo'[q] = {}
        /\ \A q \in Request : at'[q] = "returned" => merged'[q] = <<>>
        /\ \A q \in Request : at'[q] = "waiting" => reports'[q] = <<>>
    BY <1>1, <1>4, <1>5 DEF OwnInv, OrderInv
  <2>3. ASSUME NEW q \in Request, at'[q] \in Merging \cup {"returned"}
        PROVE  at[q] \in Merging \cup {"returned"}
    BY <1>1, <1>5, <2>3 DEF Merging
  <2>4. \A q \in Request : at'[q] \in Merging \cup {"returned"} =>
          \A s \in received[q] \ todo[q] :
            \/ RecommenderOf[s.recommendation] \in Advice!Range(merged[q])
            \/ \E k \in DOMAIN reports[q] : reports[q][k].id = RecommenderOf[s.recommendation]
    BY <2>3 DEF OwnInv, OrderInv
  <2> QED BY <1>1, <2>1, <2>2, <2>4 DEF OrderInv
<1>8. ASSUME r \notin met' PROVE OwnOf(r)'
  <2>1. OwnOf(r) /\ at[r] \in Merging
    BY <1>1, <1>8 DEF OwnInv, Merging
  <2>2. MergedOnce(r)' /\ StillEmpty(r)'
    <3>1. MergedOnce(r)'
      BY <1>1, <2>1 DEF OwnOf, MergedOnce, Done
    <3>2. at'[r] # "updating"
      BY <1>4, <1>5
    <3> QED BY <3>1, <3>2 DEF StillEmpty
  <2>3. ReportsTrue(r)'
    BY <1>1, <2>1, HighestStays, HadStays DEF OwnOf, ReportsTrue
  <2>4. LevelTrue(r)'
    <3>1. ASSUME step = "reporting"
          PROVE  IsHighest(recommender_map[id], primary_priority_level'[id])
      <4>1. counted
        BY <1>4, <3>1
      <4>2. primary_priority_level'[id] = Advice!_get_state_and_priority(recommender_map[id])
        BY <1>1, <1>2, <4>1 DEF AdviceInv, AdviceTypes
      <4>3. PICK n \in DOMAIN Advice!Levels :
              /\ Advice!_get_state_and_priority(recommender_map[id]) = Advice!Levels[n]
              /\ Advice!Levels[n] \in Advice!LevelsOf(recommender_map[id])
              /\ \A m \in DOMAIN Advice!Levels :
                   Advice!Levels[m] \in Advice!LevelsOf(recommender_map[id]) => n <= m
        BY <1>3, <4>1, LevelOfReport DEF Advice!LevelsCount
      <4> HIDE DEF id, counted
      <4> QED BY <4>2, <4>3 DEF IsHighest
    <3>2. Head(merged'[r]) = id /\ recommender_map' = recommender_map
      BY <1>1
    <3>3. (IsHighest(recommender_map[Head(merged[r])],
                     primary_priority_level[Head(merged[r])]))'
            <=> IsHighest(recommender_map[id], primary_priority_level'[id])
      BY <1>1, <3>2, HighestStays
    <3> QED BY <1>5, <3>1, <3>3 DEF LevelTrue
  <2> QED BY <2>2, <2>3, <2>4 DEF OwnOf
<1> QED BY <1>6, <1>7, <1>8 DEF OwnInv

\* What is reported is the map's entry, with every recommendation of the
\* request as often as it has been merged: everything has.
LEMMA ReportOwn ==
  ASSUME Advice!WellTyped, AdviceInv, AdviceInv', OwnInv, NEW r \in Request, Advice!Report(r)
  PROVE  OwnInv'
<1> DEFINE id == Head(merged[r])
           report == [id |-> id, recommendations |-> recommender_map[id],
                      primary_priority_level |-> primary_priority_level[id]]
<1>1. /\ at' = [at EXCEPT ![r] = "counting"] /\ at[r] = "reporting"
      /\ merged' = [merged EXCEPT ![r] = Tail(@)]
      /\ reports' = [reports EXCEPT ![r] = Append(@, report)]
      /\ UNCHANGED <<content, received, todo, recommender_map, primary_priority_level, met>>
  BY DEF Advice!Report
<1>2. /\ id \in Advice!Recommender
      /\ Advice!Range(merged[r]) = {id} \cup Advice!Range(Tail(merged[r]))
  <2>1. merged[r] \in Seq(Advice!Recommender) /\ merged[r] # <<>>
    BY <1>1 DEF AdviceInv, AdviceTypes
  <2> QED BY <2>1, HeadAndTail
<1>3. report \in ReportSet
  BY <1>2 DEF ReportSet, AdviceInv, AdviceTypes
<1>4. report.id = id /\ report.recommendations = recommender_map[id]
      /\ report.primary_priority_level = primary_priority_level[id]
  OBVIOUS
<1>5. /\ reports[r] \in Seq(ReportSet) /\ Append(reports[r], report) \in Seq(ReportSet)
      /\ DOMAIN reports[r] = 1 .. Len(reports[r]) /\ Len(reports[r]) \in Nat
      /\ DOMAIN Append(reports[r], report) = 1 .. Len(reports[r]) + 1
      /\ Append(reports[r], report)[Len(reports[r]) + 1] = report
      /\ \A k \in DOMAIN reports[r] : Append(reports[r], report)[k] = reports[r][k]
  <2>1. reports[r] \in Seq(ReportSet)
    BY DEF OwnInv, OrderInv
  <2> HIDE DEF report
  <2> QED BY <1>3, <2>1
<1> HIDE DEF report
<1>6. /\ \A q \in Request : at'[q] = IF q = r THEN "counting" ELSE at[q]
      /\ \A q \in Request : merged'[q] = IF q = r THEN Tail(merged[r]) ELSE merged[q]
      /\ \A q \in Request : reports'[q] = IF q = r THEN Append(reports[r], report) ELSE reports[q]
  BY <1>1 DEF AdviceInv, AdviceTypes, OwnInv, OrderInv
<1>11. /\ reports'[r] = Append(reports[r], report)
       /\ \A k \in DOMAIN reports[r] : k \in DOMAIN reports'[r] /\ reports'[r][k] = reports[r][k]
       /\ \A k \in DOMAIN reports'[r] : k \in DOMAIN reports[r] \/ reports'[r][k] = report
       /\ \E k \in DOMAIN reports'[r] : reports'[r][k] = report
  <2>1. reports'[r] = Append(reports[r], report)
    BY <1>6
  <2>2. /\ DOMAIN reports'[r] = 1 .. Len(reports[r]) + 1
        /\ reports'[r][Len(reports[r]) + 1] = report
        /\ \A k \in DOMAIN reports[r] : reports'[r][k] = reports[r][k]
    BY <1>5, <2>1
  <2>3. \A k \in 1 .. Len(reports[r]) + 1 :
          k \in 1 .. Len(reports[r]) \/ k = Len(reports[r]) + 1
    BY <1>5
  <2>4. /\ Len(reports[r]) + 1 \in 1 .. Len(reports[r]) + 1
        /\ \A k \in 1 .. Len(reports[r]) : k \in 1 .. Len(reports[r]) + 1
    BY <1>5
  <2> QED BY <1>5, <2>1, <2>2, <2>3, <2>4, Zenon
<1>7. AloneInv' /\ \A q \in Request \ met' : q # r => OwnOf(q)'
  <2>1. "counting" \in Steps \ {"waiting"}
    BY DEF Steps
  <2>2. r \in Advice!Running
    BY <1>1 DEF Advice!Running
  <2> QED BY <1>1, <1>6, <2>1, <2>2, OthersOwn DEF AdviceInv
<1>8. todo[r] = {}
  BY <1>1 DEF OwnInv, OrderInv
<1>9. OrderInv'
  <2>1. reports' \in [Request -> Seq(ReportSet)]
    BY <1>1, <1>5 DEF OwnInv, OrderInv
  <2>2. /\ \A q \in Request : at'[q] \in {"counting", "reporting", "returned"} => todo'[q] = {}
        /\ \A q \in Request : at'[q] = "returned" => merged'[q] = <<>>
        /\ \A q \in Request : at'[q] = "waiting" => reports'[q] = <<>>
    BY <1>1, <1>6, <1>8 DEF OwnInv, OrderInv
  <2>3. ASSUME NEW q \in Request, at'[q] \in Merging \cup {"returned"},
               NEW s \in received[q] \ todo[q]
        PROVE  \/ RecommenderOf[s.recommendation] \in Advice!Range(merged'[q])
               \/ \E k \in DOMAIN reports'[q] :
                    reports'[q][k].id = RecommenderOf[s.recommendation]
    <3>1. at[q] \in Merging \cup {"returned"}
      BY <1>1, <1>6, <2>3 DEF Merging
    <3>2. \/ RecommenderOf[s.recommendation] \in Advice!Range(merged[q])
          \/ \E k \in DOMAIN reports[q] : reports[q][k].id = RecommenderOf[s.recommendation]
      BY <2>3, <3>1 DEF OwnInv, OrderInv
    <3>3. CASE q # r
      BY <1>6, <3>2, <3>3
    <3>4. CASE q = r /\ RecommenderOf[s.recommendation] = id
      BY <1>4, <1>11, <3>4, Zenon
    <3>5. CASE q = r /\ RecommenderOf[s.recommendation] # id
      <4>1. CASE RecommenderOf[s.recommendation] \in Advice!Range(merged[r])
        BY <1>2, <1>6, <3>5, <4>1
      <4>2. CASE \E k \in DOMAIN reports[r] :
                   reports[r][k].id = RecommenderOf[s.recommendation]
        BY <1>11, <3>5, <4>2, Zenon
      <4> QED BY <3>2, <3>5, <4>1, <4>2
    <3> QED BY <3>3, <3>4, <3>5
  <2> QED BY <1>1, <2>1, <2>2, <2>3, ListedStays DEF OrderInv
<1>10. ASSUME r \notin met' PROVE OwnOf(r)'
  <2>1. OwnOf(r) /\ at[r] \in Merging
    BY <1>1, <1>10 DEF OwnInv, Merging
  <2>2. MergedOnce(r)'
    BY <1>1, <2>1 DEF OwnOf, MergedOnce, Done
  <2>3. (StillEmpty(r) /\ LevelTrue(r))'
    BY <1>6 DEF StillEmpty, LevelTrue
  <2>4. IsHighest(report.recommendations, report.primary_priority_level)
    BY <1>1, <1>4, <2>1 DEF OwnOf, LevelTrue
  <2>5. ASSUME NEW i \in Recommendation, RequestOf[i] = r, RecommenderOf[i] = id
        PROVE  Advice!Occurrences(recommender_map[id], i) = Cardinality(HadAt(r, i))
    <3>1. /\ IsFiniteSet(Done(r, i))
          /\ Advice!Occurrences(recommender_map[id], i) = Cardinality(Done(r, i))
      BY <2>1, <2>5 DEF OwnOf, MergedOnce
    <3>2. Done(r, i) = Had(r, i) /\ received[r] \subseteq Advice!Listed(r)
      BY <1>8 DEF Done, Had, AdviceInv, AdviceTypes
    <3> QED BY <2>5, <3>1, <3>2, HadAreLocations
  <2> DEFINE True(x) ==
        /\ IsHighest(x.recommendations, x.primary_priority_level)
        /\ \A i \in Recommendation : RequestOf[i] = r /\ RecommenderOf[i] = x.id =>
             Advice!Occurrences(x.recommendations, i) = Cardinality(HadAt(r, i))
  <2>6. \A k \in DOMAIN reports[r] : True(reports[r][k])
    BY <2>1 DEF OwnOf, ReportsTrue
  <2>7. True(report)
    BY <1>4, <2>4, <2>5
  <2> HIDE DEF True
  <2>8. \A k \in DOMAIN reports'[r] : True(reports'[r][k])
    BY <1>11, <2>6, <2>7, Zenon
  <2>9. ReportsTrue(r)'
    BY <1>1, <2>8, HighestStays, HadStays DEF ReportsTrue, True
  <2> QED BY <2>2, <2>3, <2>9 DEF OwnOf
<1> QED BY <1>7, <1>9, <1>10 DEF OwnInv

LEMMA OwnInvariance ==
  ASSUME Advice!WellTyped
  PROVE  Advice!Spec => []OwnInv
<1>1. OwnInv /\ AdviceInv /\ AdviceInv' /\ [Advice!Next]_(Advice!vars) => OwnInv'
  <2> SUFFICES ASSUME OwnInv, AdviceInv, AdviceInv', [Advice!Next]_(Advice!vars)
               PROVE  OwnInv'
    OBVIOUS
  <2>1. CASE UNCHANGED Advice!vars
    <3>1. UNCHANGED <<content, received, at, todo, merged, recommender_map, primary_priority_level,
                      reports, met>>
      BY <2>1 DEF Advice!vars
    <3>2. AloneInv' /\ OrderInv'
      BY <3>1, ListedStays DEF OwnInv, AloneInv, OrderInv, Advice!Running
    <3>3. ASSUME NEW r \in Request \ met PROVE OwnOf(r)'
      <4>1. OwnOf(r)
        BY DEF OwnInv
      <4>2. StillEmpty(r)'
        BY <3>1, <4>1 DEF OwnOf, StillEmpty, Advice!Id, Advice!Turn
      <4>3. MergedOnce(r)'
        BY <3>1, <4>1 DEF OwnOf, MergedOnce, Done
      <4>4. LevelTrue(r)' /\ ReportsTrue(r)'
        BY <3>1, <4>1, HighestStays, HadStays DEF OwnOf, LevelTrue, ReportsTrue
      <4> QED BY <4>2, <4>3, <4>4 DEF OwnOf
    <3> QED BY <3>1, <3>2, <3>3 DEF OwnInv
  <2>2. ASSUME NEW r \in Request,
               \/ Advice!StartNested(r) \/ Advice!Start(r) \/ Advice!Check(r)
               \/ Advice!Update(r) \/ Advice!AppendAll(r) \/ Advice!Merged(r) \/ Advice!Count(r)
               \/ Advice!Report(r) \/ Advice!Return(r)
        PROVE  OwnInv'
    BY <2>2, NestedOwn, StartOwn, TurnsOwn, MergesOwn, CountOwn, ReportOwn
  <2> QED BY <2>1, <2>2 DEF Advice!Next
<1>2. Advice!Spec => [](AdviceInv /\ Advice!EndedBy)
  BY AdviceInvariance
<1> QED BY <1>1, <1>2, InitOwnInv, PTL DEF Advice!Spec

LEMMA OwnReported ==
  ASSUME Advice!WellTyped, AdviceInv, OwnInv
  PROVE  Advice!ReportsOwn
<1>1. ASSUME NEW r \in Request \ met, at[r] = "returned",
             NEW i \in Recommendation, RequestOf[i] = r,
             Cardinality(HadAt(r, i)) > 0
      PROVE  \E k \in DOMAIN reports[r] : reports[r][k].id = RecommenderOf[i]
  <2>1. Had(r, i) # {}
    <3>1. ASSUME Had(r, i) = {} PROVE FALSE
      <4>1. IsFiniteSet(Had(r, i)) /\ Cardinality(Had(r, i)) = 0
        BY <3>1, FS_EmptySet
      <4>2. Cardinality(HadAt(r, i)) = 0
        BY <1>1, <4>1, HadAreLocations DEF AdviceInv, AdviceTypes
      <4> QED BY <1>1, <4>2
    <3> QED BY <3>1
  <2>2. PICK s \in received[r] : s.recommendation = i
    BY <2>1 DEF Had
  <2>3. todo[r] = {} /\ merged[r] = <<>>
    BY <1>1 DEF OwnInv, OrderInv
  <2>4. Advice!Range(merged[r]) = {}
    BY <2>3 DEF Advice!Range
  <2>5. \/ RecommenderOf[s.recommendation] \in Advice!Range(merged[r])
        \/ \E k \in DOMAIN reports[r] : reports[r][k].id = RecommenderOf[s.recommendation]
    BY <1>1, <2>3 DEF OwnInv, OrderInv
  <2> QED BY <2>2, <2>4, <2>5
<1>2. ASSUME NEW r \in Request \ met, NEW k \in DOMAIN reports[r]
      PROVE  /\ IsHighest(reports[r][k].recommendations, reports[r][k].primary_priority_level)
             /\ \A i \in Recommendation :
                  RequestOf[i] = r /\ RecommenderOf[i] = reports[r][k].id =>
                    Advice!Occurrences(reports[r][k].recommendations, i)
                      = Cardinality(HadAt(r, i))
  BY DEF OwnInv, OwnOf, ReportsTrue
<1>3. ASSUME NEW r \in Request \ met, NEW k \in DOMAIN reports[r]
      PROVE  LET Shown(n) == Advice!Levels[n] \in Advice!LevelsOf(reports[r][k].recommendations)
                 highest == CHOOSE n \in DOMAIN Advice!Levels :
                              Shown(n) /\ \A m \in DOMAIN Advice!Levels : Shown(m) => n <= m
             IN reports[r][k].primary_priority_level = Advice!Levels[highest]
  <2> DEFINE Shown(n) == Advice!Levels[n] \in Advice!LevelsOf(reports[r][k].recommendations)
             Least(n) == Shown(n) /\ \A m \in DOMAIN Advice!Levels : Shown(m) => n <= m
             highest == CHOOSE n \in DOMAIN Advice!Levels : Least(n)
  <2>1. PICK n \in DOMAIN Advice!Levels :
          reports[r][k].primary_priority_level = Advice!Levels[n] /\ Least(n)
    BY <1>2 DEF IsHighest
  <2>2. highest \in DOMAIN Advice!Levels /\ Least(highest)
    BY <2>1, Zenon
  <2>3. highest <= n /\ n <= highest
    BY <2>1, <2>2
  <2> HIDE DEF highest
  <2>4. highest = n
    <3>1. DOMAIN Advice!Levels \subseteq Nat
      <4>1. 1 .. 4 \subseteq Nat
        OBVIOUS
      <4>2. DOMAIN Advice!Levels = 1 .. 4
        BY FourLevels, Zenon
      <4> QED BY <4>1, <4>2, Zenon
    <3>2. \A x, y \in Nat : x <= y /\ y <= x => x = y
      OBVIOUS
    <3>3. highest \in Nat /\ n \in Nat
      BY <2>1, <2>2, <3>1, Zenon
    <3> QED BY <2>3, <3>2, <3>3, Zenon
  <2> USE DEF highest
  <2>5. reports[r][k].primary_priority_level = Advice!Levels[highest]
    BY <2>1, <2>4, Zenon
  <2> QED BY <2>5, Zenon
<1>4. \A r \in Request : \A i :
        {l \in {asset.place : asset \in {a \in Advice!Range(Assets[r]) :
                                          a.collection \in {"locations", "regions"}}} :
           Advice!Covers(l, i) /\ ~Advice!Missed(r, l, i)} = HadAt(r, i)
  BY Zenon DEF HadAt, LocationsOf
<1> SUFFICES ASSUME NEW r \in Request \ met, at[r] = "returned"
             PROVE  /\ \A i \in {j \in Recommendation : RequestOf[j] = r} :
                         LET own == {k \in DOMAIN reports[r] :
                                       reports[r][k].id = RecommenderOf[i]}
                         IN /\ Cardinality(HadAt(r, i)) > 0 => own # {}
                            /\ \A k \in own :
                                 Advice!Occurrences(reports[r][k].recommendations, i)
                                   = Cardinality(HadAt(r, i))
  BY <1>3, <1>4, SameCardinality, Zenon DEF Advice!ReportsOwn, HadAt, LocationsOf
<1> QED BY <1>1, <1>2

-----------------------------------------------------------------------------
\* The managers together: one that is given work takes its own steps and no
\* other, since the others leave its variables as they are.

WorksSQL == "sql" \in working

LEMMA SQLAlone == Spec => SQL!Spec \/ []~WorksSQL
<1>1. Init /\ WorksSQL => SQL!Init
  BY DEF Init, WorksSQL
<1>2. WorksSQL /\ [Next]_vars => WorksSQL' /\ [SQL!Next]_(SQL!vars)
  BY DEF Next, vars, WorksSQL, sqlVars, SQL!vars
<1>3. ~WorksSQL /\ [Next]_vars => ~WorksSQL'
  BY DEF Next, vars, WorksSQL
<1> QED BY <1>1, <1>2, <1>3, PTL DEF Spec, SQL!Spec

WorksStorage == "storage" \in working

LEMMA StorageAlone == Spec => Storage!Spec \/ []~WorksStorage
<1>1. Init /\ WorksStorage => Storage!Init
  BY DEF Init, WorksStorage
<1>2. WorksStorage /\ [Next]_vars => WorksStorage' /\ [Storage!Next]_(Storage!vars)
  BY DEF Next, vars, WorksStorage, bucketVars, Storage!vars, Storage!projectVars
<1>3. ~WorksStorage /\ [Next]_vars => ~WorksStorage'
  BY DEF Next, vars, WorksStorage
<1> QED BY <1>1, <1>2, <1>3, PTL DEF Spec, Storage!Spec

WorksTopics == "topics" \in working

LEMMA TopicsAlone == Spec => Topics!Spec \/ []~WorksTopics
<1>1. Init /\ WorksTopics => Topics!Init
  BY DEF Init, WorksTopics
<1>2. WorksTopics /\ [Next]_vars => WorksTopics' /\ [Topics!Next]_(Topics!vars)
  BY DEF Next, vars, WorksTopics, topicVars, Topics!vars, Topics!projectVars, Topics!work
<1>3. ~WorksTopics /\ [Next]_vars => ~WorksTopics'
  BY DEF Next, vars, WorksTopics
<1> QED BY <1>1, <1>2, <1>3, PTL DEF Spec, Topics!Spec

WorksSubscriptions == "subscriptions" \in working

LEMMA SubscriptionsAlone == Spec => Subscriptions!Spec \/ []~WorksSubscriptions
<1>1. Init /\ WorksSubscriptions => Subscriptions!Init
  BY DEF Init, WorksSubscriptions
<1>2. WorksSubscriptions /\ [Next]_vars =>
        WorksSubscriptions' /\ [Subscriptions!Next]_(Subscriptions!vars)
  BY DEF Next, vars, WorksSubscriptions, subscriptionVars, Subscriptions!vars
<1>3. ~WorksSubscriptions /\ [Next]_vars => ~WorksSubscriptions'
  BY DEF Next, vars, WorksSubscriptions
<1> QED BY <1>1, <1>2, <1>3, PTL DEF Spec, Subscriptions!Spec

WorksCloudFunctionsOf == "functions" \in working

LEMMA CloudFunctionsOfAlone == Spec => CloudFunctionsOf!Spec \/ []~WorksCloudFunctionsOf
<1>1. Init /\ WorksCloudFunctionsOf => CloudFunctionsOf!Init
  BY DEF Init, WorksCloudFunctionsOf
<1>2. WorksCloudFunctionsOf /\ [Next]_vars =>
        WorksCloudFunctionsOf' /\ [CloudFunctionsOf!Next]_(CloudFunctionsOf!vars)
  BY DEF Next, vars, WorksCloudFunctionsOf, functionVars, CloudFunctionsOf!vars
<1>3. ~WorksCloudFunctionsOf /\ [Next]_vars => ~WorksCloudFunctionsOf'
  BY DEF Next, vars, WorksCloudFunctionsOf
<1> QED BY <1>1, <1>2, <1>3, PTL DEF Spec, CloudFunctionsOf!Spec

WorksAdvice == "advice" \in working

LEMMA AdviceAlone == Spec => Advice!Spec \/ []~WorksAdvice
<1>1. Init /\ WorksAdvice => Advice!Init
  BY DEF Init, WorksAdvice
<1>2. WorksAdvice /\ [Next]_vars => WorksAdvice' /\ [Advice!Next]_(Advice!vars)
  BY DEF Next, vars, WorksAdvice, recommendationVars, Advice!vars
<1>3. ~WorksAdvice /\ [Next]_vars => ~WorksAdvice'
  BY DEF Next, vars, WorksAdvice
<1> QED BY <1>1, <1>2, <1>3, PTL DEF Spec, Advice!Spec

\* Whatever happens to the database instances meanwhile: one becomes an error
\* response only if its life went on after it was listed, and is otherwise
\* shown as what it is, with its databases exactly if it runs.
THEOREM Databases == Spec => []FailsOnlyByChange
<1>1. SQL!Spec => []SQL!FailsOnlyByChange
  BY FailuresAreChanges
<1>2. (WorksSQL => SQL!FailsOnlyByChange) => FailsOnlyByChange
  BY DEF WorksSQL, FailsOnlyByChange
<1> QED BY <1>1, <1>2, SQLAlone, PTL

\* A bucket is shown with a public access it had while the project was being
\* listed, unless the project changed more than once, and fails only if it was
\* deleted, its payer changed or its region is not known.
THEOREM StorageBuckets == Spec => []BucketsShown
<1>1. Storage!Spec => [](Storage!AccessOnceTrue /\ Storage!BucketsThatFail)
  BY BucketsTrue, LocationAssumption
<1>2. (WorksStorage => Storage!AccessOnceTrue /\ Storage!BucketsThatFail) => BucketsShown
  BY DEF WorksStorage, BucketsShown
<1> QED BY <1>1, <1>2, StorageAlone, PTL

\* A topic is shown with what is attached to it all the time, but for names of
\* earlier pages, and with nothing that never is; it fails only if it or
\* something attached to it came or went, or for the fraction of its retention.
\* Subscriptions are shown as they were listed, and a duration by its largest
\* units, to less than the smallest of them; just those with a fractional
\* duration fail.
THEOREM PubSub == Spec => []PubSubShown
<1>1. Topics!Spec => []Topics!TopicsComplete
  BY TopicsReported
<1>2. Subscriptions!Spec => []Subscriptions!RetentionShown
  BY RetentionTrue, SecondsAssumption
<1>3. /\ WorksTopics => Topics!TopicsComplete
      /\ WorksSubscriptions => Subscriptions!RetentionShown
      => PubSubShown
  BY DEF WorksTopics, WorksSubscriptions, PubSubShown
<1> QED BY <1>1, <1>2, <1>3, TopicsAlone, SubscriptionsAlone, PTL

\* In whatever order Eventarc lists the locations of its providers, the one
\* shown for an event offers it somewhere, and one that offers it under a name
\* everywhere is found.
THEOREM Providers == Spec => []ProviderOffersEvent
<1>1. CloudFunctionsOf!Spec => []CloudFunctionsOf!ProviderOffersEvent
  BY ProvidersTrue, NamesAssumption
<1>2. (WorksCloudFunctionsOf => CloudFunctionsOf!ProviderOffersEvent) => ProviderOffersEvent
  BY DEF WorksCloudFunctionsOf, ProviderOffersEvent
<1> QED BY <1>1, <1>2, CloudFunctionsOfAlone, PTL

\* A recommender's manager is ended by the name of an asset, by a recommendation
\* of its own that cannot be read, or because any request has so far received,
\* of a recommender that it received something of, a recommendation without a
\* priority, or one without a cost beside one about costs, in whatever order
\* requests take their turns.
THEOREM Endings == Spec => []EndedBy
<1>1. Advice!Spec => [](AdviceInv /\ Advice!EndedBy)
  BY AdviceInvariance, AdviceAssumption
<1>2. (WorksAdvice => AdviceInv /\ Advice!EndedBy) => EndedBy
  BY DEF WorksAdvice, EndedBy
<1> QED BY <1>1, <1>2, AdviceAlone, PTL

\* A request that is at work while no other is reports each of its
\* recommendations, in every report of the recommender, once for every location
\* that covers it and did not have it on an earlier page, at the level of the
\* highest in the report.  What others have left in the map, and what others do
\* before and after, does not change it.
THEOREM Reports == Spec => []ReportsOwn
<1>1. Advice!Spec => [](AdviceInv /\ Advice!EndedBy)
  BY AdviceInvariance, AdviceAssumption
<1>2. Advice!Spec => []OwnInv
  BY OwnInvariance, AdviceAssumption
<1>3. AdviceInv /\ OwnInv => Advice!ReportsOwn
  BY OwnReported, AdviceAssumption
<1>4. (WorksAdvice => Advice!ReportsOwn) => ReportsOwn
  BY DEF WorksAdvice, ReportsOwn
<1> QED BY <1>1, <1>2, <1>3, <1>4, AdviceAlone, PTL

\* No manager is ever in a state it has no name for: it reports only what was
\* listed, nothing both as collected and as failed, and is at most at one item;
\* the map of providers has each name once; a request that merges has something
\* left to merge.
THEOREM TypesCorrect == Spec => []TypeOK
<1>1. Spec => [](WorksSQL => SQL!TypeOK)
  <2>1. SQL!Spec => []SQL!TypeOK
    BY SQLTyped, BoundsAssumption
  <2> QED BY <2>1, SQLAlone, PTL
<1>2. Spec => [](WorksStorage => Storage!TypeOK)
  <2>1. Storage!Spec => []Storage!TypeOK
    BY BucketsTyped, BoundsAssumption, LocationAssumption
  <2> QED BY <2>1, StorageAlone, PTL
<1>3. Spec => [](WorksTopics => Topics!TypeOK)
  <2>1. Topics!Spec => []Topics!TypeOK
    BY TopicsTyped, BoundsAssumption
  <2> QED BY <2>1, TopicsAlone, PTL
<1>4. Spec => [](WorksSubscriptions => Subscriptions!TypeOK)
  BY SubscriptionsTyped, SubscriptionsAlone, PTL
<1>5. Spec => [](WorksCloudFunctionsOf => CloudFunctionsOf!TypeOK)
  <2>1. CloudFunctionsOf!Spec => []CloudFunctionsOf!TypeOK
    BY FunctionsTyped, NamesAssumption
  <2> QED BY <2>1, CloudFunctionsOfAlone, PTL
<1>6. Spec => [](WorksAdvice => Advice!TypeOK)
  <2>1. Advice!Spec => [](AdviceInv /\ Advice!EndedBy)
    BY AdviceInvariance, AdviceAssumption
  <2>2. AdviceInv => Advice!TypeOK
    BY DEF AdviceInv, AdviceTypes, Steps, Advice!TypeOK
  <2> QED BY <2>1, <2>2, AdviceAlone, PTL
<1>7. /\ WorksSQL => SQL!TypeOK
      /\ WorksStorage => Storage!TypeOK
      /\ WorksTopics => Topics!TypeOK
      /\ WorksSubscriptions => Subscriptions!TypeOK
      /\ WorksCloudFunctionsOf => CloudFunctionsOf!TypeOK
      /\ WorksAdvice => Advice!TypeOK
      => TypeOK
  BY DEF TypeOK, WorksSQL, WorksStorage, WorksTopics, WorksSubscriptions,
         WorksCloudFunctionsOf, WorksAdvice
<1> QED BY <1>1, <1>2, <1>3, <1>4, <1>5, <1>6, <1>7, PTL

=============================================================================
