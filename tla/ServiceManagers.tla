-------------------------- MODULE ServiceManagers --------------------------
(***************************************************************************)
(* The managers of Cloud SQL, Cloud Storage, Pub/Sub, Cloud Functions and  *)
(* the recommender, composed as in NetworkingManagers.                     *)
(***************************************************************************)
EXTENDS Naturals, Sequences, FiniteSets

CONSTANTS
  AtWork,    \* the sets of managers that may be given work
  \* CloudSQLManager
  Instance, MaxSteps,
  \* StorageManager
  Bucket, Location, KnownRegion, MaxBucketChanges,
  \* TopicManager
  Topic, Subscription, Snapshot, TopicOf, MaxChanges,
  \* SubscriptionManager
  ShownSubscription, Seconds,
  \* FunctionGen1Manager, FunctionGen2Manager
  DisplayName, EventType, Function, KnownService, OtherService, MaxProviders,
  \* RecommendationManager
  Request, Recommendation, Recommenders, COST_RECOMMENDER_IDS, REGION_INFO,
  RequestOf, RecommenderOf, Place, Assets, Content

VARIABLE working    \* the managers that are given work

VARIABLES life, steps, listed, asked, sql_collected, sql_errors, changed

sqlVars == <<life, steps, listed, asked, sql_collected, sql_errors, changed>>

VARIABLES stored, stored_changes, stored_lasting, stored_ever, buckets,
          bucket_collected, bucket_errors, accesses

bucketVars == <<stored, stored_changes, stored_lasting, stored_ever, buckets,
                bucket_collected, bucket_errors, accesses>>

VARIABLES project, changes, lasting, ever, fractional, missed, phase, left,
          topic, names, parts, collected, errors

topicVars == <<project, changes, lasting, ever, fractional, missed, phase, left,
               topic, names, parts, collected, errors>>

VARIABLES subscriptions, sub_left, sub_collected, sub_errors

subscriptionVars == <<subscriptions, sub_left, sub_collected, sub_errors>>

VARIABLES providers, position, trigger_provider_map, functions, fun_left,
          fun_collected, fun_errors

functionVars == <<providers, position, trigger_provider_map, functions,
                  fun_left, fun_collected, fun_errors>>

VARIABLES content, received, at, todo, merged, recommender_map,
          primary_priority_level, reports, met

recommendationVars == <<content, received, at, todo, merged, recommender_map,
                        primary_priority_level, reports, met>>

vars == <<working, sqlVars, bucketVars, topicVars, subscriptionVars,
          functionVars, recommendationVars>>

SQL == INSTANCE SQLInstances WITH
  collected <- sql_collected, errors <- sql_errors

Storage == INSTANCE Buckets WITH
  MaxChanges <- MaxBucketChanges, project <- stored, changes <- stored_changes,
  lasting <- stored_lasting, ever <- stored_ever,
  collected <- bucket_collected, errors <- bucket_errors

Topics == INSTANCE PubSubTopics

Subscriptions == INSTANCE PubSubSubscriptions WITH
  Subscription <- ShownSubscription, left <- sub_left,
  collected <- sub_collected, errors <- sub_errors

CloudFunctionsOf == INSTANCE CloudFunctions WITH
  at <- position, left <- fun_left, collected <- fun_collected,
  errors <- fun_errors

Advice == INSTANCE Recommendations

ASSUME LocationAssumption == Storage!LocationsTyped

ASSUME SecondsAssumption == Seconds \subseteq Nat

ASSUME NamesAssumption == CloudFunctionsOf!NamesTyped

ASSUME AdviceAssumption == Advice!WellTyped

ASSUME BoundsAssumption == {MaxSteps, MaxBucketChanges, MaxChanges} \subseteq Nat

-----------------------------------------------------------------------------
SQLUnused ==
  /\ life = <<>> /\ steps = 0 /\ listed = <<>> /\ asked = {}
  /\ sql_collected = <<>> /\ sql_errors = {} /\ changed = {}

StorageUnused ==
  /\ stored = {} /\ stored_changes = 0 /\ stored_lasting = {}
  /\ stored_ever = {} /\ buckets = <<>> /\ bucket_collected = <<>>
  /\ bucket_errors = {} /\ accesses = <<>>

TopicsUnused ==
  /\ project = {} /\ changes = 0 /\ lasting = {} /\ ever = {}
  /\ fractional = {} /\ missed = {} /\ phase = <<>>
  /\ left = {} /\ topic = {} /\ names = {} /\ parts = {} /\ collected = <<>>
  /\ errors = {}

SubscriptionsUnused ==
  /\ subscriptions = <<>> /\ sub_left = {} /\ sub_collected = <<>>
  /\ sub_errors = {}

FunctionsUnused ==
  /\ providers = <<>> /\ position = 0 /\ trigger_provider_map = <<>>
  /\ functions = <<>> /\ fun_left = {} /\ fun_collected = <<>>
  /\ fun_errors = {}

AdviceUnused ==
  /\ content = <<>> /\ received = <<>> /\ at = <<>> /\ todo = <<>>
  /\ merged = <<>> /\ recommender_map = <<>> /\ primary_priority_level = <<>>
  /\ reports = <<>> /\ met = {}

Init ==
  /\ working \in AtWork
  /\ IF "sql" \in working THEN SQL!Init ELSE SQLUnused
  /\ IF "storage" \in working THEN Storage!Init ELSE StorageUnused
  /\ IF "topics" \in working THEN Topics!Init ELSE TopicsUnused
  /\ IF "subscriptions" \in working THEN Subscriptions!Init
                                    ELSE SubscriptionsUnused
  /\ IF "functions" \in working THEN CloudFunctionsOf!Init ELSE FunctionsUnused
  /\ IF "advice" \in working THEN Advice!Init ELSE AdviceUnused

Next ==
  /\ UNCHANGED working
  /\ \/ /\ "sql" \in working /\ SQL!Next
        /\ UNCHANGED <<bucketVars, topicVars, subscriptionVars, functionVars,
                       recommendationVars>>
     \/ /\ "storage" \in working /\ Storage!Next
        /\ UNCHANGED <<sqlVars, topicVars, subscriptionVars, functionVars,
                       recommendationVars>>
     \/ /\ "topics" \in working /\ Topics!Next
        /\ UNCHANGED <<sqlVars, bucketVars, subscriptionVars, functionVars,
                       recommendationVars>>
     \/ /\ "subscriptions" \in working /\ Subscriptions!Next
        /\ UNCHANGED <<sqlVars, bucketVars, topicVars, functionVars,
                       recommendationVars>>
     \/ /\ "functions" \in working /\ CloudFunctionsOf!Next
        /\ UNCHANGED <<sqlVars, bucketVars, topicVars, subscriptionVars,
                       recommendationVars>>
     \/ /\ "advice" \in working /\ Advice!Next
        /\ UNCHANGED <<sqlVars, bucketVars, topicVars, subscriptionVars,
                       functionVars>>

Spec == Init /\ [][Next]_vars

-----------------------------------------------------------------------------
\* The types of the managers.
TypeOK ==
  /\ "sql" \in working => SQL!TypeOK
  /\ "storage" \in working => Storage!TypeOK
  /\ "topics" \in working => Topics!TypeOK
  /\ "subscriptions" \in working => Subscriptions!TypeOK
  /\ "functions" \in working => CloudFunctionsOf!TypeOK
  /\ "advice" \in working => Advice!TypeOK

\* When a database instance fails, and what it is shown with if it does not.
FailsOnlyByChange == "sql" \in working => SQL!FailsOnlyByChange

\* Whether a bucket is shown to be public, and when it fails.
BucketsShown ==
  "storage" \in working => Storage!AccessOnceTrue /\ Storage!BucketsThatFail

\* What topics and subscriptions are shown with, and when they fail.
PubSubShown ==
  /\ "topics" \in working => Topics!TopicsComplete
  /\ "subscriptions" \in working => Subscriptions!RetentionShown

\* The provider a function's event is said to come from.
ProviderOffersEvent ==
  "functions" \in working => CloudFunctionsOf!ProviderOffersEvent

\* What a request is shown of a recommender, and what ends its manager.
ReportsOwn == "advice" \in working => Advice!ReportsOwn

EndedBy == "advice" \in working => Advice!EndedBy

=============================================================================
