SPECIFICATION Spec
CONSTANTS
  AtWork <- OneAtATime
  i1 = i1  i2 = i2  Instance = {i1, i2}  MaxSteps = 2
  b1 = b1  b2 = b2  Bucket = {b1, b2}  Location <- BucketLocation
  KnownRegion = {"us-central1"}  MaxBucketChanges = 2
  t1 = t1  t2 = t2  Topic = {t1, t2}  sub1 = sub1  sub2 = sub2
  Subscription = {sub1, sub2}  snap = snap  Snapshot = {snap}
  TopicOf <- TopicOfEach  MaxChanges = 2
  ShownSubscription = {sub1}
  \* Both sides of every unit, and the longest and shortest that are allowed.
  Seconds = {0, 1, 59, 60, 61, 600, 3599, 3600, 3661, 86399, 86400, 86401,
             90000, 90061, 604800, 2678399, 2678400}
  DisplayName = {"Cloud Pub/Sub", "Cloud Storage"}  EventType = {"e1", "e2"}
  f1 = f1  Function = {f1}  KnownService = {"pubsub"}
  OtherService = {"firebase"}  MaxProviders = 3
  q1 = q1  q2 = q2  q3 = q3  Request = {q1, q2, q3}
  rec1 = rec1  rec2 = rec2  rec3 = rec3  Recommendation = {rec1, rec2, rec3}
  idle = idle  sec = sec  Recommenders <- AskedRecommenders
  COST_RECOMMENDER_IDS = {idle}  REGION_INFO = {"us-central1"}
  RequestOf <- RequestOfEach  RecommenderOf <- RecommenderOfEach
  Place <- PlaceOfEach  Assets <- AssetsOfEach  Content <- Contents
INVARIANTS
  TypeOK
  FailsOnlyByChange
  BucketsShown
  PubSubShown
  ProviderOffersEvent
  ReportsOwn
  EndedBy
\* A collection of one manager comes to an end.
CHECK_DEADLOCK FALSE
