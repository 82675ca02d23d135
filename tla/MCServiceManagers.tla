-------------------------- MODULE MCServiceManagers --------------------------
(***************************************************************************)
(* One of the managers at a time.  Of the recommender's requests two have  *)
(* recommendations of a recommender that is also asked for zones; one of   *)
(* them has assets in two of the zones.  The third has an asset of a name  *)
(* that raises.  Recommendations are of two priorities or none, about      *)
(* costs or not, with a cost or without, or unreadable.                    *)
(***************************************************************************)
EXTENDS ServiceManagers, TLC

CONSTANTS i1, i2, b1, b2, t1, t2, sub1, sub2, snap, f1,
          q1, q2, q3, idle, sec, rec1, rec2, rec3

OneAtATime == {{"sql"}, {"storage"}, {"topics"}, {"subscriptions"},
               {"functions"}, {"advice"}}

BucketLocation ==
  b1 :> [type |-> "multi-region", code |-> "us"] @@
  b2 :> [type |-> "region", code |-> "northamerica-south1"]

TopicOfEach == sub1 :> t1 @@ sub2 :> t2 @@ snap :> t1

Region == [region |-> "us-central1", zone |-> ""]

In(zone) == [Region EXCEPT !.zone = zone]

Says(priority, category, cost) ==
  [priority |-> priority, readable |-> TRUE, category |-> category, cost |-> cost]

Contents ==
  {Says("P1", "COST", TRUE), Says("P3", "COST", FALSE),
   Says("P3", "SECURITY", FALSE), Says("none", "SECURITY", TRUE),
   [Says("P1", "COST", TRUE) EXCEPT !.readable = FALSE]}

AskedRecommenders == <<sec, idle>>

RequestOfEach == rec1 :> q1 @@ rec2 :> q1 @@ rec3 :> q2

RecommenderOfEach == rec1 :> idle @@ rec2 :> idle @@ rec3 :> idle

PlaceOfEach == rec1 :> In("b") @@ rec2 :> Region @@ rec3 :> Region

Asset(collection, place) == [collection |-> collection, place |-> place]

AssetsOfEach ==
  q1 :> <<Asset("regions", Region), Asset("locations", Region),
          Asset("locations", In("f"))>> @@
  q2 :> <<Asset("locations", In("a")), Asset("subnetworks", Region),
          Asset("locations", In("b"))>> @@
  q3 :> <<Asset("nested", Region)>>

=============================================================================
