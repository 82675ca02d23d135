--------------------------- MODULE Recommendations ---------------------------
(***************************************************************************)
(* RecommendationManager (manager/recommender).  From the locations of a   *)
(* project's assets it makes the parents to list recommendations of, and   *)
(* merges the recommendations of a recommender into one report.            *)
(*                                                                         *)
(* They are merged into RECOMMENDATION_MAP, a dictionary of the module     *)
(* that nobody clears: a request finds there what earlier requests put     *)
(* in it, and requests at the same time write to it in turns.  Each step   *)
(* below is a piece of the code after which another thread may run.        *)
(***************************************************************************)
EXTENDS Naturals, Sequences, FiniteSetsExt, Functions

CONSTANTS
  Request, Recommendation,
  Recommenders,         \* the keys of RECOMMENDATION_MAP, in their order
  COST_RECOMMENDER_IDS,
  REGION_INFO,          \* the regions it has
  RequestOf, RecommenderOf,
  Place,                \* recommendation -> [region, zone], zone "" for none
  Assets,               \* request -> its assets: [collection, place], a list
  Content               \* what recommendations say: [priority, readable, category,
                        \* cost], the last whether it has a costProjection

VARIABLES
  content,     \* recommendation -> what it says
  received,    \* what each request has listed, with the parent it is of
  at,          \* the step of each request
  todo,        \* recommenders, one per recommendation, still to be merged
  merged,      \* merged_recommenders: keys of the map, still to be reported
  recommender_map,  \* recommendations per recommender, <<>> if none were ever
  primary_priority_level,  \* also in the map
  reports,     \* collected_cloud_services
  met          \* history: requests that were not alone all the time

vars == <<content, received, at, todo, merged, recommender_map,
          primary_priority_level, reports, met>>

-----------------------------------------------------------------------------
Zones == {"a", "b", "c"}
ZoneOrder == <<"", "a", "b", "c">>
Recommender == Range(Recommenders)
Levels == <<"Highest", "Second Highest", "Second Lowest", "Lowest">>

\* What the constants are: each recommendation is one of a recommender that is
\* asked for, in a place; each of these is asked once.
WellTyped ==
  /\ RequestOf \in [Recommendation -> Request]
  /\ RecommenderOf \in [Recommendation -> Recommender]
  /\ Recommenders \in Seq(Recommender)
  /\ \A j, k \in DOMAIN Recommenders : Recommenders[j] = Recommenders[k] => j = k
  /\ \A i \in Recommendation :
       Place[i] = [region |-> Place[i].region, zone |-> Place[i].zone]
  /\ \A r \in Request : DOMAIN Assets[r] \subseteq Nat

\* Mutant of convert_readable_priority: an if instead of an elif.
convert_priority_again(p) ==
  CASE p = "P1" -> "Highest" [] p = "P4" -> "Lowest" [] OTHER -> "Unspecified"

convert_readable_priority(p) ==
  CASE p = "P1" -> "Highest" [] p = "P2" -> "Second Highest"
    [] p = "P3" -> "Second Lowest" [] p = "P4" -> "Lowest"
    [] OTHER -> "Unspecified"

\* An asset is in the collection "locations", "regions", "subnetworks" of a
\* region, or "zones" in its name; "nested" if neither the name's "locations/"
\* nor its "regions/" takes it apart in two, with a "/" after the location.
Located(asset) == asset.collection \in {"locations", "regions"}

\* The positions of the assets from which a location is taken: it is taken
\* once.
_create_target_locations(assets) ==
  {k \in DOMAIN assets :
     /\ Located(assets[k])
     /\ \A j \in DOMAIN assets :
          Located(assets[j]) /\ assets[j].place = assets[k].place => k <= j}

\* A zone a, b or c stands for its region; other zones for nothing.
StandsForRegion(place) ==
  place.zone \in Zones \/ (place.zone = "" /\ place.region \in REGION_INFO)

\* Mutant of _select_available_locations: a region comes up once.
select_locations_once(assets) ==
  LET locations == {k \in _create_target_locations(assets) :
                      StandsForRegion(assets[k].place)}
  IN {k \in locations : \A j \in locations :
        assets[j].place.region = assets[k].place.region => k <= j}

_select_available_locations(assets) ==
  {k \in _create_target_locations(assets) : StandsForRegion(assets[k].place)}

\* Some recommenders are asked for the zones of a region too.
ZonesAsked(region, id) ==
  IF id \in COST_RECOMMENDER_IDS /\ region # "global" THEN DOMAIN ZoneOrder ELSE {1}

\* <<k, j, z>>: the region of location k, or a zone of it, for recommender j.
_create_recommendation_parents(assets) ==
  {p \in _select_available_locations(assets) \X (DOMAIN Recommenders)
           \X (DOMAIN ZoneOrder) :
     p[3] \in ZonesAsked(assets[p[1]].place.region, Recommenders[p[2]])}

\* The order of the three loops.
Before(p, q) ==
  \/ p[1] < q[1]
  \/ p[1] = q[1] /\ p[2] < q[2]
  \/ p[1] = q[1] /\ p[2] = q[2] /\ p[3] < q[3]

list_recommendations(r, p) ==
  {i \in Recommendation :
     /\ RequestOf[i] = r /\ RecommenderOf[i] = Recommenders[p[2]]
     /\ Place[i] = [region |-> Assets[r][p[1]].place.region, zone |-> ZoneOrder[p[3]]]}

\* What there is to list, with the parent it is listed for.  Of each of these
\* that is received _create_recommenders makes one recommender.
Listed(r) ==
  {s \in [parent : _create_recommendation_parents(Assets[r]),
          recommendation : Recommendation] :
     s.recommendation \in list_recommendations(r, s.parent)}

\* What the first loop makes of a recommendation: its name, resource, cost,
\* insights and actions are taken apart and put together for display.
Reads(i) == content[i].readable

Init ==
  /\ content \in [Recommendation -> Content]
  /\ received = [r \in Request |-> {}]
  /\ at = [r \in Request |-> "waiting"]
  /\ todo = [r \in Request |-> {}] /\ merged = [r \in Request |-> <<>>]
  /\ recommender_map = [id \in Recommender |-> <<>>]
  /\ primary_priority_level = [id \in Recommender |-> "none"]
  /\ reports = [r \in Request |-> <<>>]
  /\ met = {}

Running == {q \in Request : at[q] \notin {"waiting", "returned", "raised"}}

Nested(r) == \E asset \in Range(Assets[r]) : asset.collection = "nested"

\* _create_target_locations raises, outside of every try.
StartNested(r) ==
  /\ at[r] = "waiting" /\ Nested(r)
  /\ at' = [at EXCEPT ![r] = "raised"]
  /\ UNCHANGED <<content, received, todo, merged, recommender_map,
                 primary_priority_level, reports, met>>

\* The listings and the first loop.  Each page of a listing replaces the one
\* before: of what there is in a parent the last page has some part, or all.
\* The except clause of both loops makes an error response with a dictionary
\* for an id, which raises in turn: one recommendation that cannot be read ends
\* the manager.
Start(r) ==
  /\ at[r] = "waiting" /\ ~Nested(r)
  /\ \E pages \in SUBSET Listed(r) :
       /\ received' = [received EXCEPT ![r] = pages]
       /\ todo' = [todo EXCEPT ![r] = pages]
       /\ at' = [at EXCEPT ![r] = IF \A s \in pages : Reads(s.recommendation)
                                  THEN "checking" ELSE "raised"]
  /\ met' = IF Running = {} THEN met ELSE met \cup Running \cup {r}
  /\ UNCHANGED <<content, merged, recommender_map, primary_priority_level, reports>>

\* The recommender that is merged next: those of one parent come in an order
\* of the API's.
Turn(r) == CHOOSE s \in todo[r] : \A t \in todo[r] : ~Before(t.parent, s.parent)

Id(r) == RecommenderOf[Turn(r).recommendation]

\* if "recommendations" not in self.recommender_map[recommender_id]
Check(r) ==
  /\ at[r] = "checking" /\ todo[r] # {}
  /\ at' = [at EXCEPT ![r] = IF recommender_map[Id(r)] = <<>>
                             THEN "updating" ELSE "appending"]
  /\ UNCHANGED <<content, received, todo, merged, recommender_map,
                 primary_priority_level, reports, met>>

Merge(r, recommendations) ==
  /\ recommender_map' = [recommender_map EXCEPT ![Id(r)] = recommendations]
  /\ merged' = [merged EXCEPT ![r] = Append(@, Id(r))]
  /\ todo' = [todo EXCEPT ![r] = @ \ {Turn(r)}]
  /\ at' = [at EXCEPT ![r] = "checking"]
  /\ UNCHANGED <<content, received, primary_priority_level, reports, met>>

\* What another request has put there since the check is replaced.
Update(r) == at[r] = "updating" /\ Merge(r, <<Turn(r).recommendation>>)

AppendAll(r) ==
  /\ at[r] = "appending"
  /\ Merge(r, Append(recommender_map[Id(r)], Turn(r).recommendation))

Merged(r) ==
  /\ at[r] = "checking" /\ todo[r] = {}
  /\ at' = [at EXCEPT ![r] = "counting"]
  /\ UNCHANGED <<content, received, todo, merged, recommender_map,
                 primary_priority_level, reports, met>>

LevelsOf(recommendations) ==
  {convert_readable_priority(content[i].priority) : i \in Range(recommendations)}

_get_state_and_priority(recommendations) ==
  Levels[Min({n \in DOMAIN Levels : Levels[n] \in LevelsOf(recommendations)})]

\* total_cost += recommendation.get("cost", 0): the key is there, and its value
\* None without a costProjection, which raises.  The category of a recommender
\* is that of the recommendation its entry was made of, the first.
CostsAdd(recommendations) ==
  content[Head(recommendations)].category = "COST" =>
    \A i \in Range(recommendations) : content[i].cost

\* A level that is not one of the four raises.
LevelsCount(recommendations) == LevelsOf(recommendations) \subseteq Range(Levels)

\* The sums and counts of a recommender and what they say, written to the map.
Count(r) ==
  /\ at[r] = "counting" /\ merged[r] # <<>>
  /\ LET id == Head(merged[r])
         counted == CostsAdd(recommender_map[id]) /\ LevelsCount(recommender_map[id])
     IN /\ at' = [at EXCEPT ![r] = IF counted THEN "reporting" ELSE "raised"]
        /\ primary_priority_level' =
             IF counted
             THEN [primary_priority_level EXCEPT
                     ![id] = _get_state_and_priority(recommender_map[id])]
             ELSE primary_priority_level
  /\ UNCHANGED <<content, received, todo, merged, recommender_map, reports, met>>

\* Recommender(recommender) copies the entry of the map, as it is by now.
Report(r) ==
  /\ at[r] = "reporting"
  /\ LET id == Head(merged[r])
     IN reports' = [reports EXCEPT ![r] = Append(@,
          [id |-> id, recommendations |-> recommender_map[id],
           primary_priority_level |-> primary_priority_level[id]])]
  /\ merged' = [merged EXCEPT ![r] = Tail(@)]
  /\ at' = [at EXCEPT ![r] = "counting"]
  /\ UNCHANGED <<content, received, todo, recommender_map,
                 primary_priority_level, met>>

Return(r) ==
  /\ at[r] = "counting" /\ merged[r] = <<>>
  /\ at' = [at EXCEPT ![r] = "returned"]
  /\ UNCHANGED <<content, received, todo, merged, recommender_map,
                 primary_priority_level, reports, met>>

Next ==
  \E r \in Request : StartNested(r) \/ Start(r) \/ Check(r) \/ Update(r)
                     \/ AppendAll(r) \/ Merged(r) \/ Count(r) \/ Report(r) \/ Return(r)

Spec == Init /\ [][Next]_vars

-----------------------------------------------------------------------------
TypeOK ==
  /\ at \in [Request -> {"waiting", "checking", "updating", "appending",
                         "counting", "reporting", "returned", "raised"}]
  /\ \A r \in Request : todo[r] \subseteq received[r] /\ received[r] \subseteq Listed(r)
  /\ merged \in [Request -> Seq(Recommender)]
  /\ recommender_map \in [Recommender -> Seq(Recommendation)]
  /\ primary_priority_level \in [Recommender -> {"none"} \cup Range(Levels)]

\* Where a recommender is asked for the recommendations of a region.
Covers(l, i) ==
  /\ l.region = Place[i].region
  /\ l.zone \in Zones \/ (l.zone = "" /\ l.region \in REGION_INFO)
  /\ \/ Place[i].zone = ""
     \/ /\ Place[i].zone \in Zones /\ l.region # "global"
        /\ RecommenderOf[i] \in COST_RECOMMENDER_IDS

Occurrences(seq, i) == Cardinality({k \in DOMAIN seq : seq[k] = i})

\* An earlier page of the listings for a location had the recommendation.
Missed(r, l, i) ==
  \E s \in Listed(r) \ received[r] :
    s.recommendation = i /\ Assets[r][s.parent[1]].place = l

\* A request that met no other reports each of its recommendations, and all of
\* them in every report of the recommender: once for every location among its
\* assets that stands for the region, unless the page that had it there was not
\* the last.  The priority of a report is the highest of its recommendations',
\* those left by earlier requests included.  If two requests meet, one may
\* replace in the map what the other has just put there.
ReportsOwn ==
  \A r \in Request \ met : at[r] = "returned" =>
    /\ \A i \in {j \in Recommendation : RequestOf[j] = r} :
         LET located == {asset.place : asset \in {a \in Range(Assets[r]) :
                          a.collection \in {"locations", "regions"}}}
             locations == Cardinality({l \in located :
                                         Covers(l, i) /\ ~Missed(r, l, i)})
             own == {k \in DOMAIN reports[r] : reports[r][k].id = RecommenderOf[i]}
         IN /\ locations > 0 => own # {}
            /\ \A k \in own :
                 Occurrences(reports[r][k].recommendations, i) = locations
    /\ \A k \in DOMAIN reports[r] :
         LET Shown(n) == Levels[n] \in LevelsOf(reports[r][k].recommendations)
             highest == CHOOSE n \in DOMAIN Levels :
                          Shown(n) /\ \A m \in DOMAIN Levels : Shown(m) => n <= m
         IN reports[r][k].primary_priority_level = Levels[highest]

\* What the recommendations of a recommender say that requests so far received.
ReceivedOf(id) ==
  {content[i] : i \in {j \in Recommendation :
     RecommenderOf[j] = id /\ \E q \in Request : \E s \in received[q] :
                                s.recommendation = j}}

\* A manager is ended by the name of an asset, by a recommendation it received
\* and cannot read, or by a recommender it received something of: if any request
\* so far received one of it without a priority, or one without a cost although
\* one of it is about costs.  Either then ends every later request that the
\* recommender has something for.
EndedBy ==
  \A r \in Request : at[r] = "raised" =>
    \/ \E asset \in Range(Assets[r]) : asset.collection = "nested"
    \/ \E s \in received[r] :
         LET said == ReceivedOf(RecommenderOf[s.recommendation]) IN
         \/ ~content[s.recommendation].readable
         \/ \E c \in said : c.priority \notin {"P1", "P2", "P3", "P4"}
         \/ \E c, d \in said : c.category = "COST" /\ ~d.cost

=============================================================================
