---------------------- MODULE GoogleCloudManagerProofs ----------------------
(***************************************************************************)
(* Theorems about GoogleCloudManager, for every set of tasks, types,       *)
(* items, regions and exceptions.                                          *)
(***************************************************************************)
EXTENDS GoogleCloudManager, SequenceTheorems, FiniteSetTheorems, TLAPS

USE TypeAssumption, RegionAssumption DEF TypeAssumption, RegionAssumption

-----------------------------------------------------------------------------
\* Type correctness.

LEMMA ResponseTypes ==
  /\ \A ty \in Type : TypeResponse(ty) \in Response /\ Failure(ty) \in Response
  /\ \A i \in Item : ResourceResponse(i) \in Response /\ ErrorResponse(i) \in Response
  /\ \A r \in Region : RegionResponse(r) \in Response
BY DEF Response, TypeResponse, Failure, ResourceResponse, ErrorResponse,
       RegionResponse

LEMMA RegionKeyType == \A name \in RegionName : RegionKey(name) \in Region
BY DEF RegionKey

LEMMA KeyErrorType == KeyError \in Exception
BY DEF KeyError, Exception

LEMMA MapperType ==
  ASSUME NEW t \in Task, NEW c \in DOMAIN Mapper[t]
  PROVE  Mapper[t][c] \in Code
BY MapperAssumption DEF MapperAssumption

\* Goto and Add keep the types of what they change.
LEMMA GotoType ==
  ASSUME NEW t, NEW from, NEW to \in Location, pc \in [Task -> Location],
         Goto(t, from, to)
  PROVE  pc' \in [Task -> Location]
BY DEF Goto

LEMMA AddKeepsType ==
  ASSUME NEW t \in Task, NEW s \in Seq(Response),
         total_resources \in [Task -> Seq(Response)], Add(t, s)
  PROVE  total_resources' \in [Task -> Seq(Response)]
<1>1. total_resources[t] \o s \in Seq(Response)
  BY ConcatProperties
<1> QED BY <1>1 DEF Add

LEMMA RaiseType ==
  ASSUME NEW t \in Task, NEW e \in Exception, TypeOK, Raise(t, e)
  PROVE  /\ total_resources' \in [Task -> Seq(Response)]
         /\ fault' \in [Task -> SUBSET Exception]
<1>1. Failure(TypeOf[t]) \in Response
  BY ResponseTypes
<1>2. \A s \in Seq(Response) : Add(t, s) => total_resources' \in [Task -> Seq(Response)]
  BY AddKeepsType DEF TypeOK
<1>3. <<Failure(TypeOf[t])>> \in Seq(Response) /\ <<>> \in Seq(Response)
  BY <1>1
<1>4. total_resources' \in [Task -> Seq(Response)]
  BY <1>2, <1>3 DEF Raise
<1>5. fault' \in [Task -> SUBSET Exception]
  BY DEF Raise, TypeOK
<1> QED BY <1>4, <1>5

LEMMA InitType == Init => TypeOK
BY EmptySeq DEF Init, TypeOK, Location

LEMMA StepType ==
  ASSUME TypeOK, NEW t \in Task, Start(t) \/ Step(t)
  PROVE  TypeOK'
<1> USE DEF vars, shared, loop
<1>a. CASE Start(t)
  <2>1. pc' \in [Task -> Location]
    BY <1>a, GotoType DEF Start, TypeOK, Location
  <2> QED BY <2>1, <1>a DEF Start, TypeOK
<1>b. CASE CheckCode(t)
  <2>1. pc' \in [Task -> Location]
    BY <1>b, GotoType DEF CheckCode, TypeOK, Location
  <2> QED BY <2>1, <1>b DEF CheckCode, TypeOK
<1>c. CASE LookUpCode(t)
  <2>1. pc' \in [Task -> Location]
    BY <1>c, GotoType DEF LookUpCode, TypeOK, Location
  <2>2. CASE service_code[TypeOf[t]] \in DOMAIN Mapper[t]
    <3>1. mapped_code' \in [Task -> Code]
      BY <1>c, <2>2, MapperType DEF LookUpCode, TypeOK
    <3> QED BY <2>1, <2>2, <3>1, <1>c DEF LookUpCode, TypeOK
  <2>3. CASE service_code[TypeOf[t]] \notin DOMAIN Mapper[t]
    <3>1. /\ total_resources' \in [Task -> Seq(Response)]
          /\ fault' \in [Task -> SUBSET Exception]
      BY <1>c, <2>3, RaiseType, KeyErrorType DEF LookUpCode
    <3> QED BY <2>1, <2>3, <3>1, <1>c DEF LookUpCode, TypeOK
  <2> QED BY <2>2, <2>3
<1>d. CASE StoreCode(t)
  <2>1. pc' \in [Task -> Location]
    BY <1>d, GotoType DEF StoreCode, TypeOK, Location
  <2> QED BY <2>1, <1>d DEF StoreCode, TypeOK
<1>e. CASE AddType(t)
  <2>1. pc' \in [Task -> Location]
    BY <1>e, GotoType DEF AddType, TypeOK, Location
  <2>2. <<TypeResponse(TypeOf[t])>> \in Seq(Response)
    BY ResponseTypes
  <2>3. total_resources' \in [Task -> Seq(Response)]
    BY <1>e, <2>2, AddKeepsType DEF AddType, TypeOK
  <2> QED BY <2>1, <2>3, <1>e DEF AddType, TypeOK
<1>f. CASE List(t)
  <2>1. pc' \in [Task -> Location]
    BY <1>f, GotoType DEF List, TypeOK, Location
  <2> QED BY <2>1, <1>f DEF List, TypeOK
<1>g. CASE ListFails(t)
  <2>1. pc' \in [Task -> Location]
    BY <1>g, GotoType DEF ListFails, TypeOK, Location
  <2>2. /\ total_resources' \in [Task -> Seq(Response)]
        /\ fault' \in [Task -> SUBSET Exception]
    BY <1>g, RaiseType, FaultAssumption DEF ListFails, FaultAssumption
  <2> QED BY <2>1, <2>2, <1>g DEF ListFails, TypeOK
<1>h. CASE BuildItem(t)
  <2>1. pc' \in [Task -> Location]
    BY <1>h, GotoType DEF BuildItem, TypeOK, Location
  <2> QED BY <2>1, <1>h DEF BuildItem, TypeOK
<1>i. CASE BuildFails(t)
  <2>1. error_resources' \in [Task -> Seq(Response)]
    BY <1>i, ResponseTypes DEF BuildFails, TypeOK
  <2> QED BY <2>1, <1>i DEF BuildFails, TypeOK
<1>j. CASE CheckRegion(t)
  <2>1. pc' \in [Task -> Location]
    BY <1>j, GotoType DEF CheckRegion, TypeOK, Location
  <2> QED BY <2>1, <1>j DEF CheckRegion, TypeOK
<1>k. CASE AppendRegion(t)
  <2>1. pc' \in [Task -> Location]
    BY <1>k, GotoType DEF AppendRegion, TypeOK, Location
  <2>2. collected_region_codes' \in Seq(Region)
    BY <1>k, RegionKeyType DEF AppendRegion, TypeOK
  <2> QED BY <2>1, <2>2, <1>k DEF AppendRegion, TypeOK
<1>l. CASE Respond(t)
  <2>1. pc' \in [Task -> Location]
    BY <1>l, GotoType DEF Respond, TypeOK, Location
  <2>2. \A i \in current[t] :
          /\ ResourceResponse(i) \in Response /\ ErrorResponse(i) \in Response
          /\ Append(resources[t], ResourceResponse(i)) \in Seq(Response)
          /\ Append(error_resources[t], ErrorResponse(i)) \in Seq(Response)
    BY ResponseTypes DEF TypeOK
  <2>3. /\ resources' \in [Task -> Seq(Response)]
        /\ error_resources' \in [Task -> Seq(Response)]
    BY <1>l, <2>2 DEF Respond, TypeOK
  <2> QED BY <2>1, <2>3, <1>l DEF Respond, TypeOK
<1>m. CASE EndLoop(t)
  <2>1. pc' \in [Task -> Location]
    BY <1>m, GotoType DEF EndLoop, TypeOK, Location
  <2>2. resources[t] \o error_resources[t] \in Seq(Response)
    BY DEF TypeOK
  <2>3. total_resources' \in [Task -> Seq(Response)]
    BY <1>m, <2>2, AddKeepsType DEF EndLoop, TypeOK
  <2> QED BY <2>1, <2>3, <1>m DEF EndLoop, TypeOK
<1>n. CASE AddRegion(t)
  <2>1. cursor' \in [Task -> Nat]
    BY <1>n DEF AddRegion, TypeOK
  <2>2. /\ <<>> \in Seq(Response)
        /\ \A r \in Region : <<RegionResponse(r)>> \in Seq(Response)
    BY ResponseTypes
  <2>3. \A s \in Seq(Response) : Add(t, s) => total_resources' \in [Task -> Seq(Response)]
    BY AddKeepsType DEF TypeOK
  <2>4. total_resources' \in [Task -> Seq(Response)]
    BY <1>n, <2>2, <2>3 DEF AddRegion
  <2> QED BY <2>1, <2>4, <1>n DEF AddRegion, TypeOK
<1>o. CASE EndRegions(t)
  <2>1. pc' \in [Task -> Location]
    BY <1>o, GotoType DEF EndRegions, TypeOK, Location
  <2> QED BY <2>1, <1>o DEF EndRegions, TypeOK
<1> QED
  BY <1>a, <1>b, <1>c, <1>d, <1>e, <1>f, <1>g, <1>h, <1>i, <1>j, <1>k, <1>l,
     <1>m, <1>n, <1>o DEF Step

LEMMA StutterType == TypeOK /\ UNCHANGED vars => TypeOK'
BY DEF TypeOK, vars, shared, loop

\* Every variable stays in its domain: in particular the shared list only
\* ever holds keys of REGION_INFO, whatever names the API's answers carry.
THEOREM TypeCorrect == Spec => []TypeOK
<1>1. TypeOK /\ [Next]_vars => TypeOK'
  BY StepType, StutterType DEF Next
<1> QED BY <1>1, InitType, PTL DEF Spec

\* Every step of a task leaves what belongs to the other tasks alone, and
\* changes the shared list by appending to it at most.
LEMMA Frame ==
  ASSUME TypeOK, NEW u \in Task, Start(u) \/ Step(u), NEW t \in Task, t # u
  PROVE  /\ pc'[t] = pc[t] /\ mapped_code'[t] = mapped_code[t]
         /\ listed'[t] = listed[t] /\ todo'[t] = todo[t]
         /\ current'[t] = current[t] /\ resources'[t] = resources[t]
         /\ error_resources'[t] = error_resources[t]
         /\ total_resources'[t] = total_resources[t]
         /\ cursor'[t] = cursor[t] /\ fault'[t] = fault[t]
<1> USE DEF TypeOK, Goto, Add, Raise, shared, loop
<1>1. CASE Start(u) \/ CheckCode(u) \/ LookUpCode(u) \/ StoreCode(u) \/ AddType(u)
  BY <1>1 DEF Start, CheckCode, LookUpCode, StoreCode, AddType
<1>2. CASE List(u) \/ ListFails(u) \/ BuildItem(u) \/ BuildFails(u)
  BY <1>2 DEF List, ListFails, BuildItem, BuildFails
<1>3. CASE CheckRegion(u) \/ AppendRegion(u) \/ Respond(u)
  BY <1>3 DEF CheckRegion, AppendRegion, Respond
<1>4. CASE EndLoop(u) \/ AddRegion(u) \/ EndRegions(u)
  BY <1>4 DEF EndLoop, AddRegion, EndRegions
<1> QED BY <1>1, <1>2, <1>3, <1>4 DEF Step

LEMMA ListGrows ==
  ASSUME TypeOK, NEW u \in Task, Start(u) \/ Step(u)
  PROVE  /\ Len(collected_region_codes) <= Len(collected_region_codes')
         /\ \A k \in DOMAIN collected_region_codes :
              collected_region_codes'[k] = collected_region_codes[k]
<1>1. CASE AppendRegion(u)
  <2>1. PICK i \in current[u] :
          collected_region_codes' =
            Append(collected_region_codes, RegionKey(RegionOf[i]))
    BY <1>1 DEF AppendRegion
  <2>2. RegionKey(RegionOf[i]) \in Region /\ collected_region_codes \in Seq(Region)
    BY RegionKeyType DEF TypeOK
  <2> QED BY <2>1, <2>2, AppendProperties
<1>2. CASE ~AppendRegion(u)
  <2>1. collected_region_codes' = collected_region_codes
    BY <1>2 DEF Step, Start, CheckCode, LookUpCode, StoreCode, AddType, List,
         ListFails, BuildItem, BuildFails, CheckRegion, Respond, EndLoop,
         AddRegion, EndRegions, shared
  <2> QED BY <2>1 DEF TypeOK
<1> QED BY <1>1, <1>2

\* The shared list only ever grows at its end.
THEOREM ListAppendOnly == Spec => AppendOnly
<1> DEFINE Grows ==
      /\ Len(collected_region_codes) <= Len(collected_region_codes')
      /\ \A k \in DOMAIN collected_region_codes :
           collected_region_codes'[k] = collected_region_codes[k]
<1>1. TypeOK /\ [Next]_vars => [Grows]_vars
  BY ListGrows DEF Next
<1> QED BY <1>1, TypeCorrect, PTL DEF Spec, AppendOnly

-----------------------------------------------------------------------------
\* The inductive invariant, one conjunct per concern.

Early   == {"pending", "check_code", "look_up_code", "store_code", "add_type", "list"}
Working == {"check_region", "append_region", "respond"}

\* The loop works on at most one listed item at a time.
LoopInv(t) ==
  /\ todo[t] \subseteq listed[t]
  /\ current[t] \subseteq listed[t] \ todo[t]
  /\ pc[t] \in Working => \E i \in Item : current[t] = {i}
  /\ pc[t] \notin Working => current[t] = {}
  /\ pc[t] \in Early => listed[t] = {}

Handled(t) == listed[t] \ (todo[t] \cup current[t])

\* Each item the loop is through with has one answer in one of its two lists.
Built(H, r, e) ==
  /\ \A k \in DOMAIN r : \E i \in H : r[k] = ResourceResponse(i)
  /\ \A k \in DOMAIN e : \E i \in H : e[k] = ErrorResponse(i)
  /\ \A j, k \in DOMAIN r : r[j] = r[k] => j = k
  /\ \A j, k \in DOMAIN e : e[j] = e[k] => j = k
  /\ \A i \in H :
       ResourceResponse(i) \in Elements(r) <=> ErrorResponse(i) \notin Elements(e)

BuiltInv(t) == Built(Handled(t), resources[t], error_resources[t])

Gathered(t) == pc[t] = "regions" \/ (Done(t) /\ fault[t] = {})

NoAnswers(s) == \A i \in Item : AnswersTo(i, s) = {}

OneAnswerEach(S, s) ==
  \A i \in Item :
    IF i \in S THEN \E k \in DOMAIN s : AnswersTo(i, s) = {k}
    ELSE AnswersTo(i, s) = {}

\* The gathered list takes the loop's answers over.
GatherInv(t) ==
  /\ ~Done(t) => fault[t] = {}
  /\ pc[t] \in Early \cup Working \cup {"loop"} => NoAnswers(total_resources[t])
  /\ Gathered(t) => OneAnswerEach(listed[t], total_resources[t])

\* The regions of the built resources are in the shared list, and
\* collect_region has handed over what it has passed.
RegionInv(t) ==
  /\ cursor[t] <= Len(collected_region_codes) + 1
  /\ TypeOf[t] \in Regional =>
    /\ pc[t] = "respond" =>
         \A i \in current[t] :
           RegionKey(RegionOf[i]) \in Elements(collected_region_codes)
    /\ \A i \in Item : ResourceResponse(i) \in Elements(resources[t]) =>
         RegionKey(RegionOf[i]) \in Elements(collected_region_codes)
    /\ pc[t] \in Early \cup Working \cup {"loop"} => cursor[t] = 1
    /\ pc[t] = "regions" =>
         \A k \in DOMAIN collected_region_codes : k < cursor[t] =>
           RegionResponse(collected_region_codes[k]) \in Elements(total_resources[t])
    /\ Gathered(t) =>
         \A i \in Item : ResourceResponse(i) \in Elements(total_resources[t]) =>
           ResourceResponse(i) \in Elements(resources[t])
    /\ Done(t) /\ fault[t] = {} =>
         \A i \in Item : ResourceResponse(i) \in Elements(total_resources[t]) =>
           RegionResponse(RegionKey(RegionOf[i])) \in Elements(total_resources[t])

\* Another task of t's type is past the mapping of the type's code.
Rival(t) ==
  \E u \in Task \ {t} :
    /\ TypeOf[u] = TypeOf[t]
    /\ pc[u] \notin {"pending", "check_code", "look_up_code", "store_code"}

CodeInv(t) ==
  /\ pc[t] = "look_up_code" => service_code[TypeOf[t]] \in DOMAIN Mapper[t] \/ Rival(t)
  /\ KeyError \in fault[t] => Rival(t)

FaultInv(t) ==
  Done(t) =>
    \/ fault[t] = {}
    \/ Failure(TypeOf[t]) \in Elements(total_resources[t])
    \/ \E e \in fault[t] : Skipped(e, TypeOf[t])

IInv ==
  /\ TypeOK
  /\ \A t \in Task : /\ LoopInv(t) /\ BuiltInv(t) /\ GatherInv(t)
                     /\ RegionInv(t) /\ CodeInv(t) /\ FaultInv(t)

-----------------------------------------------------------------------------
\* Each conjunct is preserved by every step.

LEMMA LoopStep ==
  ASSUME TypeOK, NEW t \in Task, LoopInv(t),
         NEW u \in Task, Start(u) \/ Step(u)
  PROVE  LoopInv(t)'
<1>1. CASE u # t
  BY <1>1, Frame DEF LoopInv
<1>2. CASE u = t
  <2> USE <1>2 DEF LoopInv, TypeOK, Goto, Early, Working, loop
  <2>1. CASE Start(u) \/ CheckCode(u) \/ StoreCode(u) \/ AddType(u)
    BY <2>1 DEF Start, CheckCode, StoreCode, AddType
  <2>2. CASE LookUpCode(u)
    BY <2>2 DEF LookUpCode
  <2>3. CASE List(u)
    BY <2>3 DEF List
  <2>4. CASE ListFails(u)
    BY <2>4 DEF ListFails
  <2>5. CASE BuildItem(u)
    BY <2>5 DEF BuildItem
  <2>6. CASE BuildFails(u)
    BY <2>6 DEF BuildFails
  <2>7. CASE CheckRegion(u) \/ AppendRegion(u)
    BY <2>7 DEF CheckRegion, AppendRegion
  <2>8. CASE Respond(u)
    BY <2>8 DEF Respond
  <2>9. CASE EndLoop(u) \/ EndRegions(u)
    BY <2>9 DEF EndLoop, EndRegions
  <2>10. CASE AddRegion(u)
    BY <2>10 DEF AddRegion
  <2> QED BY <2>1, <2>2, <2>3, <2>4, <2>5, <2>6, <2>7, <2>8, <2>9, <2>10 DEF Step
<1> QED BY <1>1, <1>2

\* A rival stays one: no task goes back to the mapping of codes.
LEMMA RivalStep ==
  ASSUME TypeOK, NEW t \in Task, Rival(t), NEW u \in Task, Start(u) \/ Step(u)
  PROVE  Rival(t)'
<1> DEFINE Mapping == {"pending", "check_code", "look_up_code", "store_code"}
<1>1. PICK v \in Task \ {t} : TypeOf[v] = TypeOf[t] /\ pc[v] \notin Mapping
  BY DEF Rival
<1>2. pc'[v] \notin Mapping
  <2>1. CASE u # v
    BY <1>1, <2>1, Frame
  <2>2. CASE u = v
    BY <1>1, <2>2 DEF Step, Start, CheckCode, LookUpCode, StoreCode, AddType, List,
       ListFails, BuildItem, BuildFails, CheckRegion, AppendRegion, Respond,
       EndLoop, AddRegion, EndRegions, Goto, TypeOK
  <2> QED BY <2>1, <2>2
<1> QED BY <1>1, <1>2 DEF Rival

LEMMA CodeStep ==
  ASSUME TypeOK, NEW t \in Task, CodeInv(t),
         NEW u \in Task, Start(u) \/ Step(u)
  PROVE  CodeInv(t)'
<1>1. CASE Rival(t)
  BY <1>1, RivalStep DEF CodeInv
<1>2. CASE ~Rival(t) /\ u # t
  <2>1. KeyError \notin fault'[t] /\ pc'[t] = pc[t]
    BY <1>2, Frame DEF CodeInv
  <2>2. CASE StoreCode(u)
    <3>1. CASE TypeOf[u] = TypeOf[t]
      <4>1. pc'[u] = "add_type"
        BY <2>2 DEF StoreCode, Goto, TypeOK
      <4> QED BY <1>2, <3>1, <4>1, <2>1 DEF Rival, CodeInv
    <3>2. CASE TypeOf[u] # TypeOf[t]
      BY <1>2, <2>1, <2>2, <3>2 DEF StoreCode, CodeInv, TypeOK
    <3> QED BY <3>1, <3>2
  <2>3. CASE ~StoreCode(u)
    <3>1. service_code' = service_code
      BY <2>3 DEF Step, Start, CheckCode, LookUpCode, AddType, List, ListFails,
         BuildItem, BuildFails, CheckRegion, AppendRegion, Respond, EndLoop,
         AddRegion, EndRegions, shared
    <3> QED BY <1>2, <2>1, <3>1 DEF CodeInv
  <2> QED BY <2>2, <2>3
<1>3. CASE ~Rival(t) /\ u = t
  <2> USE <1>3 DEF CodeInv, TypeOK, Goto
  <2>1. CASE CheckCode(t)
    BY <2>1 DEF CheckCode, shared
  <2>2. CASE LookUpCode(t)
    BY <2>2 DEF LookUpCode
  <2>3. CASE ListFails(t)
    BY <2>3, FaultAssumption DEF ListFails, Raise, FaultAssumption
  <2>4. CASE Start(t) \/ StoreCode(t) \/ AddType(t) \/ List(t) \/ BuildItem(t)
    BY <2>4 DEF Start, StoreCode, AddType, List, BuildItem
  <2>5. CASE BuildFails(t) \/ CheckRegion(t) \/ AppendRegion(t) \/ Respond(t)
    BY <2>5 DEF BuildFails, CheckRegion, AppendRegion, Respond
  <2>6. CASE EndLoop(t) \/ AddRegion(t) \/ EndRegions(t)
    BY <2>6 DEF EndLoop, AddRegion, EndRegions
  <2> QED BY <2>1, <2>2, <2>3, <2>4, <2>5, <2>6 DEF Step
<1> QED BY <1>1, <1>2, <1>3

\* What is gathered stays, and what is added is there.
LEMMA ElementsConcat ==
  ASSUME NEW s \in Seq(Response), NEW r \in Seq(Response)
  PROVE  Elements(s \o r) = Elements(s) \cup Elements(r)
<1> DEFINE c == s \o r
<1>1. /\ c \in Seq(Response) /\ Len(c) = Len(s) + Len(r)
      /\ \A k \in 1 .. Len(s) : c[k] = s[k]
      /\ \A k \in 1 .. Len(r) : c[Len(s) + k] = r[k]
  BY ConcatProperties
<1>2. ASSUME NEW x \in Elements(c) PROVE x \in Elements(s) \cup Elements(r)
  <2>1. PICK k \in 1 .. Len(c) : x = c[k]
    BY <1>1, <1>2 DEF Elements
  <2>2. CASE k <= Len(s)
    BY <1>1, <2>1, <2>2 DEF Elements
  <2>3. CASE k > Len(s)
    <3>1. k - Len(s) \in 1 .. Len(r) /\ Len(s) + (k - Len(s)) = k
      BY <1>1, <2>3
    <3>2. x = r[k - Len(s)]
      BY <1>1, <2>1, <3>1
    <3> QED BY <3>1, <3>2 DEF Elements
  <2> QED BY <1>1, <2>2, <2>3
<1>3. Elements(s) \subseteq Elements(c)
  BY <1>1 DEF Elements
<1>4. ASSUME NEW k \in 1 .. Len(r) PROVE r[k] \in Elements(c)
  <2>1. Len(s) + k \in DOMAIN c /\ c[Len(s) + k] = r[k]
    BY <1>1
  <2> QED BY <2>1 DEF Elements
<1>5. Elements(r) \subseteq Elements(c)
  BY <1>4 DEF Elements
<1> HIDE DEF c
<1>6. Elements(c) = Elements(s) \cup Elements(r)
  BY <1>2, <1>3, <1>5
<1> QED BY <1>6 DEF c

LEMMA FaultStep ==
  ASSUME TypeOK, NEW t \in Task, FaultInv(t), ~Done(t) => fault[t] = {},
         NEW u \in Task, Start(u) \/ Step(u)
  PROVE  FaultInv(t)'
<1>1. CASE u # t
  BY <1>1, Frame DEF FaultInv, Done
<1>2. CASE u = t /\ (LookUpCode(t) \/ ListFails(t))
  <2>1. SUFFICES ASSUME Done(t)'
                 PROVE  FaultInv(t)'
    BY DEF FaultInv
  <2>2. PICK e : Raise(t, e)
    BY <1>2, <2>1 DEF LookUpCode, ListFails, Done, Goto, TypeOK
  <2>3. CASE Skipped(e, TypeOf[t])
    BY <2>2, <2>3 DEF FaultInv, Raise, TypeOK
  <2>4. CASE ~Skipped(e, TypeOf[t])
    <3> DEFINE f == <<Failure(TypeOf[t])>>
    <3>1. f \in Seq(Response) /\ total_resources[t] \in Seq(Response)
      BY ResponseTypes DEF TypeOK
    <3>2. total_resources'[t] = total_resources[t] \o f
      BY <2>2, <2>4 DEF Raise, Add, TypeOK
    <3>3. Failure(TypeOf[t]) \in Elements(f)
      BY DEF Elements
    <3>4. Failure(TypeOf[t]) \in Elements(total_resources'[t])
      BY <3>1, <3>2, <3>3, ElementsConcat
    <3> QED BY <3>4 DEF FaultInv
  <2> QED BY <2>3, <2>4
<1>3. CASE u = t /\ ~LookUpCode(t) /\ ~ListFails(t)
  <2>1. fault' = fault /\ ~Done(t)
    BY <1>3 DEF Step, Start, CheckCode, StoreCode, AddType, List,
       BuildItem, BuildFails, CheckRegion, AppendRegion, Respond,
       EndLoop, AddRegion, EndRegions, Goto, Done
  <2> QED BY <2>1 DEF FaultInv
<1> QED BY <1>1, <1>2, <1>3

\* One more answer at the end of a list.
LEMMA ElementsAppend ==
  ASSUME NEW s \in Seq(Response), NEW x \in Response
  PROVE  Elements(Append(s, x)) = Elements(s) \cup {x}
<1> DEFINE c == Append(s, x)
<1>1. /\ DOMAIN c = 1 .. Len(s) + 1
      /\ \A k \in 1 .. Len(s) : c[k] = s[k]
      /\ c[Len(s) + 1] = x
      /\ DOMAIN s = 1 .. Len(s) /\ Len(s) \in Nat
  BY AppendProperties
<1> HIDE DEF c
<1>2. DOMAIN c = DOMAIN s \cup {Len(s) + 1}
  BY <1>1
<1>3. Elements(c) = Elements(s) \cup {x}
  BY <1>1, <1>2 DEF Elements
<1> QED BY <1>3 DEF c

LEMMA AnswersDiffer ==
  /\ \A i, j : ResourceResponse(i) = ResourceResponse(j) => i = j
  /\ \A i, j : ErrorResponse(i) = ErrorResponse(j) => i = j
  /\ \A i, j : ResourceResponse(i) # ErrorResponse(j)
BY DEF ResourceResponse, ErrorResponse

LEMMA BuiltResource ==
  ASSUME NEW H \in SUBSET Item, NEW r \in Seq(Response), NEW e \in Seq(Response),
         Built(H, r, e), NEW i \in Item, i \notin H
  PROVE  Built(H \cup {i}, Append(r, ResourceResponse(i)), e)
<1> DEFINE x == ResourceResponse(i)
           c == Append(r, x)
<1>1. /\ DOMAIN c = 1 .. Len(r) + 1
      /\ \A k \in 1 .. Len(r) : c[k] = r[k]
      /\ c[Len(r) + 1] = x
      /\ DOMAIN r = 1 .. Len(r) /\ Len(r) \in Nat
      /\ Elements(c) = Elements(r) \cup {x}
  BY AppendProperties, ElementsAppend, ResponseTypes
<1>2. \A k \in DOMAIN r : r[k] # x
  BY AnswersDiffer DEF Built
<1>3. ErrorResponse(i) \notin Elements(e)
  BY AnswersDiffer DEF Built, Elements
<1>4. \A j \in H : (ResourceResponse(j) \in Elements(c) <=> ResourceResponse(j) \in Elements(r))
  BY <1>1, AnswersDiffer
<1>5. x \in Elements(c)
  BY <1>1
<1> HIDE DEF c
<1>6. \A j, k \in DOMAIN c : c[j] = c[k] => j = k
  BY <1>1, <1>2 DEF Built
<1>7. \A k \in DOMAIN c : \E j \in H \cup {i} : c[k] = ResourceResponse(j)
  BY <1>1 DEF Built
<1>8. Built(H \cup {i}, c, e)
  BY <1>3, <1>4, <1>5, <1>6, <1>7 DEF Built
<1> QED BY <1>8 DEF c

LEMMA BuiltError ==
  ASSUME NEW H \in SUBSET Item, NEW r \in Seq(Response), NEW e \in Seq(Response),
         Built(H, r, e), NEW i \in Item, i \notin H
  PROVE  Built(H \cup {i}, r, Append(e, ErrorResponse(i)))
<1> DEFINE x == ErrorResponse(i)
           c == Append(e, x)
<1>1. /\ DOMAIN c = 1 .. Len(e) + 1
      /\ \A k \in 1 .. Len(e) : c[k] = e[k]
      /\ c[Len(e) + 1] = x
      /\ DOMAIN e = 1 .. Len(e) /\ Len(e) \in Nat
      /\ Elements(c) = Elements(e) \cup {x}
  BY AppendProperties, ElementsAppend, ResponseTypes
<1>2. \A k \in DOMAIN e : e[k] # x
  BY AnswersDiffer DEF Built
<1>3. ResourceResponse(i) \notin Elements(r)
  BY AnswersDiffer DEF Built, Elements
<1>4. \A j \in H : (ErrorResponse(j) \in Elements(c) <=> ErrorResponse(j) \in Elements(e))
  BY <1>1, AnswersDiffer
<1>5. x \in Elements(c)
  BY <1>1
<1> HIDE DEF c
<1>6. \A j, k \in DOMAIN c : c[j] = c[k] => j = k
  BY <1>1, <1>2 DEF Built
<1>7. \A k \in DOMAIN c : \E j \in H \cup {i} : c[k] = ErrorResponse(j)
  BY <1>1 DEF Built
<1>8. Built(H \cup {i}, r, c)
  BY <1>3, <1>4, <1>5, <1>6, <1>7 DEF Built
<1> QED BY <1>8 DEF c

LEMMA BuiltStep ==
  ASSUME TypeOK, NEW t \in Task, LoopInv(t), BuiltInv(t),
         NEW u \in Task, Start(u) \/ Step(u)
  PROVE  BuiltInv(t)'
<1>1. CASE u # t
  BY <1>1, Frame DEF BuiltInv, Handled
<1>2. CASE u = t
  <2> USE <1>2
  <2>1. CASE UNCHANGED loop
    BY <2>1 DEF BuiltInv, Handled, loop
  <2>2. CASE List(t)
    <3>1. Handled(t) = {} /\ Handled(t)' = {}
      BY <2>2 DEF List, Handled, LoopInv, Goto, Early, Working, TypeOK
    <3> QED BY <2>2, <3>1 DEF List, BuiltInv
  <2>3. CASE BuildItem(t)
    <3>1. Handled(t)' = Handled(t)
      BY <2>3 DEF BuildItem, Handled, LoopInv, Goto, Working, TypeOK
    <3> QED BY <2>3, <3>1 DEF BuildItem, BuiltInv
  <2>4. CASE BuildFails(t)
    <3>1. PICK i \in todo[t] :
            /\ todo' = [todo EXCEPT ![t] = @ \ {i}]
            /\ error_resources' =
                 [error_resources EXCEPT ![t] = Append(@, ErrorResponse(i))]
      BY <2>4 DEF BuildFails
    <3>2. Handled(t)' = Handled(t) \cup {i} /\ i \notin Handled(t) /\ i \in Item
      BY <2>4, <3>1 DEF BuildFails, Handled, LoopInv, Working, TypeOK
    <3>3. resources'[t] = resources[t]
          /\ error_resources'[t] = Append(error_resources[t], ErrorResponse(i))
      BY <2>4, <3>1 DEF BuildFails, TypeOK
    <3>4. /\ Handled(t) \in SUBSET Item
          /\ resources[t] \in Seq(Response) /\ error_resources[t] \in Seq(Response)
      BY DEF Handled, TypeOK
    <3>5. Built(Handled(t) \cup {i}, resources[t], Append(error_resources[t], ErrorResponse(i)))
      BY <3>2, <3>4, BuiltError DEF BuiltInv
    <3> QED BY <3>2, <3>3, <3>5 DEF BuiltInv
  <2>5. CASE Respond(t)
    <3>1. PICK i \in current[t] :
            \/ /\ resources' = [resources EXCEPT ![t] = Append(@, ResourceResponse(i))]
               /\ UNCHANGED error_resources
            \/ /\ error_resources' =
                    [error_resources EXCEPT ![t] = Append(@, ErrorResponse(i))]
               /\ UNCHANGED resources
      BY <2>5 DEF Respond
    <3>2. Handled(t)' = Handled(t) \cup {i} /\ i \notin Handled(t) /\ i \in Item
      BY <2>5, <3>1 DEF Respond, Handled, LoopInv, Working, TypeOK, Goto
    <3>3. /\ Handled(t) \in SUBSET Item
          /\ resources[t] \in Seq(Response) /\ error_resources[t] \in Seq(Response)
      BY DEF Handled, TypeOK
    <3>4. Built(Handled(t) \cup {i}, Append(resources[t], ResourceResponse(i)), error_resources[t])
      BY <3>2, <3>3, BuiltResource DEF BuiltInv
    <3>5. Built(Handled(t) \cup {i}, resources[t], Append(error_resources[t], ErrorResponse(i)))
      BY <3>2, <3>3, BuiltError DEF BuiltInv
    <3>6. \/ /\ resources'[t] = Append(resources[t], ResourceResponse(i))
             /\ error_resources'[t] = error_resources[t]
          \/ /\ error_resources'[t] = Append(error_resources[t], ErrorResponse(i))
             /\ resources'[t] = resources[t]
      BY <3>1 DEF TypeOK
    <3> QED BY <3>2, <3>4, <3>5, <3>6 DEF BuiltInv
  <2> QED
    BY <2>1, <2>2, <2>3, <2>4, <2>5 DEF Step, Start, CheckCode, LookUpCode, StoreCode,
       AddType, ListFails, CheckRegion, AppendRegion, EndLoop, AddRegion, EndRegions
<1> QED BY <1>1, <1>2

LEMMA NoAnswersConcat ==
  ASSUME NEW s \in Seq(Response), NEW q \in Seq(Response), NoAnswers(q), NEW i \in Item
  PROVE  AnswersTo(i, s \o q) = AnswersTo(i, s)
<1> DEFINE c == s \o q
<1>1. /\ DOMAIN c = 1 .. Len(s) + Len(q)
      /\ DOMAIN s = 1 .. Len(s) /\ Len(s) \in Nat
      /\ DOMAIN q = 1 .. Len(q) /\ Len(q) \in Nat
      /\ \A k \in 1 .. Len(s) : c[k] = s[k]
      /\ \A k \in 1 .. Len(q) : c[Len(s) + k] = q[k]
  BY ConcatProperties
<1> HIDE DEF c
<1>2. ASSUME NEW k \in DOMAIN c, k > Len(s) PROVE k \notin AnswersTo(i, c)
  <2>1. k - Len(s) \in DOMAIN q /\ c[k] = q[k - Len(s)]
    <3>1. k - Len(s) \in 1 .. Len(q) /\ Len(s) + (k - Len(s)) = k
      BY <1>1, <1>2
    <3> QED BY <1>1, <3>1
  <2> QED BY <2>1 DEF AnswersTo, NoAnswers
<1>3. \A k \in 1 .. Len(s) : k \in AnswersTo(i, c) <=> k \in AnswersTo(i, s)
  BY <1>1 DEF AnswersTo
<1>4. AnswersTo(i, c) \subseteq DOMAIN c /\ AnswersTo(i, s) \subseteq DOMAIN s
  BY DEF AnswersTo
<1>5. ASSUME NEW k \in AnswersTo(i, c) PROVE k \in AnswersTo(i, s)
  <2>1. k \in 1 .. Len(s)
    BY <1>1, <1>2, <1>4
  <2> QED BY <2>1, <1>3
<1>6. ASSUME NEW k \in AnswersTo(i, s) PROVE k \in AnswersTo(i, c)
  BY <1>1, <1>3, <1>4
<1>7. AnswersTo(i, c) = AnswersTo(i, s)
  BY <1>5, <1>6
<1> QED BY <1>7 DEF c

\* Taking over what the loop built gives each of its items one answer.
LEMMA TakeOver ==
  ASSUME NEW s \in Seq(Response), NEW r \in Seq(Response), NEW e \in Seq(Response),
         NoAnswers(s), NEW H \in SUBSET Item, Built(H, r, e)
  PROVE  OneAnswerEach(H, s \o (r \o e))
<1> DEFINE b == r \o e
           c == s \o b
           m == Len(s)
           n == Len(s) + Len(r)
<1>1. /\ DOMAIN s = 1 .. Len(s) /\ Len(s) \in Nat
      /\ DOMAIN r = 1 .. Len(r) /\ Len(r) \in Nat
      /\ DOMAIN e = 1 .. Len(e) /\ Len(e) \in Nat
  OBVIOUS
<1>2. /\ b \in Seq(Response) /\ Len(b) = Len(r) + Len(e)
      /\ \A k \in 1 .. Len(r) : b[k] = r[k]
      /\ \A k \in 1 .. Len(e) : b[Len(r) + k] = e[k]
  BY ConcatProperties
<1> HIDE DEF b
<1>3. /\ DOMAIN c = 1 .. Len(s) + Len(b)
      /\ \A k \in 1 .. Len(s) : c[k] = s[k]
      /\ \A k \in 1 .. Len(b) : c[Len(s) + k] = b[k]
  <2>1. c \in Seq(Response) /\ Len(c) = Len(s) + Len(b)
    BY <1>2, ConcatProperties
  <2>2. /\ \A k \in 1 .. Len(s) : c[k] = s[k]
        /\ \A k \in 1 .. Len(b) : c[Len(s) + k] = b[k]
    BY <1>2, ConcatProperties
  <2> QED BY <2>1, <2>2
<1> HIDE DEF c
<1>4. \A k \in 1 .. Len(r) : m + k \in DOMAIN c /\ c[m + k] = r[k]
  BY <1>1, <1>2, <1>3
<1>5. \A k \in 1 .. Len(e) : n + k \in DOMAIN c /\ c[n + k] = e[k]
  <2>1. ASSUME NEW k \in 1 .. Len(e) PROVE n + k \in DOMAIN c /\ c[n + k] = e[k]
    <3>1. Len(r) + k \in 1 .. Len(b) /\ m + (Len(r) + k) = n + k
      BY <1>1, <1>2
    <3>2. c[m + (Len(r) + k)] = e[k] /\ m + (Len(r) + k) \in DOMAIN c
      BY <1>1, <1>2, <1>3, <3>1
    <3> QED BY <3>1, <3>2
  <2> QED BY <2>1
<1>6. \A k \in DOMAIN c :
        \/ k \in DOMAIN s
        \/ \E j \in 1 .. Len(r) : k = m + j
        \/ \E j \in 1 .. Len(e) : k = n + j
  <2>1. ASSUME NEW k \in DOMAIN c, k > m, k <= n
        PROVE  \E j \in 1 .. Len(r) : k = m + j
    <3>1. k - m \in 1 .. Len(r) /\ k = m + (k - m)
      BY <1>1, <1>3, <2>1
    <3> QED BY <3>1
  <2>2. ASSUME NEW k \in DOMAIN c, k > n
        PROVE  \E j \in 1 .. Len(e) : k = n + j
    <3>1. k - n \in 1 .. Len(e) /\ k = n + (k - n)
      BY <1>1, <1>2, <1>3, <2>2
    <3> QED BY <3>1
  <2> QED BY <2>1, <2>2, <1>1, <1>3
<1>7. ASSUME NEW i \in Item, NEW k \in AnswersTo(i, c)
      PROVE  /\ k \notin DOMAIN s
             /\ \A j \in 1 .. Len(r) : k = m + j => i \in H /\ r[j] = ResourceResponse(i)
             /\ \A j \in 1 .. Len(e) : k = n + j => i \in H /\ e[j] = ErrorResponse(i)
  <2>1. k \in DOMAIN s => FALSE
    BY <1>1, <1>3, <1>7 DEF NoAnswers, AnswersTo
  <2>2. ASSUME NEW j \in 1 .. Len(r), k = m + j
        PROVE  i \in H /\ r[j] = ResourceResponse(i)
    BY <1>1, <1>4, <1>7, <2>2 DEF AnswersTo, Built, ResourceResponse
  <2>3. ASSUME NEW j \in 1 .. Len(e), k = n + j
        PROVE  i \in H /\ e[j] = ErrorResponse(i)
    BY <1>1, <1>5, <1>7, <2>3 DEF AnswersTo, Built, ErrorResponse
  <2> QED BY <2>1, <2>2, <2>3
<1>8. ASSUME NEW i \in Item, i \notin H PROVE AnswersTo(i, c) = {}
  <2>1. SUFFICES ASSUME NEW k \in AnswersTo(i, c) PROVE FALSE
    OBVIOUS
  <2>2. k \in DOMAIN c
    BY <2>1 DEF AnswersTo
  <2>3. k \notin DOMAIN s
    BY <1>7, <2>1
  <2>4. \A j \in 1 .. Len(r) : k # m + j
    BY <1>7, <1>8, <2>1
  <2>5. \A j \in 1 .. Len(e) : k # n + j
    BY <1>7, <1>8, <2>1
  <2> QED BY <1>6, <2>2, <2>3, <2>4, <2>5
<1>9. ASSUME NEW i \in Item, i \in H
      PROVE  \E k \in DOMAIN c : AnswersTo(i, c) = {k}
  <2>1. AnswersTo(i, c) \subseteq DOMAIN c
    BY DEF AnswersTo
  <2>2. CASE ResourceResponse(i) \in Elements(r)
    <3>1. PICK j \in 1 .. Len(r) : r[j] = ResourceResponse(i)
      BY <2>2, <1>1 DEF Elements
    <3>2. m + j \in AnswersTo(i, c)
      BY <1>4, <3>1 DEF AnswersTo, ResourceResponse
    <3>3. \A l \in 1 .. Len(e) : e[l] # ErrorResponse(i)
      BY <1>1, <1>9, <2>2 DEF Built, Elements
    <3>4. \A l \in 1 .. Len(r) : r[l] = ResourceResponse(i) => l = j
      BY <1>1, <3>1 DEF Built
    <3>5. ASSUME NEW k \in AnswersTo(i, c) PROVE k = m + j
      <4>1. k \in DOMAIN c /\ k \notin DOMAIN s
        BY <1>7, <2>1
      <4>2. \A l \in 1 .. Len(e) : k # n + l
        BY <1>7, <3>3
      <4>3. \A l \in 1 .. Len(r) : k = m + l => l = j
        BY <1>7, <3>4
      <4> QED BY <1>6, <4>1, <4>2, <4>3
    <3> QED BY <2>1, <3>2, <3>5
  <2>3. CASE ResourceResponse(i) \notin Elements(r)
    <3>1. PICK j \in 1 .. Len(e) : e[j] = ErrorResponse(i)
      BY <2>3, <1>1, <1>9 DEF Built, Elements
    <3>2. n + j \in AnswersTo(i, c)
      BY <1>5, <3>1 DEF AnswersTo, ErrorResponse
    <3>3. \A l \in 1 .. Len(r) : r[l] # ResourceResponse(i)
      BY <1>1, <2>3 DEF Elements
    <3>4. \A l \in 1 .. Len(e) : e[l] = ErrorResponse(i) => l = j
      BY <1>1, <3>1 DEF Built
    <3>5. ASSUME NEW k \in AnswersTo(i, c) PROVE k = n + j
      <4>1. k \in DOMAIN c /\ k \notin DOMAIN s
        BY <1>7, <2>1
      <4>2. \A l \in 1 .. Len(r) : k # m + l
        BY <1>7, <3>3
      <4>3. \A l \in 1 .. Len(e) : k = n + l => l = j
        BY <1>7, <3>4
      <4> QED BY <1>6, <4>1, <4>2, <4>3
    <3> QED BY <2>1, <3>2, <3>5
  <2> QED BY <2>2, <2>3
<1>10. OneAnswerEach(H, c)
  BY <1>8, <1>9 DEF OneAnswerEach
<1> QED BY <1>10 DEF c, b

LEMMA NoAnswersInOthers ==
  /\ NoAnswers(<<>>)
  /\ \A x \in Type : NoAnswers(<<TypeResponse(x)>>)
  /\ \A x \in Region : NoAnswers(<<RegionResponse(x)>>)
BY DEF NoAnswers, AnswersTo, TypeResponse, RegionResponse

LEMMA GatherStep ==
  ASSUME TypeOK, NEW t \in Task, LoopInv(t), BuiltInv(t), GatherInv(t),
         NEW u \in Task, Start(u) \/ Step(u)
  PROVE  GatherInv(t)'
<1>1. CASE u # t
  BY <1>1, Frame DEF GatherInv, Gathered, Done
<1>2. CASE u = t
  <2> USE <1>2 DEF Done, Gathered, Goto, Early, Working
  <2>1. CASE AddType(t)
    <3>1. /\ TypeResponse(TypeOf[t]) \in Response /\ total_resources[t] \in Seq(Response)
          /\ NoAnswers(<<TypeResponse(TypeOf[t])>>) /\ NoAnswers(total_resources[t])
      BY <2>1, ResponseTypes, NoAnswersInOthers DEF TypeOK, GatherInv, AddType
    <3> DEFINE q == <<TypeResponse(TypeOf[t])>>
    <3>a. q \in Seq(Response)
      BY <3>1
    <3>b. \A i \in Item :
            AnswersTo(i, total_resources[t] \o q) = AnswersTo(i, total_resources[t])
      BY <3>1, <3>a, NoAnswersConcat
    <3>2. NoAnswers(total_resources[t] \o q)
      BY <3>1, <3>b DEF NoAnswers
    <3>3. /\ total_resources'[t] = total_resources[t] \o <<TypeResponse(TypeOf[t])>>
          /\ pc'[t] = "list" /\ pc[t] = "add_type" /\ fault'[t] = fault[t]
      BY <2>1 DEF AddType, Add, TypeOK
    <3> QED BY <3>2, <3>3 DEF GatherInv
  <2>2. CASE EndLoop(t)
    <3> DEFINE c == total_resources[t] \o (resources[t] \o error_resources[t])
    <3>1. Handled(t) = listed[t]
      BY <2>2 DEF EndLoop, LoopInv, Handled
    <3>2. OneAnswerEach(listed[t], c)
      BY <2>2, <3>1, TakeOver DEF GatherInv, BuiltInv, TypeOK, EndLoop
    <3>3. /\ total_resources'[t] = c /\ listed'[t] = listed[t]
          /\ pc'[t] = "regions" /\ pc[t] = "loop" /\ fault'[t] = fault[t]
      BY <2>2 DEF EndLoop, Add, TypeOK, loop
    <3> HIDE DEF c
    <3> QED BY <3>2, <3>3 DEF GatherInv
  <2>3. CASE AddRegion(t)
    <3>1. PICK q \in Seq(Response) :
            NoAnswers(q) /\ total_resources'[t] = total_resources[t] \o q
      <4> DEFINE q == IF collected_region_codes[cursor[t]] \in Region
                      THEN <<RegionResponse(collected_region_codes[cursor[t]])>>
                      ELSE <<>>
      <4>1. q \in Seq(Response) /\ NoAnswers(q)
        BY ResponseTypes, NoAnswersInOthers
      <4>2. total_resources'[t] = total_resources[t] \o q
        BY <2>3 DEF AddRegion, Add, TypeOK
      <4> QED BY <4>1, <4>2
    <3>2. \A i \in Item : AnswersTo(i, total_resources'[t]) = AnswersTo(i, total_resources[t])
      BY <3>1, NoAnswersConcat DEF TypeOK
    <3>3. DOMAIN total_resources[t] \subseteq DOMAIN total_resources'[t]
      BY <3>1, ConcatProperties DEF TypeOK
    <3>4. OneAnswerEach(listed[t], total_resources[t])
      BY <2>3 DEF GatherInv, AddRegion
    <3>5. OneAnswerEach(listed[t], total_resources'[t])
      BY <3>2, <3>3, <3>4 DEF OneAnswerEach
    <3> QED BY <2>3, <3>5 DEF GatherInv, AddRegion, loop
  <2>4. CASE LookUpCode(t)
    <3>1. \/ /\ pc[t] = "look_up_code" /\ pc'[t] = "store_code"
             /\ fault'[t] = fault[t] /\ total_resources'[t] = total_resources[t]
          \/ pc'[t] = "done" /\ fault'[t] = {KeyError}
      BY <2>4 DEF LookUpCode, Raise, TypeOK
    <3> QED BY <3>1 DEF GatherInv
  <2>6. CASE ListFails(t)
    BY <2>6 DEF ListFails, Raise, GatherInv, TypeOK
  <2>7. CASE Start(t) \/ CheckCode(t) \/ StoreCode(t)
    BY <2>7 DEF Start, CheckCode, StoreCode, GatherInv, TypeOK
  <2>10. CASE List(t)
    BY <2>10 DEF List, GatherInv, TypeOK
  <2>11. CASE BuildItem(t)
    BY <2>11 DEF BuildItem, GatherInv, TypeOK
  <2>8. CASE BuildFails(t) \/ CheckRegion(t) \/ AppendRegion(t) \/ Respond(t)
    BY <2>8 DEF BuildFails, CheckRegion, AppendRegion, Respond, GatherInv, TypeOK
  <2>9. CASE EndRegions(t)
    BY <2>9 DEF EndRegions, GatherInv, TypeOK, loop
  <2> QED
    BY <2>1, <2>2, <2>3, <2>4, <2>6, <2>7, <2>8, <2>9, <2>10, <2>11
    DEF Step
<1> QED BY <1>1, <1>2

LEMMA ElementsGrow ==
  ASSUME TypeOK, NEW u \in Task, Start(u) \/ Step(u)
  PROVE  /\ Elements(collected_region_codes) \subseteq Elements(collected_region_codes)'
         /\ Len(collected_region_codes) \in Nat /\ Len(collected_region_codes)' \in Nat
         /\ DOMAIN collected_region_codes = 1 .. Len(collected_region_codes)
         /\ DOMAIN collected_region_codes' = 1 .. Len(collected_region_codes)'
<1>1. TypeOK'
  BY StepType
<1>2. /\ Len(collected_region_codes) \in Nat /\ Len(collected_region_codes)' \in Nat
      /\ DOMAIN collected_region_codes = 1 .. Len(collected_region_codes)
      /\ DOMAIN collected_region_codes' = 1 .. Len(collected_region_codes)'
  BY <1>1 DEF TypeOK
<1>3. \A k \in DOMAIN collected_region_codes :
        k \in DOMAIN collected_region_codes'
          /\ collected_region_codes'[k] = collected_region_codes[k]
  BY <1>2, ListGrows
<1> QED BY <1>2, <1>3 DEF Elements

LEMMA RegionStep ==
  ASSUME TypeOK, NEW t \in Task, LoopInv(t), BuiltInv(t), GatherInv(t), RegionInv(t),
         NEW u \in Task, Start(u) \/ Step(u)
  PROVE  RegionInv(t)'
<1> USE DEF Done, Gathered, Goto, Early, Working
<1>g. /\ Elements(collected_region_codes) \subseteq Elements(collected_region_codes')
      /\ Len(collected_region_codes) \in Nat /\ Len(collected_region_codes') \in Nat
      /\ DOMAIN collected_region_codes = 1 .. Len(collected_region_codes)
      /\ DOMAIN collected_region_codes' = 1 .. Len(collected_region_codes')
      /\ Len(collected_region_codes) <= Len(collected_region_codes')
      /\ \A k \in DOMAIN collected_region_codes :
           collected_region_codes'[k] = collected_region_codes[k]
  BY ElementsGrow, ListGrows DEF Elements
<1>1. CASE /\ pc'[t] = pc[t] /\ cursor'[t] = cursor[t] /\ current'[t] = current[t]
           /\ resources'[t] = resources[t] /\ fault'[t] = fault[t]
           /\ total_resources'[t] = total_resources[t]
  <2>1. cursor'[t] <= Len(collected_region_codes') + 1 /\ cursor[t] \in Nat
    BY <1>1, <1>g DEF RegionInv, TypeOK
  <2>2. ASSUME pc[t] = "regions", TypeOf[t] \in Regional,
               NEW k \in DOMAIN collected_region_codes', k < cursor[t]
        PROVE  RegionResponse(collected_region_codes'[k]) \in Elements(total_resources[t])
    <3>1. k \in DOMAIN collected_region_codes
      BY <1>g, <2>1, <2>2 DEF RegionInv
    <3> QED BY <1>g, <2>2, <3>1 DEF RegionInv
  <2> QED BY <1>1, <1>g, <2>1, <2>2 DEF RegionInv
<1>2. CASE u # t
  BY <1>1, <1>2, Frame
<1>3. CASE u = t
  <2> USE <1>3
  <2>1. CASE Start(t) \/ CheckCode(t) \/ StoreCode(t) \/ List(t) \/ BuildItem(t)
    <3>1. /\ pc'[t] \in Early \cup {"loop", "check_region", "respond"}
          /\ pc[t] \in Early \cup {"loop"}
          /\ pc'[t] = "respond" => TypeOf[t] \notin Regional
          /\ cursor'[t] = cursor[t] /\ resources'[t] = resources[t]
      BY <2>1 DEF Start, CheckCode, StoreCode, List, BuildItem, TypeOK, loop
    <3> QED BY <1>g, <3>1 DEF RegionInv, TypeOK
  <2>2. CASE LookUpCode(t) \/ ListFails(t)
    <3>1. /\ \/ pc'[t] = "store_code"
             \/ pc'[t] = "done" /\ fault'[t] # {}
          /\ pc[t] \in Early
          /\ cursor'[t] = cursor[t] /\ resources'[t] = resources[t]
      <4>1. CASE LookUpCode(t)
        <5>1. cursor'[t] = cursor[t] /\ resources'[t] = resources[t]
          BY <4>1 DEF LookUpCode, loop
        <5>2. /\ pc[t] = "look_up_code"
              /\ \/ pc'[t] = "store_code"
                 \/ pc'[t] = "done" /\ fault'[t] = {KeyError}
          BY <4>1 DEF LookUpCode, Raise, TypeOK
        <5> QED BY <5>1, <5>2
      <4>2. CASE ListFails(t)
        <5>1. PICK e \in Fault : Raise(t, e)
          BY <4>2 DEF ListFails
        <5>2. fault'[t] = {e}
          BY <5>1 DEF Raise, TypeOK
        <5>3. /\ pc'[t] = "done" /\ pc[t] = "list"
              /\ cursor'[t] = cursor[t] /\ resources'[t] = resources[t]
          BY <4>2 DEF ListFails, TypeOK, loop
        <5> QED BY <5>2, <5>3
      <4> QED BY <2>2, <4>1, <4>2
    <3> QED BY <1>g, <3>1 DEF RegionInv, TypeOK
  <2>3. CASE AddType(t)
    <3>1. /\ pc'[t] = "list" /\ pc[t] = "add_type"
          /\ cursor'[t] = cursor[t] /\ resources'[t] = resources[t]
      BY <2>3 DEF AddType, TypeOK, loop
    <3> QED BY <1>g, <3>1 DEF RegionInv, TypeOK
  <2>4. CASE BuildFails(t)
    BY <1>1, <2>4 DEF BuildFails, TypeOK
  <2>5. CASE CheckRegion(t) \/ AppendRegion(t)
    <3>1. /\ pc[t] \in {"check_region", "append_region"}
          /\ pc'[t] \in {"append_region", "respond"}
          /\ cursor'[t] = cursor[t] /\ resources'[t] = resources[t]
          /\ current'[t] = current[t]
      BY <2>5 DEF CheckRegion, AppendRegion, TypeOK, loop
    <3>2. PICK i \in Item : current[t] = {i}
      BY <3>1 DEF LoopInv
    <3>3. pc'[t] = "respond" =>
            RegionKey(RegionOf[i]) \in Elements(collected_region_codes')
      <4>1. CASE CheckRegion(t)
        BY <1>g, <3>2, <4>1 DEF CheckRegion, TypeOK
      <4>2. CASE AppendRegion(t)
        <5>1. collected_region_codes' =
                Append(collected_region_codes, RegionKey(RegionOf[i]))
          BY <3>2, <4>2 DEF AppendRegion
        <5>2. /\ Len(collected_region_codes) + 1 \in DOMAIN collected_region_codes'
              /\ collected_region_codes'[Len(collected_region_codes) + 1]
                   = RegionKey(RegionOf[i])
          BY <5>1, RegionKeyType, AppendProperties DEF TypeOK
        <5> QED BY <5>2 DEF Elements
      <4> QED BY <2>5, <4>1, <4>2
    <3> QED BY <1>g, <3>1, <3>2, <3>3 DEF RegionInv, TypeOK
  <2>6. CASE Respond(t)
    <3>1. /\ pc[t] = "respond" /\ pc'[t] = "loop" /\ cursor'[t] = cursor[t]
      BY <2>6 DEF Respond, TypeOK
    <3>2. PICK i \in current[t] :
            \/ resources'[t] = Append(resources[t], ResourceResponse(i))
            \/ resources'[t] = resources[t]
      BY <2>6 DEF Respond, TypeOK
    <3>3. Elements(resources'[t]) \subseteq Elements(resources[t]) \cup {ResourceResponse(i)}
      <4>1. resources[t] \in Seq(Response) /\ ResourceResponse(i) \in Response
        BY ResponseTypes DEF TypeOK
      <4> QED BY <3>2, <4>1, ElementsAppend
    <3>4. ASSUME TypeOf[t] \in Regional, NEW j \in Item,
                 ResourceResponse(j) \in Elements(resources'[t])
          PROVE  RegionKey(RegionOf[j]) \in Elements(collected_region_codes')
      <4>1. j = i \/ ResourceResponse(j) \in Elements(resources[t])
        BY <3>3, <3>4, AnswersDiffer
      <4> QED BY <1>g, <3>1, <3>4, <4>1 DEF RegionInv
    <3> QED BY <1>g, <3>1, <3>4 DEF RegionInv, TypeOK
  <2>7. CASE EndLoop(t)
    <3> DEFINE s == total_resources[t]
               r == resources[t]
               e == error_resources[t]
    <3>1. /\ pc[t] = "loop" /\ pc'[t] = "regions" /\ cursor'[t] = cursor[t]
          /\ resources'[t] = r /\ total_resources'[t] = s \o (r \o e)
      BY <2>7 DEF EndLoop, Add, TypeOK, loop
    <3>2. s \in Seq(Response) /\ r \in Seq(Response) /\ e \in Seq(Response)
            /\ r \o e \in Seq(Response)
      BY ConcatProperties DEF TypeOK
    <3>3. Elements(total_resources'[t]) = Elements(s) \cup Elements(r) \cup Elements(e)
      <4>1. Elements(r \o e) = Elements(r) \cup Elements(e)
        BY <3>2, ElementsConcat
      <4>2. Elements(s \o (r \o e)) = Elements(s) \cup Elements(r \o e)
        BY <3>2, ElementsConcat
      <4> QED BY <3>1, <4>1, <4>2
    <3>4. ASSUME NEW i \in Item PROVE ResourceResponse(i) \notin Elements(s)
      <4>1. NoAnswers(s)
        BY <3>1 DEF GatherInv
      <4> QED BY <4>1 DEF NoAnswers, AnswersTo, Elements, ResourceResponse
    <3>5. ASSUME NEW i \in Item PROVE ResourceResponse(i) \notin Elements(e)
      BY AnswersDiffer DEF BuiltInv, Built, Elements
    <3>6. cursor[t] = 1 \/ TypeOf[t] \notin Regional
      BY <3>1 DEF RegionInv
    <3> HIDE DEF s, e
    <3> QED BY <1>g, <3>1, <3>3, <3>4, <3>5, <3>6 DEF RegionInv, TypeOK
  <2>8. CASE AddRegion(t)
    <3> DEFINE c == collected_region_codes[cursor[t]]
               q == <<RegionResponse(c)>>
    <3>1. /\ pc[t] = "regions" /\ pc'[t] = "regions" /\ cursor'[t] = cursor[t] + 1
          /\ cursor[t] <= Len(collected_region_codes) /\ cursor[t] \in Nat
          /\ resources'[t] = resources[t] /\ collected_region_codes' = collected_region_codes
      BY <2>8 DEF AddRegion, TypeOK, loop, shared
    <3>2. CASE TypeOf[t] \notin Regional
      BY <1>g, <3>1, <3>2 DEF RegionInv
    <3>3. CASE TypeOf[t] \in Regional
      <4>1. CASE cursor[t] = 0
        <5>1. \A k \in DOMAIN collected_region_codes : ~(k < 1)
          BY <1>g
        <5>2. PICK p \in Seq(Response) :
                /\ total_resources'[t] = total_resources[t] \o p
                /\ \A i \in Item : ResourceResponse(i) \notin Elements(p)
          <6> DEFINE p == IF c \in Region THEN q ELSE <<>>
          <6>1. p \in Seq(Response)
            BY ResponseTypes
          <6>2. \A i \in Item : ResourceResponse(i) \notin Elements(p)
            BY DEF Elements, ResourceResponse, RegionResponse
          <6>3. total_resources'[t] = total_resources[t] \o p
            BY <2>8 DEF AddRegion, Add, TypeOK
          <6> QED BY <6>1, <6>2, <6>3
        <5>3. Elements(total_resources'[t]) = Elements(total_resources[t]) \cup Elements(p)
          BY <5>2, ElementsConcat DEF TypeOK
        <5> QED BY <1>g, <3>1, <4>1, <5>1, <5>2, <5>3 DEF RegionInv
      <4>2. CASE cursor[t] # 0
        <5>1. c \in Region
          BY <1>g, <3>1, <4>2 DEF TypeOK
        <5>2. q \in Seq(Response) /\ total_resources'[t] = total_resources[t] \o q
          BY <2>8, <5>1, ResponseTypes DEF AddRegion, Add, TypeOK
        <5>3. Elements(total_resources'[t])
                = Elements(total_resources[t]) \cup {RegionResponse(c)}
          <6>1. Elements(q) = {RegionResponse(c)}
            BY DEF Elements
          <6> QED BY <5>2, <6>1, ElementsConcat DEF TypeOK
        <5>4. \A i \in Item : ResourceResponse(i) # RegionResponse(c)
          BY DEF ResourceResponse, RegionResponse
        <5>5. \A k \in DOMAIN collected_region_codes :
                k < cursor[t] + 1 => k < cursor[t] \/ k = cursor[t]
          BY <1>g, <3>1
        <5> HIDE DEF c, q
        <5>6. \A k \in DOMAIN collected_region_codes : k < cursor'[t] =>
                RegionResponse(collected_region_codes[k]) \in Elements(total_resources'[t])
          BY <3>1, <3>3, <5>3, <5>5 DEF RegionInv, c
        <5> QED BY <1>g, <3>1, <5>3, <5>4, <5>6 DEF RegionInv
      <4> QED BY <4>1, <4>2
    <3> QED BY <3>2, <3>3
  <2>9. CASE EndRegions(t)
    <3>1. /\ pc[t] = "regions" /\ pc'[t] = "done" /\ cursor'[t] = cursor[t]
          /\ cursor[t] > Len(collected_region_codes) /\ cursor[t] \in Nat
          /\ resources'[t] = resources[t] /\ total_resources'[t] = total_resources[t]
          /\ fault'[t] = fault[t] /\ collected_region_codes' = collected_region_codes
      BY <2>9 DEF EndRegions, TypeOK, loop, shared
    <3>2. ASSUME TypeOf[t] \in Regional, NEW i \in Item,
                 ResourceResponse(i) \in Elements(total_resources[t])
          PROVE  RegionResponse(RegionKey(RegionOf[i])) \in Elements(total_resources[t])
      <4>1. RegionKey(RegionOf[i]) \in Elements(collected_region_codes)
        BY <3>1, <3>2 DEF RegionInv
      <4>2. PICK k \in DOMAIN collected_region_codes :
              collected_region_codes[k] = RegionKey(RegionOf[i])
        BY <4>1 DEF Elements
      <4>3. k < cursor[t]
        BY <1>g, <3>1
      <4> QED BY <3>1, <3>2, <4>2, <4>3 DEF RegionInv
    <3> QED BY <1>g, <3>1, <3>2 DEF RegionInv
  <2> QED BY <2>1, <2>2, <2>3, <2>4, <2>5, <2>6, <2>7, <2>8, <2>9 DEF Step
<1> QED BY <1>2, <1>3

-----------------------------------------------------------------------------
\* The inductive invariant holds, and with it the properties.

LEMMA InitIInv == Init => IInv
<1> SUFFICES ASSUME Init PROVE IInv
  OBVIOUS
<1>1. TypeOK
  BY InitType
<1>2. ASSUME NEW t \in Task
      PROVE  /\ LoopInv(t) /\ BuiltInv(t) /\ GatherInv(t)
             /\ RegionInv(t) /\ CodeInv(t) /\ FaultInv(t)
  <2> USE <1>2 DEF Init
  <2>1. LoopInv(t) /\ CodeInv(t) /\ FaultInv(t)
    BY DEF LoopInv, CodeInv, FaultInv, Early, Working, Done
  <2>2. BuiltInv(t)
    BY DEF BuiltInv, Built, Handled
  <2>3. GatherInv(t)
    BY DEF GatherInv, Gathered, NoAnswers, AnswersTo, Done
  <2>4. RegionInv(t)
    BY DEF RegionInv, Gathered, Elements, Done
  <2> QED BY <2>1, <2>2, <2>3, <2>4
<1> QED BY <1>1, <1>2 DEF IInv

LEMMA StepIInv == IInv /\ [Next]_vars => IInv'
<1> SUFFICES ASSUME IInv, [Next]_vars PROVE IInv'
  OBVIOUS
<1>1. CASE UNCHANGED vars
  BY <1>1, StutterType DEF IInv, LoopInv, BuiltInv, Handled, GatherInv, Gathered, Done,
     RegionInv, CodeInv, Rival, FaultInv, vars, shared, loop
<1>2. CASE Next
  <2>1. PICK u \in Task : Start(u) \/ Step(u)
    BY <1>2 DEF Next
  <2>2. TypeOK'
    BY <2>1, StepType DEF IInv
  <2>3. ASSUME NEW t \in Task
        PROVE  (/\ LoopInv(t) /\ BuiltInv(t) /\ GatherInv(t)
                /\ RegionInv(t) /\ CodeInv(t) /\ FaultInv(t))'
    <3>1. LoopInv(t)' /\ BuiltInv(t)'
      BY <2>1, LoopStep, BuiltStep DEF IInv
    <3>2. GatherInv(t)' /\ RegionInv(t)'
      BY <2>1, GatherStep, RegionStep DEF IInv
    <3>3. CodeInv(t)' /\ FaultInv(t)'
      BY <2>1, CodeStep, FaultStep DEF IInv, GatherInv
    <3> QED BY <3>1, <3>2, <3>3
  <2> QED BY <2>2, <2>3 DEF IInv
<1> QED BY <1>1, <1>2

THEOREM Invariance == Spec => []IInv
BY InitIInv, StepIInv, PTL DEF Spec

\* A manager that no exception stopped answers each listed item exactly once.
THEOREM AnsweredOnce == Spec => []EachItemAnsweredOnce
<1>1. IInv => EachItemAnsweredOnce
  BY DEF IInv, GatherInv, Gathered, OneAnswerEach, EachItemAnsweredOnce
<1> QED BY <1>1, Invariance, PTL

\* ... and hands over the region of every resource, however the threads of
\* all requests interleave on the shared list.
THEOREM RegionsCollected == Spec => []OwnRegionsCollected
<1>1. IInv => OwnRegionsCollected
  BY DEF IInv, RegionInv, OwnRegionsCollected
<1> QED BY <1>1, Invariance, PTL

\* KeyError in the mapping takes a second task that runs the same manager.
THEOREM KeyErrorOnlyByRival == Spec => []KeyErrorNeedsRival
<1>1. IInv => KeyErrorNeedsRival
  BY DEF IInv, CodeInv, Rival, KeyErrorNeedsRival
<1> QED BY <1>1, Invariance, PTL

\* No failure is silent except those that stand for a disabled service.
THEOREM FailuresReported == Spec => []SilentOnlyIfSkipped
<1>1. IInv => SilentOnlyIfSkipped
  BY DEF IInv, FaultInv, SilentOnlyIfSkipped
<1> QED BY <1>1, Invariance, PTL

-----------------------------------------------------------------------------
\* How often a region can be in the shared list.

\* Each entry of the shared list was appended by a task that listed a resource
\* of that region.  No task appended a region twice, because the check that
\* leads a task to its append is made after all its earlier appends.
AppendedBy(by) ==
  /\ by \in [DOMAIN collected_region_codes -> Task]
  /\ \A k \in DOMAIN collected_region_codes :
       \E i \in listed[by[k]] : RegionKey(RegionOf[i]) = collected_region_codes[k]
  /\ \A j, k \in DOMAIN collected_region_codes :
       by[j] = by[k] /\ collected_region_codes[j] = collected_region_codes[k] => j = k
  /\ \A t \in Task : pc[t] = "append_region" =>
       \A i \in current[t] : \A k \in DOMAIN collected_region_codes :
         by[k] = t => collected_region_codes[k] # RegionKey(RegionOf[i])

\* At any time finitely many tasks have listed something, even if the process
\* never stops starting tasks.
Listers == {t \in Task : listed[t] # {}}

AppendInv ==
  /\ IsFiniteSet(Listers)
  /\ \E by \in [DOMAIN collected_region_codes -> Task] : AppendedBy(by)

LEMMA ListedGrows ==
  ASSUME IInv, NEW u \in Task, Start(u) \/ Step(u)
  PROVE  /\ \A t \in Task : listed[t] \subseteq listed'[t]
         /\ Listers' \subseteq Listers \cup {u}
<1>1. TypeOK /\ LoopInv(u)
  BY DEF IInv
<1>2. \A t \in Task \ {u} : listed'[t] = listed[t]
  BY <1>1, Frame
<1>3. listed[u] \subseteq listed'[u]
  <2>1. CASE List(u)
    BY <1>1, <2>1 DEF List, Goto, LoopInv, Early
  <2>2. CASE ~List(u)
    BY <2>2 DEF Step, Start, CheckCode, LookUpCode, StoreCode, AddType, ListFails, BuildItem,
       BuildFails, CheckRegion, AppendRegion, Respond, EndLoop, AddRegion, EndRegions, loop
  <2> QED BY <2>1, <2>2
<1> QED BY <1>2, <1>3 DEF Listers

LEMMA AppendStep ==
  ASSUME IInv, NEW by, AppendedBy(by), NEW u \in Task, Start(u) \/ Step(u)
  PROVE  \E new : AppendedBy(new)'
<1> DEFINE codes == collected_region_codes
<1>1. TypeOK /\ \A t \in Task : LoopInv(t)
  BY DEF IInv
<1>2. codes \in Seq(Region) /\ Len(codes) \in Nat /\ DOMAIN codes = 1 .. Len(codes)
  BY <1>1 DEF TypeOK
<1>3. \A t \in Task \ {u} : pc'[t] = pc[t] /\ current'[t] = current[t]
  BY <1>1, Frame
<1>4. \A k \in DOMAIN codes :
        /\ by[k] \in Task
        /\ \E i \in listed'[by[k]] : RegionKey(RegionOf[i]) = codes[k]
  BY ListedGrows DEF AppendedBy
<1>5. CASE AppendRegion(u)
  <2>1. /\ pc[u] = "append_region" /\ pc'[u] = "respond" /\ current' = current
        /\ listed' = listed
    BY <1>1, <1>5 DEF AppendRegion, Goto, TypeOK, loop
  <2>2. PICK i \in current[u] : codes' = Append(codes, RegionKey(RegionOf[i]))
    BY <1>5 DEF AppendRegion
  <2>3. i \in listed[u] /\ RegionKey(RegionOf[i]) \in Region
    BY <1>1, RegionKeyType DEF LoopInv, TypeOK
  <2> DEFINE n == Len(codes) + 1
  <2>a. PICK new : new = [k \in DOMAIN codes' |-> IF k = n THEN u ELSE by[k]]
    OBVIOUS
  <2>4. /\ DOMAIN codes' = DOMAIN codes \cup {n} /\ n \notin DOMAIN codes
        /\ codes'[n] = RegionKey(RegionOf[i])
        /\ \A k \in DOMAIN codes : codes'[k] = codes[k]
    <3>1. /\ Append(codes, RegionKey(RegionOf[i])) \in Seq(Region)
          /\ DOMAIN Append(codes, RegionKey(RegionOf[i])) = 1 .. Len(codes) + 1
          /\ \A k \in 1 .. Len(codes) : Append(codes, RegionKey(RegionOf[i]))[k] = codes[k]
          /\ Append(codes, RegionKey(RegionOf[i]))[Len(codes) + 1] = RegionKey(RegionOf[i])
      BY <1>2, <2>3, AppendProperties, LenProperties
    <3>2. 1 .. Len(codes) + 1 = (1 .. Len(codes)) \cup {n} /\ n \notin 1 .. Len(codes)
      BY <1>2
    <3> QED BY <1>2, <2>2, <3>1, <3>2
  <2> HIDE DEF codes, n
  <2>5. /\ \A k \in DOMAIN codes : new[k] = by[k] /\ k # n
        /\ new[n] = u /\ DOMAIN codes' = DOMAIN codes \cup {n}
    BY <2>a, <2>4
  <2>6. new \in [DOMAIN codes' -> Task]
    BY <1>4, <2>a, <2>4
  <2>7. \A k \in DOMAIN codes' : \E j \in listed'[new[k]] : RegionKey(RegionOf[j]) = codes'[k]
    BY <1>4, <2>1, <2>3, <2>4, <2>5
  <2>8. \A k \in DOMAIN codes : by[k] = u => codes[k] # RegionKey(RegionOf[i])
    BY <2>1 DEF AppendedBy, codes
  <2>9. \A j, k \in DOMAIN codes' : new[j] = new[k] /\ codes'[j] = codes'[k] => j = k
    <3>1. \A j, k \in DOMAIN codes : by[j] = by[k] /\ codes[j] = codes[k] => j = k
      BY DEF AppendedBy, codes
    <3> QED BY <2>4, <2>5, <2>8, <3>1
  <2>10. ASSUME NEW t \in Task, pc'[t] = "append_region", NEW j \in current'[t],
                NEW k \in DOMAIN codes', new[k] = t
         PROVE  codes'[k] # RegionKey(RegionOf[j])
    <3>1. t # u /\ pc[t] = "append_region" /\ j \in current[t]
      BY <1>3, <2>1, <2>10
    <3>2. k \in DOMAIN codes /\ by[k] = t /\ codes'[k] = codes[k]
      BY <2>4, <2>5, <2>10, <3>1
    <3> QED BY <3>1, <3>2 DEF AppendedBy, codes
  <2>11. AppendedBy(new)'
    BY <2>6, <2>7, <2>9, <2>10 DEF AppendedBy, codes
  <2> QED BY <2>11
<1>6. CASE ~AppendRegion(u)
  <2>1. codes' = codes
    BY <1>6 DEF Step, Start, CheckCode, LookUpCode, StoreCode, AddType, List,
       ListFails, BuildItem, BuildFails, CheckRegion, Respond, EndLoop,
       AddRegion, EndRegions, shared
  <2>2. ASSUME pc'[u] = "append_region"
        PROVE  \A i \in current'[u] : RegionKey(RegionOf[i]) \notin Elements(codes)
    <3>1. CheckRegion(u)
      BY <1>1, <1>6, <2>2 DEF Step, Start, CheckCode, LookUpCode, StoreCode, AddType, List,
         ListFails, BuildItem, BuildFails, Respond, EndLoop, AddRegion, EndRegions, Goto, TypeOK
    <3>2. PICK i \in current[u] :
            Goto(u, "check_region",
                 IF RegionKey(RegionOf[i]) \in Elements(codes) THEN "respond" ELSE "append_region")
      BY <3>1 DEF CheckRegion
    <3>3. RegionKey(RegionOf[i]) \notin Elements(codes) /\ pc[u] = "check_region"
      BY <1>1, <2>2, <3>2 DEF Goto, TypeOK
    <3>4. current'[u] = {i}
      <4>1. current' = current
        BY <3>1 DEF CheckRegion, loop
      <4>2. \E j \in Item : current[u] = {j}
        BY <1>1, <3>3 DEF LoopInv, Working
      <4> QED BY <3>2, <4>1, <4>2
    <3> QED BY <3>3, <3>4
  <2>3. ASSUME NEW t \in Task, pc'[t] = "append_region", NEW i \in current'[t],
               NEW k \in DOMAIN codes, by[k] = t
        PROVE  codes[k] # RegionKey(RegionOf[i])
    <3>1. CASE t = u
      BY <2>2, <2>3, <3>1 DEF Elements
    <3>2. CASE t # u
      BY <1>3, <2>3, <3>2 DEF AppendedBy
    <3> QED BY <3>1, <3>2
  <2>4. AppendedBy(by)'
    BY <1>4, <2>1, <2>3 DEF AppendedBy
  <2> QED BY <2>4
<1> QED BY <1>5, <1>6

LEMMA InitAppendInv == Init => AppendInv
<1> SUFFICES ASSUME Init PROVE AppendInv
  OBVIOUS
<1>1. Listers = {}
  BY DEF Init, Listers
<1>2. AppendedBy(<<>>)
  BY DEF Init, AppendedBy
<1>3. <<>> \in [DOMAIN collected_region_codes -> Task]
  BY <1>2 DEF AppendedBy
<1> QED BY <1>1, <1>2, <1>3, FS_EmptySet DEF AppendInv

LEMMA StepAppendInv == IInv /\ AppendInv /\ [Next]_vars => AppendInv'
<1> SUFFICES ASSUME IInv, AppendInv, [Next]_vars PROVE AppendInv'
  OBVIOUS
<1>1. CASE UNCHANGED vars
  BY <1>1 DEF AppendInv, Listers, AppendedBy, vars, shared, loop
<1>2. ASSUME NEW u \in Task, Start(u) \/ Step(u) PROVE AppendInv'
  <2>1. IsFiniteSet(Listers')
    <3>1. IsFiniteSet(Listers \cup {u})
      BY FS_AddElement DEF AppendInv
    <3> QED BY <1>2, <3>1, ListedGrows, FS_Subset
  <2>2. PICK by : AppendedBy(by)
    BY DEF AppendInv
  <2>3. PICK new : AppendedBy(new)'
    BY <1>2, <2>2, AppendStep
  <2>4. new \in [DOMAIN collected_region_codes' -> Task]
    BY <2>3 DEF AppendedBy
  <2> QED BY <2>1, <2>3, <2>4 DEF AppendInv
<1> QED BY <1>1, <1>2 DEF Next

LEMMA AppendersCount == AppendInv => DuplicatesBounded
<1> SUFFICES ASSUME AppendInv, NEW r \in Region
             PROVE  Cardinality({k \in DOMAIN collected_region_codes :
                                   collected_region_codes[k] = r})
                      <= Cardinality({t \in Task : \E i \in listed[t] : RegionKey(RegionOf[i]) = r})
  BY DEF DuplicatesBounded
<1> DEFINE S == {k \in DOMAIN collected_region_codes : collected_region_codes[k] = r}
           T == {t \in Task : \E i \in listed[t] : RegionKey(RegionOf[i]) = r}
<1>1. PICK by : AppendedBy(by)
  BY DEF AppendInv
<1>2. IsFiniteSet(T)
  <2>1. T \subseteq Listers
    BY DEF Listers
  <2> QED BY <2>1, FS_Subset DEF AppendInv
<1> DEFINE f == [k \in S |-> by[k]]
<1>3. f \in Injection(S, T)
  <2>1. f \in [S -> T]
    BY <1>1 DEF AppendedBy
  <2>2. \A j, k \in S : f[j] = f[k] => j = k
    BY <1>1 DEF AppendedBy
  <2> QED BY <2>1, <2>2 DEF Injection, IsInjective
<1> HIDE DEF S, T, f
<1>4. Cardinality(S) <= Cardinality(T)
  BY <1>2, <1>3, FS_Injection
<1> QED BY <1>4 DEF S, T

\* Although the check and the append are not one step, a region is in the
\* shared list at most once for each task that listed a resource of it.
THEOREM DuplicatesLimited == Spec => []DuplicatesBounded
BY InitAppendInv, StepAppendInv, AppendersCount, Invariance, PTL DEF Spec

=============================================================================
