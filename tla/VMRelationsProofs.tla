------------------------- MODULE VMRelationsProofs -------------------------
(***************************************************************************)
(* PlacedInOwnNetwork, BalancersOfInstance and ManagedInstancesMarked of   *)
(* VMRelations, for every project and any number of changes to it.         *)
(*                                                                         *)
(* As in InstanceGroupsProofs: an answer holds what lasts and nothing that *)
(* never was, and goes on to.  The members of the group managers come one  *)
(* manager at a time: those of every manager that was asked are there.     *)
(***************************************************************************)
EXTENDS ComputeManagers, WellFoundedInduction, TLAPS

ProjectInv ==
  /\ lasting \subseteq project /\ project \subseteq ever
  /\ Relations!Consistent(lasting) /\ Relations!Consistent(project)

VpcsTrue(answer) ==
  /\ \A n \in Network : answer[n] \subseteq {s \in Subnet : NetworkOf[s] = n}
  /\ \A s \in Subnet : Relations!Placed(s) \in lasting => s \in answer[NetworkOf[s]]

SubnetsTrue(answer) == \A s \in Subnet : Relations!Placed(s) \in lasting => s \in answer

RulesTrue(answer) ==
  \A r \in ForwardingRule : /\ Relations!Routed(r) \in lasting => r \in answer
                            /\ r \in answer => Relations!Routed(r) \in ever

PoolsTrue(answer) ==
  \A p \in TargetPool :
    /\ answer[p] \subseteq ConnectedVM
    /\ \A v \in ConnectedVM : /\ Relations!Member(p, v) \in lasting => v \in answer[p]
                              /\ v \in answer[p] => Relations!Member(p, v) \in ever

ManagersTrue(answer) ==
  /\ answer \subseteq {g \in GroupManager : Relations!Manages(g) \in ever}
  /\ \A g \in GroupManager : Relations!Manages(g) \in lasting => g \in answer

AnswerTrue(call, answer) ==
  /\ call = "vpcs" => VpcsTrue(answer)
  /\ call = "subnets" => SubnetsTrue(answer)
  /\ call = "forwarding_rules" => RulesTrue(answer)
  /\ call = "target_pools" => PoolsTrue(answer)
  /\ call = "instance_group_managers" => ManagersTrue(answer)

Answers ==
  [Network -> SUBSET Subnet] \cup [TargetPool -> SUBSET ConnectedVM] \cup (SUBSET Subnet)
    \cup (SUBSET ForwardingRule) \cup (SUBSET GroupManager) \cup (SUBSET ConnectedVM)

ListingsInv ==
  /\ listings \in Seq(Answers) /\ Len(listings) \in 0 .. 6
  /\ \A k \in 1 .. Len(listings) : AnswerTrue(Relations!Calls[k], listings[k])

\* The members of the managers that were asked are known.
MembersInv ==
  /\ unasked \subseteq {g \in GroupManager : Relations!Manages(g) \in ever}
  /\ Len(listings) # 5 => unasked = {}
  /\ Len(listings) >= 5 =>
       \A g \in listings[5] \ unasked, v \in ConnectedVM :
         Relations!Managed(g, v) \in lasting => v \in managed
  /\ \A v \in managed : \E g \in GroupManager : Relations!Managed(g, v) \in ever

Promises == Relations!PlacedInOwnNetwork /\ Relations!BalancersOfInstance
  /\ Relations!ManagedInstancesMarked

RelationsInv == ProjectInv /\ ListingsInv /\ MembersInv /\ Promises

-----------------------------------------------------------------------------
LEMMA LeastOf ==
  ASSUME NEW S \in SUBSET Nat, S # {}
  PROVE  \E k \in S : \A m \in S : k <= m
<1> DEFINE Less == OpToRel(<, Nat)
<1>1. PICK k \in S : \A m \in S : ~(<<m, k>> \in Less)
  BY NatLessThanWellFounded, WFMin, Zenon
<1>2. \A m, n \in Nat : m < n => <<m, n>> \in Less
  BY DEF OpToRel
<1>3. \A m \in S : ~(m < k)
  BY <1>1, <1>2, Zenon
<1>4. \A m \in S : k <= m
  BY <1>3
<1> QED
  BY <1>4

LEMMA Positions ==
  ASSUME ListingsInv, Len(listings) = Len(Relations!Calls)
  PROVE  /\ Len(listings) = 6
         /\ VpcsTrue(Relations!Listed("vpcs")) /\ SubnetsTrue(Relations!Listed("subnets"))
         /\ RulesTrue(Relations!Listed("forwarding_rules"))
            /\ PoolsTrue(Relations!Listed("target_pools"))
         /\ ManagersTrue(listings[5])
<1>1. DOMAIN Relations!Calls = 1 .. 6 /\ Len(Relations!Calls) = 6
  BY DEF Relations!Calls
<1>2. \A i, j \in 1 .. 6 : Relations!Calls[i] = Relations!Calls[j] => i = j
  BY DEF Relations!Calls
<1>3. \A k \in 1 .. 6 :
        (CHOOSE j \in DOMAIN Relations!Calls : Relations!Calls[j] = Relations!Calls[k]) = k
  BY <1>1, <1>2
<1>4. \A k \in 1 .. 6 : Relations!Listed(Relations!Calls[k]) = listings[k]
        /\ AnswerTrue(Relations!Calls[k], listings[k])
  BY <1>1, <1>3 DEF Relations!Listed, ListingsInv
<1>5. /\ Relations!Calls[1] = "vpcs" /\ Relations!Calls[2] = "subnets"
         /\ Relations!Calls[3] = "forwarding_rules"
      /\ Relations!Calls[4] = "target_pools" /\ Relations!Calls[5] = "instance_group_managers"
  BY DEF Relations!Calls
<1>6. /\ AnswerTrue("vpcs", Relations!Listed("vpcs"))
         /\ AnswerTrue("subnets", Relations!Listed("subnets"))
      /\ AnswerTrue("forwarding_rules", Relations!Listed("forwarding_rules"))
      /\ AnswerTrue("target_pools", Relations!Listed("target_pools"))
      /\ AnswerTrue("instance_group_managers", listings[5])
  BY <1>4, <1>5
<1> QED
  BY <1>1, <1>6 DEF AnswerTrue

\* The subnet and VPC an instance is shown with.
LEMMA PlaceFound ==
  ASSUME Relations!WellTyped, ListingsInv, Len(listings) = Len(Relations!Calls),
         NEW v \in ConnectedVM
  PROVE  LET shown == Relations!get_vpc_info(v)
         IN /\ shown.subnet \subseteq Relations!Interfaces(v)
            /\ \A s \in shown.subnet : shown.vpc \subseteq {NetworkOf[s]}
            /\ shown.vpc = {} =>
                 \E s \in Relations!Interfaces(v) : Relations!Placed(s) \notin lasting
<1> DEFINE subnet == Relations!_get_matching_subnet(v)
           vpc == Relations!_get_matching_vpc(subnet, v)
           matched == {k \in DOMAIN SubnetOrder :
                         SubnetOrder[k] \in Relations!Listed("subnets") \cap Relations!Interfaces(v)}
           first == {j \in matched : \A m \in matched : j <= m}
<1>1. subnet = {SubnetOrder[k] : k \in first} /\ first \subseteq matched
  BY DEF Relations!_get_matching_subnet
<1>2. subnet \subseteq Relations!Interfaces(v)
  BY <1>1
<1>3. \A s \in subnet : vpc \subseteq {NetworkOf[s]}
  BY Positions DEF Relations!_get_matching_vpc, VpcsTrue
<1>4. ASSUME \A s \in Relations!Interfaces(v) : Relations!Placed(s) \in lasting
      PROVE  vpc # {}
  <2>1. Relations!Interfaces(v) # {} /\ Relations!Interfaces(v) \subseteq Subnet
    BY DEF Relations!Interfaces, Relations!WellTyped
  <2>2. matched # {}
    BY <1>4, <2>1, Positions DEF Relations!WellTyped, SubnetsTrue
  <2>3. matched \in SUBSET Nat
    BY DEF Relations!WellTyped
  <2>4. first # {}
    <3> HIDE DEF matched
    <3> QED
      BY <2>2, <2>3, LeastOf
  <2>5. PICK k \in first : TRUE
    BY <2>4
  <2>6. \A j \in first : j = k
    <3>1. \A j \in first : j \in Nat /\ k \in Nat /\ j <= k /\ k <= j
      BY <2>3
    <3> QED
      BY <3>1
  <2>7. subnet = {SubnetOrder[k]} /\ SubnetOrder[k] \in Relations!Interfaces(v)
    BY <1>1, <2>5, <2>6
  <2>8. SubnetOrder[k] \in Relations!Listed("vpcs")[NetworkOf[SubnetOrder[k]]]
    BY <1>4, <2>1, <2>7, Positions DEF VpcsTrue
  <2> QED
    BY <2>1, <2>7, <2>8 DEF Relations!_get_matching_vpc, Relations!WellTyped
<1> QED
  BY <1>2, <1>3, <1>4 DEF Relations!get_vpc_info

\* The balancers an instance is shown with.
LEMMA BalancersFound ==
  ASSUME Relations!WellTyped, ListingsInv, Len(listings) = Len(Relations!Calls),
         NEW v \in ConnectedVM, NEW r \in ForwardingRule
  PROVE  /\ {Relations!Routed(r), Relations!Member(TargetOf[r], v)} \subseteq lasting
              => r \in Relations!get_loadbalancer_info(v)
         /\ r \in Relations!get_loadbalancer_info(v) =>
              /\ Relations!Routed(r) \in ever
              /\ \E w \in ConnectedVM : /\ w = v \/ <<v, w>> \in PartOf
                                        /\ Relations!Member(TargetOf[r], w) \in ever
<1>1. Relations!get_loadbalancer_info(v) =
        {q \in Relations!Listed("forwarding_rules") :
           TargetOf[q] \in Relations!_get_matched_target_pool(v)}
  BY DEF Relations!get_loadbalancer_info, Relations!get_matched_instance_group,
       Relations!_get_matched_forwarding_rules
<1>2. TargetOf[r] \in TargetPool
  BY DEF Relations!WellTyped
<1>3. {Relations!Routed(r), Relations!Member(TargetOf[r], v)} \subseteq lasting =>
        r \in Relations!get_loadbalancer_info(v)
  BY <1>1, <1>2, Positions DEF RulesTrue, PoolsTrue, Relations!_get_matched_target_pool
<1>4. ASSUME r \in Relations!get_loadbalancer_info(v)
      PROVE  /\ Relations!Routed(r) \in ever
             /\ \E w \in ConnectedVM : /\ w = v \/ <<v, w>> \in PartOf
                                       /\ Relations!Member(TargetOf[r], w) \in ever
  <2>1. r \in Relations!Listed("forwarding_rules")
          /\ TargetOf[r] \in Relations!_get_matched_target_pool(v)
    BY <1>1, <1>4
  <2>2. Relations!Routed(r) \in ever
    BY <2>1, Positions DEF RulesTrue
  <2>3. PICK w \in Relations!Listed("target_pools")[TargetOf[r]] : w = v \/ <<v, w>> \in PartOf
    BY <2>1 DEF Relations!_get_matched_target_pool
  <2>4. w \in ConnectedVM /\ Relations!Member(TargetOf[r], w) \in ever
    BY <1>2, <2>3, Positions DEF PoolsTrue
  <2> QED
    BY <2>2, <2>3, <2>4
<1> QED
  BY <1>3, <1>4

-----------------------------------------------------------------------------
LEMMA FactsOf ==
  ASSUME NEW facts, Relations!Consistent(facts), NEW g \in GroupManager, NEW v \in ConnectedVM,
         Relations!Managed(g, v) \in facts
  PROVE  Relations!Manages(g) \in facts
<1>1. Relations!Needs(Relations!Managed(g, v)) \subseteq facts
  BY DEF Relations!Consistent
<1>2. Relations!Manages(g) \in Relations!Needs(Relations!Managed(g, v))
  BY DEF Relations!Needs, Relations!Managed
<1> QED
  BY <1>1, <1>2

LEMMA InitRelationsInv == Relations!Init => RelationsInv
<1> SUFFICES ASSUME Relations!Init PROVE RelationsInv
  OBVIOUS
<1>1. ProjectInv
  BY DEF Relations!Init, Relations!ProjectInit, ProjectInv
<1>2. listings = <<>> /\ unasked = {} /\ managed = {} /\ raised = FALSE /\ connected = <<>>
  BY DEF Relations!Init
<1>3. ListingsInv /\ MembersInv
  BY <1>2 DEF ListingsInv, MembersInv
<1>4. Promises
  BY <1>2 DEF Promises, Relations!PlacedInOwnNetwork, Relations!BalancersOfInstance,
       Relations!ManagedInstancesMarked
<1> QED
  BY <1>1, <1>3, <1>4 DEF RelationsInv

\* What is true stays so as fewer facts last and more have held.
LEMMA StaysTrue ==
  ASSUME lasting' \subseteq lasting, ever \subseteq ever',
         NEW call, NEW answer, AnswerTrue(call, answer)
  PROVE  AnswerTrue(call, answer)'
BY DEF AnswerTrue, VpcsTrue, SubnetsTrue, RulesTrue, PoolsTrue, ManagersTrue

LEMMA PromisesStay ==
  ASSUME Promises, lasting' \subseteq lasting, ever \subseteq ever',
         connected' = connected,
         raised' => raised \/ \E g \in GroupManager : Relations!Manages(g) \in ever \ lasting
  PROVE  Promises'
<1>1. Relations!PlacedInOwnNetwork'
  BY DEF Promises, Relations!PlacedInOwnNetwork
<1>2. Relations!BalancersOfInstance'
  BY DEF Promises, Relations!BalancersOfInstance
<1>3. Relations!ManagedInstancesMarked'
  BY DEF Promises, Relations!ManagedInstancesMarked
<1> QED
  BY <1>1, <1>2, <1>3 DEF Promises

LEMMA ChangesKeep == RelationsInv /\ Relations!ProjectChanges => RelationsInv'
<1> SUFFICES ASSUME RelationsInv, Relations!ProjectChanges PROVE RelationsInv'
  OBVIOUS
<1>1. PICK f \in Relations!Fact : Relations!Change(f)
  BY DEF Relations!ProjectChanges
<1>2. /\ lasting' \subseteq lasting /\ ever \subseteq ever'
      /\ UNCHANGED <<listings, unasked, managed, raised, connected>>
  BY <1>1 DEF Relations!Change, Relations!ProjectChanges, Relations!listingVars
<1>3. ProjectInv'
  <2>1. Relations!Consistent(project)'
    BY <1>1 DEF Relations!Change, Relations!Consistent
  <2>2. Relations!Consistent(lasting)'
    BY <1>1, <2>1 DEF RelationsInv, ProjectInv, Relations!Change, Relations!Consistent
  <2> QED
    BY <1>1, <2>1, <2>2 DEF RelationsInv, ProjectInv, Relations!Change
<1>4. ListingsInv'
  BY <1>2, StaysTrue DEF RelationsInv, ListingsInv
<1>5. MembersInv'
  BY <1>2 DEF RelationsInv, MembersInv
<1>6. Promises'
  BY <1>2, PromisesStay DEF RelationsInv
<1> QED
  BY <1>3, <1>4, <1>5, <1>6 DEF RelationsInv

\* A call is answered from the project as it is.
LEMMA AnswersTrue ==
  ASSUME Relations!WellTyped, ProjectInv, NEW k \in 1 .. 6
  PROVE  /\ AnswerTrue(Relations!Calls[k], Relations!Answer(Relations!Calls[k]))
            /\ Relations!Answer(Relations!Calls[k]) \in Answers
         /\ Relations!Calls[k] = "instance_group_managers" <=> k = 5
<1>1. CASE k = 1
  <2>1. Relations!Calls[k] = "vpcs"
    BY <1>1 DEF Relations!Calls
  <2>2. Relations!Answer("vpcs") =
          [n \in Network |-> {s \in Subnet : NetworkOf[s] = n /\ Relations!Placed(s) \in project}]
    BY DEF Relations!Answer
  <2>3. VpcsTrue(Relations!Answer("vpcs"))
    BY <2>2 DEF VpcsTrue, ProjectInv, Relations!WellTyped
  <2>4. Relations!Answer("vpcs") \in Answers
    BY <2>2 DEF Answers
  <2> QED
    BY <1>1, <2>1, <2>3, <2>4 DEF AnswerTrue
<1>2. CASE k = 2
  <2>1. Relations!Calls[k] = "subnets"
    BY <1>2 DEF Relations!Calls
  <2> QED
    BY <1>2, <2>1 DEF Relations!Answer, AnswerTrue, SubnetsTrue, ProjectInv, Answers
<1>3. CASE k = 3
  <2>1. Relations!Calls[k] = "forwarding_rules"
    BY <1>3 DEF Relations!Calls
  <2> QED
    BY <1>3, <2>1 DEF Relations!Answer, AnswerTrue, RulesTrue, ProjectInv, Answers
<1>4. CASE k = 4
  <2>1. Relations!Calls[k] = "target_pools"
    BY <1>4 DEF Relations!Calls
  <2>2. Relations!Answer("target_pools") =
          [p \in TargetPool |-> {v \in ConnectedVM : Relations!Member(p, v) \in project}]
    BY DEF Relations!Answer
  <2>3. PoolsTrue(Relations!Answer("target_pools"))
    BY <2>2 DEF PoolsTrue, ProjectInv
  <2>4. Relations!Answer("target_pools") \in Answers
    BY <2>2 DEF Answers
  <2> QED
    BY <1>4, <2>1, <2>3, <2>4 DEF AnswerTrue
<1>5. CASE k = 5
  <2>1. Relations!Calls[k] = "instance_group_managers"
    BY <1>5 DEF Relations!Calls
  <2> QED
    BY <1>5, <2>1 DEF Relations!Answer, AnswerTrue, ManagersTrue, ProjectInv, Answers
<1>6. CASE k = 6
  <2>1. Relations!Calls[k] = "instances"
    BY <1>6 DEF Relations!Calls
  <2> QED
    BY <1>6, <2>1 DEF Relations!Answer, AnswerTrue, Answers
<1> QED
  BY <1>1, <1>2, <1>3, <1>4, <1>5, <1>6

LEMMA ListKeeps ==
  ASSUME Relations!WellTyped, RelationsInv, Relations!List
  PROVE  RelationsInv'
<1> DEFINE k == Len(listings) + 1
           answer == Relations!Answer(Relations!Calls[k])
<1>1. /\ listings' = Append(listings, answer)
      /\ unasked' = IF Relations!Calls[k] = "instance_group_managers" THEN answer ELSE {}
      /\ UNCHANGED <<project, lasting, ever, managed, raised, connected>>
      /\ unasked = {}
  BY DEF Relations!List, Relations!projectVars
<1>2. /\ listings \in Seq(Answers) /\ k \in 1 .. 6 /\ Len(listings) \in Nat
  BY DEF Relations!List, Relations!Listing, Relations!Calls, RelationsInv, ListingsInv
<1>3. /\ AnswerTrue(Relations!Calls[k], answer) /\ answer \in Answers
      /\ Relations!Calls[k] = "instance_group_managers" <=> k = 5
  BY <1>2, AnswersTrue DEF RelationsInv
<1> HIDE DEF answer
<1>4. /\ listings' \in Seq(Answers) /\ Len(listings') = k /\ listings'[k] = answer
      /\ \A j \in 1 .. Len(listings) : listings'[j] = listings[j]
  BY <1>1, <1>2, <1>3
<1>5. ASSUME NEW j \in 1 .. Len(listings')
      PROVE  AnswerTrue(Relations!Calls[j], listings'[j])
  <2>1. CASE j = k
    BY <1>3, <1>4, <2>1
  <2>2. CASE j # k
    BY <1>2, <1>4, <2>2 DEF RelationsInv, ListingsInv
  <2> QED
    BY <2>1, <2>2
<1>6. \A c, a : AnswerTrue(c, a) => AnswerTrue(c, a)'
  BY <1>1, StaysTrue
<1>7. ListingsInv'
  BY <1>2, <1>4, <1>5, <1>6 DEF ListingsInv
<1>8. MembersInv'
  <2>1. unasked' \subseteq {g \in GroupManager : Relations!Manages(g) \in ever}
    BY <1>1, <1>3 DEF AnswerTrue, ManagersTrue
  <2>2. k # 5 => unasked' = {}
    BY <1>1, <1>3
  <2>3. k >= 5 => \A g \in listings'[5] \ unasked', v \in ConnectedVM :
                    Relations!Managed(g, v) \in lasting => v \in managed
    <3>1. CASE k = 5
      BY <1>1, <1>3, <1>4, <3>1
    <3>2. CASE k > 5
      BY <1>1, <1>2, <1>4, <3>2 DEF RelationsInv, MembersInv
    <3> QED
      BY <1>2, <3>1, <3>2
  <2> QED
    BY <1>1, <1>4, <2>1, <2>2, <2>3 DEF RelationsInv, MembersInv
<1>9. ProjectInv' /\ Promises'
  BY <1>1, PromisesStay DEF RelationsInv, ProjectInv, Relations!Consistent
<1> QED
  BY <1>7, <1>8, <1>9 DEF RelationsInv

LEMMA ListMembersKeep ==
  ASSUME RelationsInv, NEW g \in GroupManager, Relations!ListMembers(g)
  PROVE  RelationsInv'
<1>1. /\ UNCHANGED <<project, lasting, ever, listings, raised, connected>>
      /\ managed' = managed \cup {v \in ConnectedVM : Relations!Managed(g, v) \in project}
      /\ unasked' = unasked \ {g} /\ g \in unasked
  BY DEF Relations!ListMembers, Relations!projectVars
<1>2. ProjectInv' /\ ListingsInv'
  BY <1>1 DEF RelationsInv, ProjectInv, Relations!Consistent, ListingsInv, AnswerTrue,
              VpcsTrue, SubnetsTrue, RulesTrue, PoolsTrue, ManagersTrue
<1>3. MembersInv'
  <2>1. \A h \in listings[5] \ unasked', v \in ConnectedVM :
          Relations!Managed(h, v) \in lasting => v \in managed'
    BY <1>1 DEF RelationsInv, MembersInv, ProjectInv, ListingsInv
  <2>2. \A v \in managed' : \E h \in GroupManager : Relations!Managed(h, v) \in ever
    BY <1>1 DEF RelationsInv, MembersInv, ProjectInv
  <2> QED
    BY <1>1, <2>1, <2>2 DEF RelationsInv, MembersInv
<1>4. Promises'
  BY <1>1, PromisesStay DEF RelationsInv
<1> QED
  BY <1>2, <1>3, <1>4 DEF RelationsInv

LEMMA MembersNotFoundKeeps ==
  ASSUME RelationsInv, NEW g \in GroupManager, Relations!MembersNotFound(g)
  PROVE  RelationsInv'
<1>1. /\ UNCHANGED <<project, lasting, ever, listings, unasked, managed, connected>>
      /\ Relations!Manages(g) \in ever \ lasting
  BY DEF Relations!MembersNotFound, Relations!projectVars, RelationsInv, ProjectInv, MembersInv
<1>2. ProjectInv' /\ ListingsInv' /\ MembersInv'
  BY <1>1 DEF RelationsInv, ProjectInv, Relations!Consistent, ListingsInv, MembersInv, AnswerTrue,
              VpcsTrue, SubnetsTrue, RulesTrue, PoolsTrue, ManagersTrue
<1>3. Promises'
  BY <1>1, PromisesStay DEF RelationsInv
<1> QED
  BY <1>2, <1>3 DEF RelationsInv

LEMMA BuildInstanceKeeps ==
  ASSUME Relations!WellTyped, RelationsInv, NEW v \in ConnectedVM, Relations!BuildInstance(v)
  PROVE  RelationsInv'
<1> DEFINE placed == Relations!get_vpc_info(v)
           marked == v \in managed
           shown == [subnet |-> placed.subnet, vpc |-> placed.vpc,
                     nics |-> Relations!get_nic_info(v, placed.subnet),
                     load_balancers |-> Relations!get_loadbalancer_info(v),
                     autoscaler |-> Relations!get_autoscaler_info(v),
                     is_managed_instance |-> marked]
<1>1. /\ UNCHANGED <<project, lasting, ever, listings, unasked, managed, raised>>
      /\ DOMAIN connected' = DOMAIN connected \cup {v} /\ connected'[v] = shown
      /\ \A w \in DOMAIN connected \ {v} : connected'[w] = connected[w]
      /\ Len(listings) = Len(Relations!Calls)
  BY DEF Relations!BuildInstance, Relations!projectVars, Relations!listingVars
<1>2. ProjectInv' /\ ListingsInv' /\ MembersInv'
  BY <1>1 DEF RelationsInv, ProjectInv, Relations!Consistent, ListingsInv, MembersInv, AnswerTrue,
              VpcsTrue, SubnetsTrue, RulesTrue, PoolsTrue, ManagersTrue
<1>3. /\ shown.subnet = placed.subnet /\ shown.vpc = placed.vpc
      /\ shown.load_balancers = Relations!get_loadbalancer_info(v)
  OBVIOUS
<1>4. shown.is_managed_instance = marked
  BY Zenon
<1>5. /\ shown.subnet \subseteq Relations!Interfaces(v)
      /\ \A s \in shown.subnet : shown.vpc \subseteq {NetworkOf[s]}
      /\ shown.vpc = {} => \E s \in Relations!Interfaces(v) : Relations!Placed(s) \notin lasting
  <2>1. ListingsInv
    BY DEF RelationsInv
  <2> QED
    BY <1>1, <1>3, <2>1, PlaceFound
<1>6. \A r \in ForwardingRule :
        /\ {Relations!Routed(r), Relations!Member(TargetOf[r], v)} \subseteq lasting =>
             r \in shown.load_balancers
        /\ r \in shown.load_balancers =>
             /\ Relations!Routed(r) \in ever
             /\ \E w \in ConnectedVM : /\ w = v \/ <<v, w>> \in PartOf
                                       /\ Relations!Member(TargetOf[r], w) \in ever
  BY <1>1, <1>3, BalancersFound DEF RelationsInv
<1>7. /\ \A g \in GroupManager : Relations!Managed(g, v) \in lasting => marked
      /\ marked => \E g \in GroupManager : Relations!Managed(g, v) \in ever
  <2>1. Len(listings) = 6 /\ ManagersTrue(listings[5])
    BY <1>1, Positions DEF RelationsInv
  <2>2. unasked = {}
    BY <2>1 DEF RelationsInv, MembersInv
  <2>3. ASSUME NEW g \in GroupManager, Relations!Managed(g, v) \in lasting PROVE v \in managed
    <3>1. Relations!Manages(g) \in lasting
      BY <2>3, FactsOf DEF RelationsInv, ProjectInv
    <3>2. g \in listings[5] \ unasked
      BY <2>1, <2>2, <3>1 DEF ManagersTrue
    <3> QED
      BY <2>1, <2>3, <3>2 DEF RelationsInv, MembersInv
  <2> QED
    BY <2>3 DEF RelationsInv, MembersInv
<1>8. /\ \A g \in GroupManager : Relations!Managed(g, v) \in lasting => shown.is_managed_instance
      /\ shown.is_managed_instance => \E g \in GroupManager : Relations!Managed(g, v) \in ever
  <2> HIDE DEF shown
  <2> QED
    BY <1>4, <1>7, Zenon
<1> HIDE DEF shown
<1>9. Relations!PlacedInOwnNetwork'
  BY <1>1, <1>5 DEF RelationsInv, Promises, Relations!PlacedInOwnNetwork, Relations!Interfaces
<1>10. Relations!BalancersOfInstance'
  BY <1>1, <1>6 DEF RelationsInv, Promises, Relations!BalancersOfInstance
<1>11. Relations!ManagedInstancesMarked'
  BY <1>1, <1>8 DEF RelationsInv, Promises, Relations!ManagedInstancesMarked
<1> QED
  BY <1>2, <1>9, <1>10, <1>11 DEF RelationsInv, Promises

LEMMA RelationsInvariance ==
  ASSUME Relations!WellTyped
  PROVE  Relations!Spec => []RelationsInv
<1>1. Relations!Init => RelationsInv
  BY InitRelationsInv
<1>2. RelationsInv /\ [Relations!Next]_(Relations!vars) => RelationsInv'
  <2> SUFFICES ASSUME RelationsInv, [Relations!Next]_(Relations!vars) PROVE RelationsInv'
    OBVIOUS
  <2>1. CASE Relations!ProjectChanges
    BY <2>1, ChangesKeep
  <2>2. CASE Relations!List
    BY <2>2, ListKeeps
  <2>3. ASSUME NEW g \in GroupManager,
               Relations!ListMembers(g) \/ Relations!MembersNotFound(g)
        PROVE  RelationsInv'
    BY <2>3, ListMembersKeep, MembersNotFoundKeeps
  <2>4. ASSUME NEW v \in ConnectedVM, Relations!BuildInstance(v) PROVE RelationsInv'
    BY <2>4, BuildInstanceKeeps
  <2>5. CASE UNCHANGED Relations!vars
    <3>1. UNCHANGED <<project, lasting, ever, listings, unasked, managed, raised, connected>>
      BY <2>5 DEF Relations!vars, Relations!projectVars, Relations!listingVars
    <3>2. ProjectInv' /\ ListingsInv' /\ MembersInv'
      BY <3>1 DEF RelationsInv, ProjectInv, Relations!Consistent, ListingsInv, MembersInv,
           AnswerTrue,
                  VpcsTrue, SubnetsTrue, RulesTrue, PoolsTrue, ManagersTrue
    <3> QED
      BY <3>1, <3>2, PromisesStay DEF RelationsInv
  <2> QED
    BY <2>1, <2>2, <2>3, <2>4, <2>5 DEF Relations!Next
<1> QED
  BY <1>1, <1>2, PTL DEF Relations!Spec

-----------------------------------------------------------------------------
\* Given work together with other managers, this one takes its own steps and
\* no other, since the others leave its variables as they are.

WorksRelations == "relations" \in working

LEMMA RelationsAlone == Spec => Relations!Spec \/ []~WorksRelations
<1>1. Init /\ WorksRelations => Relations!Init
  BY DEF Init, WorksRelations
<1>2. WorksRelations /\ [Next]_vars => WorksRelations' /\ [Relations!Next]_(Relations!vars)
  BY DEF Next, vars, WorksRelations, relationVars, Relations!vars, Relations!projectVars,
       Relations!listingVars
<1>3. ~WorksRelations /\ [Next]_vars => ~WorksRelations'
  BY DEF Next, vars, WorksRelations
<1> QED BY <1>1, <1>2, <1>3, PTL DEF Spec, Relations!Spec

LEMMA RelationsAlwaysInv == Spec => [](WorksRelations => RelationsInv)
<1>1. Relations!Spec => []RelationsInv
  BY RelationsInvariance, LinksAssumption
<1> QED BY <1>1, RelationsAlone, PTL

\* Subnet and VPC come from two listings, VPCs first: an instance is shown
\* with the VPC of its subnet, and without one only if a subnet of it was
\* created or deleted meanwhile.
THEOREM InstancesPlaced == Spec => []PlacedInOwnNetwork
<1>1. (WorksRelations => RelationsInv) => PlacedInOwnNetwork
  BY DEF WorksRelations, RelationsInv, Promises, PlacedInOwnNetwork
<1> QED BY <1>1, RelationsAlwaysInv, PTL

\* The balancers shown with an instance are those of the target pools it is a
\* member of, or of an instance whose name begins with its own.
THEOREM BalancersShown == Spec => []BalancersOfInstance
<1>1. (WorksRelations => RelationsInv) => BalancersOfInstance
  BY DEF WorksRelations, RelationsInv, Promises, BalancersOfInstance
<1> QED BY <1>1, RelationsAlwaysInv, PTL

\* The members of the groups are asked for one manager at a time: an instance
\* that a manager manages all the time is marked, and the collection fails
\* only if a manager was deleted meanwhile.
THEOREM ManagedMarked == Spec => []ManagedInstancesMarked
<1>1. (WorksRelations => RelationsInv) => ManagedInstancesMarked
  BY DEF WorksRelations, RelationsInv, Promises, ManagedInstancesMarked
<1> QED BY <1>1, RelationsAlwaysInv, PTL

=============================================================================
