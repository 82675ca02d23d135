-------------------------- MODULE NetworkingProofs --------------------------
(***************************************************************************)
(* What the networking managers show, for every value of the constants,    *)
(* for any set of them that is given work and with their steps in any      *)
(* order: a section for each manager, which argues about its own           *)
(* specification, and in the last one the properties of the whole.         *)
(*                                                                         *)
(* Networks: what lasts is in every listing that has returned, since it    *)
(* was in the project then, and with it lasts what it needs.  So the       *)
(* objects that lasted until a network is built are in all the lists it is *)
(* joined from; a later change only makes fewer objects last.              *)
(***************************************************************************)
EXTENDS NetworkingManagers, FiniteSetTheorems, TLAPS

-----------------------------------------------------------------------------
\* The instances a firewall or a route is shown with.

Ports(k) == instances[k].networkInterfaces

\* Interface n of instance k is a reason to show k: for a firewall if it is in
\* its network; for a route any interface is, if one of k is.
Hit(k, n) ==
  IF rule.manager = "Firewall" THEN Ports(k)[n] = rule.network
  ELSE Matching!OnNetwork(instances[k]) /\ Matching!TagsMatched(instances[k].tags, rule.tags)

\* The walk has gone past interface n of instance k.
Passed(k, n) == k < at \/ (k = at /\ n < nic)

\* An instance is in the list once if a hit was passed, and not before; the
\* name "instance" denotes a flattened copy while the one in work is listed.
MatchInv ==
  /\ Matching!TypeOK
  /\ outcome = "matched" => at = Len(instances) + 1
  /\ \A j \in DOMAIN applicable :
       LET k == applicable[j].instance IN
       /\ applicable[j].address \in DOMAIN Ports(k)
       /\ Hit(k, applicable[j].address) /\ Passed(k, applicable[j].address)
  /\ \A k \in DOMAIN instances : \A n \in DOMAIN Ports(k) :
       Hit(k, n) /\ Passed(k, n) => \E j \in DOMAIN applicable : applicable[j].instance = k
  /\ \A i, j \in DOMAIN applicable : applicable[i].instance = applicable[j].instance => i = j
  /\ bound = "flattened" <=> \E j \in DOMAIN applicable : applicable[j].instance = at

LEMMA InstanceTypes ==
  ASSUME MaxInterfaces \in Nat, Matching!TypeOK
  PROVE  /\ Len(instances) \in Nat /\ DOMAIN instances = 1 .. Len(instances)
         /\ \A k \in DOMAIN instances :
              /\ Len(Ports(k)) \in Nat /\ DOMAIN Ports(k) = 1 .. Len(Ports(k))
              /\ \A m, n \in DOMAIN Ports(k) : Ports(k)[m] = Ports(k)[n] => m = n
<1>1. instances \in Seq(Matching!Instance)
  BY DEF Matching!TypeOK
<1>2. ASSUME NEW k \in DOMAIN instances PROVE Ports(k) \in Matching!Interfaces
  <2>1. instances[k] \in Matching!Instance
    BY <1>1, <1>2
  <2> QED BY <2>1 DEF Ports, Matching!Instance
<1>3. ASSUME NEW s \in Matching!Interfaces
      PROVE  /\ Len(s) \in Nat /\ DOMAIN s = 1 .. Len(s)
             /\ \A m, n \in DOMAIN s : s[m] = s[n] => m = n
  <2>1. PICK n \in 0 .. MaxInterfaces : s \in [1 .. n -> Network]
    BY <1>3 DEF Matching!Interfaces
  <2>2. Len(s) = n
    BY <2>1
  <2> QED BY <2>1, <2>2 DEF Matching!Interfaces
<1> QED BY <1>1, <1>2, <1>3

LEMMA ListedTypes ==
  ASSUME MaxInterfaces \in Nat, Matching!TypeOK, NEW j \in DOMAIN applicable
  PROVE  applicable[j].instance \in DOMAIN instances
<1> DEFINE E == [instance : 1 .. Len(instances), address : Nat]
<1>1. applicable \in Seq(E)
  BY DEF Matching!TypeOK
<1>2. applicable[j] \in E
  <2> HIDE DEF E
  <2> QED BY <1>1
<1> QED BY <1>2, InstanceTypes

LEMMA InitMatchInv ==
  ASSUME MaxInstances \in Nat, MaxInterfaces \in Nat, Matching!Init
  PROVE  MatchInv
<1>1. instances \in Seq(Matching!Instance)
  BY DEF Matching!Init
<1>2. Matching!TypeOK
  BY <1>1 DEF Matching!Init, Matching!TypeOK
<1>3. applicable = <<>> /\ at = 1 /\ nic = 1 /\ bound = "listed" /\ outcome = "matching"
  BY DEF Matching!Init
<1> QED BY <1>2, <1>3, InstanceTypes DEF MatchInv, Passed

\* Whether an interface is a hit does not change during the walk.
LEMMA HitsStay ==
  ASSUME rule' = rule, instances' = instances
  PROVE  \A k, n : (Hit(k, n)' <=> Hit(k, n)) /\ Ports(k)' = Ports(k)
<1>1. \A k : Matching!OnNetwork(instances[k])' <=> Matching!OnNetwork(instances[k])
  BY DEF Matching!OnNetwork
<1>2. \A k : Matching!TagsMatched(instances[k].tags, rule.tags)'
              <=> Matching!TagsMatched(instances[k].tags, rule.tags)
  BY DEF Matching!TagsMatched
<1>3. \A k : Ports(k)' = Ports(k)
  BY DEF Ports
<1> QED BY <1>1, <1>2, <1>3 DEF Hit

\* The code matches the interface in work if it is a hit and the instance is
\* not in the list yet: for a firewall because no two interfaces are in one
\* network, for a route because a flattened copy has no interfaces.
LEMMA MatchesOnce ==
  ASSUME MaxInterfaces \in Nat, MatchInv, Matching!HasInterface
  PROVE  /\ at \in DOMAIN instances /\ nic \in DOMAIN Ports(at)
         /\ Matching!Matches(instances[at]) => Hit(at, nic) /\ bound = "listed"
         /\ ~Matching!Matches(instances[at]) => ~Hit(at, nic) \/ bound = "flattened"
<1>1. Matching!TypeOK /\ bound \in {"listed", "flattened"} /\ rule.manager \in {"Firewall", "Route"}
  BY DEF MatchInv, Matching!TypeOK, Matching!ListedRule
<1>2. at \in DOMAIN instances /\ nic \in DOMAIN Ports(at)
  BY <1>1, InstanceTypes DEF Matching!HasInterface, Matching!TypeOK, Ports
<1>3. CASE rule.manager = "Firewall"
  <2>1. Matching!Matches(instances[at]) <=> Hit(at, nic)
    BY <1>3 DEF Matching!Matches, Hit, Ports
  <2>2. ASSUME Hit(at, nic), bound = "flattened" PROVE FALSE
    <3>1. PICK j \in DOMAIN applicable : applicable[j].instance = at
      BY <2>2 DEF MatchInv
    <3> DEFINE n == applicable[j].address
    <3>2. n \in DOMAIN Ports(at) /\ Hit(at, n) /\ Passed(at, n)
      BY <3>1 DEF MatchInv
    <3>3. n = nic
      BY <1>1, <1>2, <1>3, <2>2, <3>2, InstanceTypes DEF Hit
    <3> QED BY <1>1, <3>2, <3>3 DEF Passed, Matching!TypeOK
  <2> QED BY <1>1, <1>2, <2>1, <2>2
<1>4. CASE rule.manager = "Route"
  <2>1. Matching!Matches(instances[at]) <=> Hit(at, nic) /\ bound = "listed"
    BY <1>4 DEF Matching!Matches, Matching!_check_instance_is_matched, Hit
  <2> QED BY <1>1, <1>2, <2>1
<1> QED BY <1>1, <1>3, <1>4

\* How far the walk is after a step to the next interface.
LEMMA NextPassed ==
  ASSUME Matching!TypeOK, at' = at, nic' = nic + 1
  PROVE  \A k, n \in Nat : Passed(k, n)' <=> Passed(k, n) \/ (k = at /\ n = nic)
BY DEF Passed, Matching!TypeOK

LEMMA AddInstanceKeeps ==
  ASSUME MaxInterfaces \in Nat, MatchInv, Matching!AddInstance PROVE MatchInv'
<1>1. /\ Matching!HasInterface /\ Matching!Matches(instances[at])
      /\ rule' = rule /\ instances' = instances /\ at' = at /\ nic' = nic + 1
      /\ applicable' = Append(applicable, [instance |-> at, address |-> nic])
      /\ bound' = "flattened"
  BY DEF Matching!AddInstance
<1>2. /\ at \in DOMAIN instances /\ nic \in DOMAIN Ports(at)
      /\ Hit(at, nic) /\ bound = "listed"
  BY <1>1, MatchesOnce
<1>3. outcome' = outcome /\ outcome = "matching"
  BY <1>2 DEF Matching!AddInstance, Matching!HasInterface
<1>4. Matching!TypeOK /\ Len(applicable) \in Nat /\ DOMAIN applicable = 1 .. Len(applicable)
  BY DEF MatchInv, Matching!TypeOK
<1>5. at \in 1 .. Len(instances) /\ nic \in Nat
        /\ \A k \in DOMAIN instances : DOMAIN Ports(k) \subseteq Nat
  BY <1>2, <1>4, InstanceTypes
<1> DEFINE m == Len(applicable) + 1
<1> PICK e : e = [instance |-> at, address |-> nic]
  OBVIOUS
<1>6. e \in [instance : 1 .. Len(instances), address : Nat] /\ e.instance = at /\ e.address = nic
  BY <1>5
<1>7. /\ DOMAIN applicable' = DOMAIN applicable \cup {m} /\ m \notin DOMAIN applicable
      /\ applicable'[m] = e /\ \A j \in DOMAIN applicable : applicable'[j] = applicable[j]
      /\ applicable' \in Seq([instance : 1 .. Len(instances), address : Nat])
  BY <1>1, <1>4, <1>6 DEF Matching!TypeOK
<1> HIDE DEF m
<1>8. Matching!TypeOK'
  BY <1>1, <1>3, <1>4, <1>7 DEF Matching!TypeOK
<1>9. \A j \in DOMAIN applicable : applicable[j].instance # at
  BY <1>2 DEF MatchInv
<1>10. \A k \in DOMAIN instances : \A n \in DOMAIN Ports(k) :
         Passed(k, n)' <=> Passed(k, n) \/ (k = at /\ n = nic)
  BY <1>1, <1>4, <1>5, NextPassed, InstanceTypes
<1>11. \A j \in DOMAIN applicable :
         /\ applicable[j].instance \in DOMAIN instances
         /\ applicable[j].address \in DOMAIN Ports(applicable[j].instance)
         /\ Hit(applicable[j].instance, applicable[j].address)
         /\ Passed(applicable[j].instance, applicable[j].address)
  BY <1>4, ListedTypes DEF MatchInv
<1>12. (\A j \in DOMAIN applicable :
          LET k == applicable[j].instance IN
          /\ applicable[j].address \in DOMAIN Ports(k)
          /\ Hit(k, applicable[j].address) /\ Passed(k, applicable[j].address))'
  <2>1. ASSUME NEW j \in DOMAIN applicable', NEW k, NEW n,
               k = applicable'[j].instance, n = applicable'[j].address
        PROVE  n \in DOMAIN Ports(k) /\ Hit(k, n) /\ Passed(k, n)'
    <3>1. CASE j = m
      BY <1>2, <1>6, <1>7, <1>10, <2>1, <3>1
    <3>2. CASE j # m
      BY <1>7, <1>10, <1>11, <2>1, <3>2
    <3> QED BY <3>1, <3>2
  <2> QED BY <1>1, <2>1, HitsStay
<1>13. (\A k \in DOMAIN instances : \A n \in DOMAIN Ports(k) :
          Hit(k, n) /\ Passed(k, n) => \E j \in DOMAIN applicable : applicable[j].instance = k)'
  <2>1. ASSUME NEW k \in DOMAIN instances, NEW n \in DOMAIN Ports(k), Hit(k, n), Passed(k, n)'
        PROVE  \E j \in DOMAIN applicable' : applicable'[j].instance = k
    <3>1. CASE Passed(k, n)
      BY <1>7, <2>1, <3>1 DEF MatchInv
    <3>2. CASE k = at
      BY <1>6, <1>7, <3>2
    <3> QED BY <1>10, <2>1, <3>1, <3>2
  <2> QED BY <1>1, <2>1, HitsStay
<1>14. \A i, j \in DOMAIN applicable' : applicable'[i].instance = applicable'[j].instance => i = j
  BY <1>6, <1>7, <1>9 DEF MatchInv
<1>15. (bound = "flattened" <=> \E j \in DOMAIN applicable : applicable[j].instance = at)'
  BY <1>1, <1>6, <1>7
<1> QED BY <1>3, <1>8, <1>12, <1>13, <1>14, <1>15 DEF MatchInv

LEMMA SkipInterfaceKeeps ==
  ASSUME MaxInterfaces \in Nat, MatchInv, Matching!SkipInterface PROVE MatchInv'
<1>1. /\ Matching!HasInterface /\ ~Matching!Matches(instances[at])
      /\ rule' = rule /\ instances' = instances /\ at' = at /\ nic' = nic + 1
      /\ UNCHANGED <<bound, applicable, outcome>>
  BY DEF Matching!SkipInterface
<1>2. /\ at \in DOMAIN instances /\ nic \in DOMAIN Ports(at)
      /\ ~Hit(at, nic) \/ bound = "flattened"
  BY <1>1, MatchesOnce
<1>3. Matching!TypeOK /\ Matching!TypeOK'
  BY <1>1 DEF MatchInv, Matching!TypeOK
<1>4. \A k \in DOMAIN instances : \A n \in DOMAIN Ports(k) :
        Passed(k, n)' <=> Passed(k, n) \/ (k = at /\ n = nic)
  BY <1>1, <1>3, NextPassed, InstanceTypes
<1>5. \A j \in DOMAIN applicable : applicable[j].instance \in DOMAIN instances
  BY <1>3, ListedTypes
<1>6. (\A j \in DOMAIN applicable :
          LET k == applicable[j].instance IN
          /\ applicable[j].address \in DOMAIN Ports(k)
          /\ Hit(k, applicable[j].address) /\ Passed(k, applicable[j].address))'
  <2>1. ASSUME NEW j \in DOMAIN applicable, NEW k, NEW n,
               k = applicable[j].instance, n = applicable[j].address
        PROVE  n \in DOMAIN Ports(k) /\ Hit(k, n) /\ Passed(k, n)'
    BY <1>4, <1>5, <2>1 DEF MatchInv
  <2> QED BY <1>1, <2>1, HitsStay
<1>7. (\A k \in DOMAIN instances : \A n \in DOMAIN Ports(k) :
         Hit(k, n) /\ Passed(k, n) => \E j \in DOMAIN applicable : applicable[j].instance = k)'
  <2>1. ASSUME NEW k \in DOMAIN instances, NEW n \in DOMAIN Ports(k), Hit(k, n), Passed(k, n)'
        PROVE  \E j \in DOMAIN applicable : applicable[j].instance = k
    <3>1. CASE Passed(k, n)
      BY <2>1, <3>1 DEF MatchInv
    <3>2. CASE k = at /\ n = nic
      BY <1>2, <2>1, <3>2 DEF MatchInv
    <3> QED BY <1>4, <2>1, <3>1, <3>2
  <2> QED BY <1>1, <2>1, HitsStay
<1> QED BY <1>1, <1>3, <1>6, <1>7 DEF MatchInv

LEMMA NextInstanceKeeps ==
  ASSUME MaxInterfaces \in Nat, MatchInv, Matching!NextInstance PROVE MatchInv'
<1>1. /\ outcome = "matching" /\ at <= Len(instances) /\ nic > Len(Ports(at))
      /\ at' = at + 1 /\ nic' = 1 /\ bound' = "listed"
      /\ UNCHANGED <<rule, instances, applicable, outcome>>
  BY DEF Matching!NextInstance, Ports
<1>2. Matching!TypeOK /\ at \in DOMAIN instances
  BY <1>1, InstanceTypes DEF MatchInv, Matching!TypeOK
<1>3. Matching!TypeOK'
  BY <1>1, <1>2, InstanceTypes DEF Matching!TypeOK
<1>4. \A k \in DOMAIN instances : \A n \in DOMAIN Ports(k) : Passed(k, n)' <=> Passed(k, n)
  <2>1. ASSUME NEW k \in DOMAIN instances, NEW n \in DOMAIN Ports(k)
        PROVE  Passed(k, n)' <=> Passed(k, n)
    <3>1. k \in Nat /\ n \in 1 .. Len(Ports(k)) /\ Len(Ports(k)) \in Nat
          /\ at \in Nat /\ nic \in Nat
      BY <1>2, InstanceTypes DEF Matching!TypeOK
    <3>2. Passed(k, n)' <=> k < at + 1
      BY <1>1, <3>1 DEF Passed
    <3>3. k = at => n < nic
      BY <1>1, <3>1
    <3> QED BY <3>1, <3>2, <3>3 DEF Passed
  <2> QED BY <2>1
<1>5. \A j \in DOMAIN applicable : applicable[j].instance \in DOMAIN instances
  BY <1>2, ListedTypes
<1>6. (\A j \in DOMAIN applicable :
          LET k == applicable[j].instance IN
          /\ applicable[j].address \in DOMAIN Ports(k)
          /\ Hit(k, applicable[j].address) /\ Passed(k, applicable[j].address))'
  <2>1. ASSUME NEW j \in DOMAIN applicable, NEW k, NEW n,
               k = applicable[j].instance, n = applicable[j].address
        PROVE  n \in DOMAIN Ports(k) /\ Hit(k, n) /\ Passed(k, n)'
    BY <1>4, <1>5, <2>1 DEF MatchInv
  <2> QED BY <1>1, <2>1, HitsStay
<1>7. (\A k \in DOMAIN instances : \A n \in DOMAIN Ports(k) :
         Hit(k, n) /\ Passed(k, n) => \E j \in DOMAIN applicable : applicable[j].instance = k)'
  <2>1. \A k \in DOMAIN instances : \A n \in DOMAIN Ports(k) :
          Hit(k, n) /\ Passed(k, n)' => \E j \in DOMAIN applicable : applicable[j].instance = k
    BY <1>4 DEF MatchInv
  <2> QED BY <1>1, <2>1, HitsStay
<1>8. \A j \in DOMAIN applicable : applicable[j].instance # at'
  <2>1. ASSUME NEW j \in DOMAIN applicable PROVE applicable[j].instance # at + 1
    <3>1. Passed(applicable[j].instance, applicable[j].address)
      BY <2>1 DEF MatchInv
    <3>2. applicable[j].instance \in Nat /\ at \in Nat
      BY <1>2, <1>5, InstanceTypes
    <3> QED BY <3>1, <3>2 DEF Passed
  <2> QED BY <1>1, <2>1
<1> QED BY <1>1, <1>3, <1>6, <1>7, <1>8 DEF MatchInv

LEMMA FinishKeeps ==
  ASSUME MaxInterfaces \in Nat, MatchInv, Matching!Finish PROVE MatchInv'
<1>1. /\ at > Len(instances) /\ outcome' = "matched"
      /\ UNCHANGED <<rule, instances, at, nic, bound, applicable>>
  BY DEF Matching!Finish
<1>2. Matching!TypeOK /\ at = Len(instances) + 1
  BY <1>1, InstanceTypes DEF MatchInv, Matching!TypeOK
<1>3. Matching!TypeOK'
  BY <1>1, <1>2 DEF Matching!TypeOK
<1>4. \A k, n : Passed(k, n)' <=> Passed(k, n)
  BY <1>1 DEF Passed
<1>5. (\A j \in DOMAIN applicable :
          LET k == applicable[j].instance IN
          /\ applicable[j].address \in DOMAIN Ports(k)
          /\ Hit(k, applicable[j].address) /\ Passed(k, applicable[j].address))'
  <2>1. ASSUME NEW j \in DOMAIN applicable, NEW k, NEW n,
               k = applicable[j].instance, n = applicable[j].address
        PROVE  n \in DOMAIN Ports(k) /\ Hit(k, n) /\ Passed(k, n)'
    BY <1>4, <2>1 DEF MatchInv
  <2> QED BY <1>1, <2>1, HitsStay
<1>6. (\A k \in DOMAIN instances : \A n \in DOMAIN Ports(k) :
         Hit(k, n) /\ Passed(k, n) => \E j \in DOMAIN applicable : applicable[j].instance = k)'
  <2>1. \A k \in DOMAIN instances : \A n \in DOMAIN Ports(k) :
          Hit(k, n) /\ Passed(k, n)' => \E j \in DOMAIN applicable : applicable[j].instance = k
    BY <1>4 DEF MatchInv
  <2> QED BY <1>1, <2>1, HitsStay
<1> QED BY <1>1, <1>2, <1>3, <1>5, <1>6 DEF MatchInv

\* When the walk has ended, an instance is in the list once if it has a hit and
\* is not in the list otherwise.
LEMMA FoundByHits ==
  ASSUME MaxInterfaces \in Nat, MatchInv, outcome = "matched", NEW k \in DOMAIN instances
  PROVE  \/ /\ \E n \in DOMAIN Ports(k) : Hit(k, n)
            /\ \E j \in DOMAIN applicable :
                 /\ Matching!Found(k) = {j}
                 /\ applicable[j].address \in DOMAIN Ports(k) /\ Hit(k, applicable[j].address)
         \/ /\ \A n \in DOMAIN Ports(k) : ~Hit(k, n)
            /\ Matching!Found(k) = {}
<1>1. Matching!TypeOK /\ at = Len(instances) + 1
  BY DEF MatchInv
<1>2. \A n : Passed(k, n)
  BY <1>1, InstanceTypes DEF Passed
<1>3. CASE \E j \in DOMAIN applicable : applicable[j].instance = k
  <2>1. PICK j \in DOMAIN applicable : applicable[j].instance = k
    BY <1>3
  <2>2. Matching!Found(k) = {j}
    BY <2>1 DEF MatchInv, Matching!Found
  <2>3. applicable[j].address \in DOMAIN Ports(k) /\ Hit(k, applicable[j].address)
    BY <2>1 DEF MatchInv
  <2> QED BY <2>2, <2>3
<1>4. CASE ~ \E j \in DOMAIN applicable : applicable[j].instance = k
  <2>1. Matching!Found(k) = {}
    BY <1>4 DEF Matching!Found
  <2>2. \A n \in DOMAIN Ports(k) : ~Hit(k, n)
    BY <1>2, <1>4 DEF MatchInv
  <2> QED BY <2>1, <2>2
<1> QED BY <1>3, <1>4

LEMMA FirewallsMatched ==
  ASSUME MaxInterfaces \in Nat, MatchInv PROVE Matching!FirewallInstances
<1> SUFFICES ASSUME outcome = "matched", rule.manager = "Firewall", NEW k \in DOMAIN instances
             PROVE  IF Matching!OnNetwork(instances[k])
                    THEN \E j \in DOMAIN applicable :
                           /\ Matching!Found(k) = {j}
                           /\ Ports(k)[applicable[j].address] = rule.network
                    ELSE Matching!Found(k) = {}
  BY DEF Matching!FirewallInstances, Ports
<1>1. \A n : Hit(k, n) <=> Ports(k)[n] = rule.network
  BY DEF Hit
<1>2. Matching!OnNetwork(instances[k]) <=> \E n \in DOMAIN Ports(k) : Hit(k, n)
  BY <1>1 DEF Matching!OnNetwork, Ports
<1> QED BY <1>1, <1>2, FoundByHits

LEMMA RoutesMatched ==
  ASSUME MaxInterfaces \in Nat, MatchInv PROVE Matching!UntaggedRouteInstances
<1> SUFFICES ASSUME outcome = "matched", rule.manager = "Route", rule.tags = {},
                    NEW k \in DOMAIN instances
             PROVE  Cardinality(Matching!Found(k)) =
                      IF Matching!OnNetwork(instances[k]) THEN 1 ELSE 0
  BY Zenon DEF Matching!UntaggedRouteInstances, Matching!Cardinality, Cardinality
<1>1. \A n : Hit(k, n) <=> Matching!OnNetwork(instances[k])
  BY DEF Hit, Matching!TagsMatched
<1>2. Matching!OnNetwork(instances[k]) => \E n \in DOMAIN Ports(k) : TRUE
  BY DEF Matching!OnNetwork, Ports
<1>3. CASE Matching!OnNetwork(instances[k])
  <2>1. PICK j : Matching!Found(k) = {j}
    BY <1>1, <1>2, <1>3, FoundByHits
  <2> QED BY <1>3, <2>1, FS_Singleton
<1>4. CASE ~Matching!OnNetwork(instances[k])
  <2>1. Matching!Found(k) = {}
    BY <1>1, <1>4, FoundByHits
  <2> QED BY <1>4, <2>1, FS_EmptySet
<1> QED BY <1>3, <1>4

\* For any number of instances and of interfaces, and although the managers
\* overwrite the name they walk with, a firewall is shown with the instances of
\* its network, a route without tags with those of its own, each of them once.
LEMMA MatchInvariance ==
  ASSUME MaxInstances \in Nat, MaxInterfaces \in Nat
  PROVE  Matching!Spec => []MatchInv
<1>1. MatchInv /\ [Matching!Next]_Matching!vars => MatchInv'
  <2> SUFFICES ASSUME MatchInv, [Matching!Next]_Matching!vars PROVE MatchInv'
    OBVIOUS
  <2>1. CASE UNCHANGED Matching!vars
    <3>1. UNCHANGED <<rule, instances, at, nic, bound, applicable, outcome>>
      BY <2>1 DEF Matching!vars
    <3>2. Matching!TypeOK' /\ \A k, n : Passed(k, n)' <=> Passed(k, n)
      BY <3>1 DEF MatchInv, Matching!TypeOK, Passed
    <3> QED BY <3>1, <3>2, HitsStay DEF MatchInv
  <2> QED BY <2>1, AddInstanceKeeps, SkipInterfaceKeeps, NextInstanceKeeps, FinishKeeps
          DEF Matching!Next
<1> QED BY <1>1, InitMatchInv, PTL DEF Matching!Spec

LEMMA InstancesListed ==
  ASSUME MaxInstances \in Nat, MaxInterfaces \in Nat
  PROVE  Matching!Spec => [](Matching!FirewallInstances /\ Matching!UntaggedRouteInstances)
<1>1. MatchInv => Matching!FirewallInstances /\ Matching!UntaggedRouteInstances
  BY FirewallsMatched, RoutesMatched
<1> QED BY <1>1, MatchInvariance, PTL

\* A rule is shown with an instance it applies to, if it has something to show.
LEMMA ShownIfApplies ==
  ASSUME NEW v, NEW r
  PROVE  /\ Matching!IsShown(v, r) => Matching!Applies(v, r)
         /\ Matching!Applies(v, r) /\ Matching!HasPorts(r) => Matching!IsShown(v, r)
<1>1. Matching!list_firewall_rules_info(v, {r}) # {} => Matching!Applies(v, r)
  BY DEF Matching!list_firewall_rules_info
<1>2. ASSUME Matching!Applies(v, r), NEW entry \in Matching!list_firewall_rule_data(r)
      PROVE  entry \in Matching!list_firewall_rules_info(v, {r})
  BY <1>2 DEF Matching!list_firewall_rules_info
<1>3. Matching!HasPorts(r) => Matching!list_firewall_rule_data(r) # {}
  <2> SUFFICES ASSUME NEW p \in r.protocols, NEW port \in p.ports
               PROVE  Matching!list_firewall_rule_data(r) # {}
    BY DEF Matching!HasPorts
  <2> DEFINE entry(q, x) == [security_group_name |-> r.name, protocol |-> q.name,
                             range |-> Matching!_get_port_min_max(x)]
  <2>1. Matching!list_firewall_rule_data(r) =
          UNION {{entry(q, x) : x \in q.ports} : q \in r.protocols}
    BY DEF Matching!list_firewall_rule_data
  <2> HIDE DEF entry
  <2>2. entry(p, port) \in Matching!list_firewall_rule_data(r)
    BY <2>1
  <2> QED BY <2>2
<1> QED BY <1>1, <1>2, <1>3 DEF Matching!IsShown

\* An instance is shown with a rule only if the firewall is shown with the
\* instance, and conversely for rules without targets that have ports.
LEMMA SidesAgree ==
  ASSUME MaxInstances \in Nat, MaxInterfaces \in Nat
  PROVE  Matching!Spec => []Matching!FirewallSidesAgree
<1>1. Matching!FirewallInstances => Matching!FirewallSidesAgree
  <2> SUFFICES ASSUME Matching!FirewallInstances, Matching!FirewallMatched,
                      NEW k \in DOMAIN instances,
                      NEW v \in Matching!InstancesSeen(k), NEW r \in Matching!RulesSeen
               PROVE  /\ Matching!IsShown(v, r) => Matching!Found(k) # {}
                      /\ Matching!Found(k) # {} /\ Matching!HasNoTargets(r) /\ Matching!HasPorts(r)
                           => Matching!IsShown(v, r)
    BY DEF Matching!FirewallSidesAgree
  <2>1. v.networkInterfaces = instances[k].networkInterfaces
    BY DEF Matching!InstancesSeen
  <2>2. r.network = rule.network
    BY DEF Matching!RulesSeen
  <2>3. rule.network \in Matching!_get_instance_network_info(v) <=> Matching!OnNetwork(instances[k])
    BY <2>1 DEF Matching!_get_instance_network_info, Matching!OnNetwork
  <2>4. Matching!Found(k) # {} <=> Matching!OnNetwork(instances[k])
    BY DEF Matching!FirewallInstances, Matching!FirewallMatched
  <2>5. Matching!Applies(v, r) => Matching!OnNetwork(instances[k])
    BY <2>2, <2>3 DEF Matching!Applies
  <2>6. Matching!OnNetwork(instances[k]) /\ Matching!HasNoTargets(r) => Matching!Applies(v, r)
    BY <2>2, <2>3 DEF Matching!Applies, Matching!HasNoTargets
  <2> QED BY <2>4, <2>5, <2>6, ShownIfApplies
<1>2. Matching!Spec => [](Matching!FirewallInstances /\ Matching!UntaggedRouteInstances)
  BY InstancesListed
<1> QED BY <1>1, <1>2, PTL

-----------------------------------------------------------------------------
\* External addresses.

EntryType == [address : IP, kind : {"Static", "Ephemeral"}, region : Region \cup {"", "global"}]

Shows(ip) == \E k \in DOMAIN vos : vos[k].address = ip

\* An entry says of its address what the listings determine.
EntryTrue(e) ==
  /\ e.kind = "Static" <=> External!Reserved(e.address)
  /\ e.kind = "Ephemeral" =>
       External!RegionCode(e) \in
         IF External!RuleUses(e.address) # {}
         THEN {IF use.region = "" THEN "global" ELSE use.region :
                 use \in External!RuleUses(e.address)}
         ELSE {use.region : use \in External!VMUses(e.address)}

InputsOK ==
  /\ DOMAIN all_addresses \subseteq IP
  /\ \A ip \in DOMAIN all_addresses : all_addresses[ip] \in External!ListedAddress
  /\ \A r \in DOMAIN forwarding_rule_address :
       forwarding_rule_address[r] \in External!ListedRule
  /\ \A v \in DOMAIN all_instances : all_instances[v] \in External!AccessConfig

\* The listings that have been gone through are shown: all of them before the
\* one in work, and of that one what is no longer to do.
ShownSoFar ==
  /\ \A ip \in IP : External!Reserved(ip) /\ ~(source = "addresses" /\ ip \in todo) => Shows(ip)
  /\ \A r \in DOMAIN forwarding_rule_address :
       /\ forwarding_rule_address[r].loadBalancingScheme = "EXTERNAL"
       /\ (source = "rules" /\ r \notin todo) \/ source \in {"instances", "merged"}
       => Shows(forwarding_rule_address[r].IPAddress)
  /\ \A v \in DOMAIN all_instances :
       (source = "instances" /\ v \notin todo) \/ source = "merged"
       => Shows(all_instances[v].natIP)

\* What keeps an address from being listed twice: reserved ones are distinct,
\* the others are looked for among those listed so far.
AddressInv ==
  /\ source \in {"addresses", "rules", "instances", "merged"}
  /\ vos \in Seq(EntryType)
  /\ check_dup = [k \in DOMAIN vos |-> vos[k].address]
  /\ source = "addresses" => todo \subseteq DOMAIN all_addresses
  /\ source = "rules" => todo \subseteq DOMAIN forwarding_rule_address
  /\ source = "instances" => todo \subseteq DOMAIN all_instances
  /\ source = "merged" => todo = {}
  /\ InputsOK
  /\ \A j, k \in DOMAIN vos : vos[j].address = vos[k].address => j = k
  /\ source = "addresses" => \A k \in DOMAIN vos : vos[k].address \notin todo
  /\ \A k \in DOMAIN vos : EntryTrue(vos[k])
  /\ ShownSoFar

LEMMA SeenIsShown ==
  ASSUME AddressInv, NEW ip PROVE External!Seen(ip) <=> Shows(ip)
BY DEF AddressInv, Shows, External!Seen

\* What the listings determine does not change while they are merged.
LEMMA InputsStay ==
  ASSUME UNCHANGED External!inputs
  PROVE  /\ \A x : EntryTrue(x)' <=> EntryTrue(x)
         /\ \A ip : External!Reserved(ip)' <=> External!Reserved(ip)
         /\ InputsOK' <=> InputsOK
<1>1. UNCHANGED <<all_addresses, forwarding_rule_address, all_instances>>
  BY DEF External!inputs
<1>2. \A ip : /\ External!Reserved(ip)' <=> External!Reserved(ip)
             /\ External!RuleUses(ip)' = External!RuleUses(ip)
             /\ External!VMUses(ip)' = External!VMUses(ip)
  BY <1>1 DEF External!Reserved, External!RuleUses, External!VMUses
<1>3. \A x : External!RegionCode(x)' = External!RegionCode(x)
  BY DEF External!RegionCode
<1>4. InputsOK' <=> InputsOK
  BY <1>1 DEF InputsOK
<1>5. \A x : EntryTrue(x)' <=> EntryTrue(x)
  BY <1>2, <1>3, Zenon DEF EntryTrue
<1> QED BY <1>2, <1>4, <1>5

\* One more entry, for an address that was not shown.
LEMMA Collecting ==
  ASSUME AddressInv, NEW e \in EntryType, EntryTrue(e), ~Shows(e.address), External!Collect(e),
         UNCHANGED External!inputs
  PROVE  /\ vos' \in Seq(EntryType)
         /\ check_dup' = [k \in DOMAIN vos' |-> vos'[k].address]
         /\ \A j, k \in DOMAIN vos' : vos'[j].address = vos'[k].address => j = k
         /\ \A k \in DOMAIN vos' : vos'[k].address = e.address
              \/ \E j \in DOMAIN vos : vos'[k] = vos[j]
         /\ (\A k \in DOMAIN vos : EntryTrue(vos[k]))'
         /\ \A ip : Shows(ip)' <=> Shows(ip) \/ ip = e.address
<1> DEFINE n == Len(vos) + 1
<1>1. /\ vos \in Seq(EntryType) /\ Len(vos) \in Nat /\ DOMAIN vos = 1 .. Len(vos)
      /\ vos' = Append(vos, e)
  BY DEF AddressInv, External!Collect
<1>2. /\ DOMAIN vos' = DOMAIN vos \cup {n} /\ n \notin DOMAIN vos
      /\ vos'[n] = e /\ \A k \in DOMAIN vos : vos'[k] = vos[k]
  BY <1>1
<1>3. \A x : EntryTrue(x)' <=> EntryTrue(x)
  BY InputsStay
<1>4. check_dup' = [k \in DOMAIN vos' |-> vos'[k].address]
  <2>1. check_dup = [k \in DOMAIN vos |-> vos[k].address]
          /\ check_dup' = Append(check_dup, e.address)
    BY DEF AddressInv, External!Collect
  <2>2. check_dup \in Seq(IP) /\ Len(check_dup) = Len(vos)
    <3>1. \A k \in DOMAIN vos : vos[k].address \in IP
      <4>1. \A k \in DOMAIN vos : vos[k] \in EntryType
        BY <1>1
      <4> QED BY <4>1 DEF EntryType
    <3>2. check_dup \in [1 .. Len(vos) -> IP]
      BY <1>1, <2>1, <3>1
    <3> QED BY <1>1, <3>2
  <2>3. DOMAIN check_dup' = 1 .. n /\ check_dup'[n] = e.address
        /\ \A k \in 1 .. Len(vos) : check_dup'[k] = vos[k].address
    BY <1>1, <2>1, <2>2
  <2>4. \A k \in DOMAIN vos' : check_dup'[k] = vos'[k].address
    BY <1>1, <1>2, <2>3
  <2>5. check_dup' = [k \in DOMAIN check_dup' |-> check_dup'[k]]
    BY <2>1, <2>2
  <2>6. DOMAIN check_dup' = DOMAIN vos'
    BY <1>1, <1>2, <2>3
  <2> QED BY <2>4, <2>5, <2>6, Zenon
<1> HIDE DEF n
<1>5. \A k \in DOMAIN vos : vos[k].address # e.address
  BY DEF Shows
<1>6. \A j, k \in DOMAIN vos' : vos'[j].address = vos'[k].address => j = k
  BY <1>2, <1>5 DEF AddressInv
<1>7. (\A k \in DOMAIN vos : EntryTrue(vos[k]))'
  <2>1. \A k \in DOMAIN vos' : EntryTrue(vos'[k])
    BY <1>2 DEF AddressInv
  <2>2. \A k \in DOMAIN vos' : \A x : x = vos'[k] => EntryTrue(x)'
    BY <1>3, <2>1
  <2> QED BY <2>2
<1>8. \A ip : Shows(ip)' <=> Shows(ip) \/ ip = e.address
  BY <1>2 DEF Shows
<1>9. vos' \in Seq(EntryType)
  BY <1>1
<1> QED BY <1>2, <1>4, <1>6, <1>7, <1>8, <1>9

LEMMA InitAddressInv == ASSUME External!Init PROVE AddressInv
<1>1. InputsOK
  BY DEF External!Init, InputsOK
<1>2. vos = <<>> /\ check_dup = <<>> /\ source = "addresses" /\ todo = DOMAIN all_addresses
  BY DEF External!Init
<1>3. vos \in Seq(EntryType) /\ DOMAIN vos = {} /\ check_dup = [k \in DOMAIN vos |-> vos[k].address]
  BY <1>2
<1>4. ShownSoFar
  BY <1>2 DEF ShownSoFar, External!Reserved
<1> QED BY <1>1, <1>2, <1>3, <1>4 DEF AddressInv

\* An item that is not collected changes nothing but what is to do.
LEMMA Passing ==
  ASSUME AddressInv, UNCHANGED External!inputs, UNCHANGED <<source, check_dup, vos>>,
         todo' \subseteq todo, ShownSoFar'
  PROVE  AddressInv'
<1>1. (\A k \in DOMAIN vos : EntryTrue(vos[k]))'
  <2>1. \A k \in DOMAIN vos' : \A x : x = vos'[k] => EntryTrue(x)'
    BY InputsStay DEF AddressInv
  <2> QED BY <2>1
<1>2. InputsOK' /\ UNCHANGED <<all_addresses, forwarding_rule_address, all_instances>>
  BY InputsStay DEF AddressInv, External!inputs
<1> QED BY <1>1, <1>2 DEF AddressInv

LEMMA AddAddressKeeps ==
  ASSUME AddressInv, External!AddAddress PROVE AddressInv'
<1>1. /\ source = "addresses" /\ source' = source /\ UNCHANGED External!inputs
      /\ UNCHANGED <<all_addresses, forwarding_rule_address, all_instances>>
  BY DEF External!AddAddress, External!inputs
<1>2. PICK ip \in todo :
        /\ todo' = todo \ {ip}
        /\ IF all_addresses[ip].addressType = "EXTERNAL"
           THEN External!Collect(External!Entry(ip, "Static", External!StaticRegion(all_addresses[ip].region)))
           ELSE UNCHANGED <<check_dup, vos>>
  BY DEF External!AddAddress
<1>3. InputsOK' /\ \A a : External!Reserved(a)' <=> External!Reserved(a)
  BY <1>1, InputsStay DEF AddressInv
<1>5. ip \in DOMAIN all_addresses /\ ip \in IP /\ all_addresses[ip] \in External!ListedAddress
  BY <1>1, <1>2 DEF AddressInv, InputsOK
<1>6. CASE all_addresses[ip].addressType = "EXTERNAL"
  <2> PICK e : e = External!Entry(ip, "Static", External!StaticRegion(all_addresses[ip].region))
    OBVIOUS
  <2>1. e \in EntryType /\ e.address = ip /\ e.kind = "Static"
    BY <1>5 DEF External!Entry, External!StaticRegion, EntryType
  <2>2. External!Reserved(ip)
    BY <1>5, <1>6 DEF External!Reserved
  <2>3. EntryTrue(e)
    BY <2>1, <2>2 DEF EntryTrue
  <2>4. ~Shows(e.address)
    BY <1>1, <1>2, <2>1 DEF AddressInv, Shows
  <2>5. External!Collect(e)
    BY <1>2, <1>6
  <2>6. ShownSoFar'
    BY <1>1, <1>2, <1>3, <2>1, <2>3, <2>4, <2>5, Collecting DEF ShownSoFar, AddressInv
  <2> QED BY <1>1, <1>2, <1>3, <2>1, <2>3, <2>4, <2>5, <2>6, Collecting DEF AddressInv
<1>7. CASE all_addresses[ip].addressType # "EXTERNAL"
  <2>1. ~External!Reserved(ip) /\ UNCHANGED <<check_dup, vos>>
    BY <1>2, <1>7 DEF External!Reserved
  <2>2. ShownSoFar'
    BY <1>1, <1>2, <1>3, <2>1 DEF AddressInv, ShownSoFar, Shows
  <2> QED BY <1>1, <1>2, <2>1, <2>2, Passing
<1> QED BY <1>6, <1>7

LEMMA AddRuleKeeps ==
  ASSUME AddressInv, External!AddRule PROVE AddressInv'
<1>1. /\ source = "rules" /\ source' = source /\ UNCHANGED External!inputs
      /\ UNCHANGED <<all_addresses, forwarding_rule_address, all_instances>>
  BY DEF External!AddRule, External!inputs
<1>2. PICK r \in todo :
        /\ todo' = todo \ {r}
        /\ IF forwarding_rule_address[r].loadBalancingScheme = "EXTERNAL"
                /\ ~External!Seen(forwarding_rule_address[r].IPAddress)
           THEN External!Collect(External!Entry(forwarding_rule_address[r].IPAddress, "Ephemeral",
                                   External!RuleRegion(forwarding_rule_address[r].region)))
           ELSE UNCHANGED <<check_dup, vos>>
  BY DEF External!AddRule
<1> DEFINE listedRule == forwarding_rule_address[r]
<1>3. InputsOK' /\ \A a : External!Reserved(a)' <=> External!Reserved(a)
  BY <1>1, InputsStay DEF AddressInv
<1>4. r \in DOMAIN forwarding_rule_address /\ listedRule \in External!ListedRule
  BY <1>1, <1>2 DEF AddressInv, InputsOK
<1>5. listedRule.IPAddress \in IP /\ listedRule.region \in Region \cup {""}
  BY <1>4 DEF External!ListedRule
<1>6. External!Seen(listedRule.IPAddress) <=> Shows(listedRule.IPAddress)
  BY SeenIsShown
<1>7. CASE listedRule.loadBalancingScheme = "EXTERNAL" /\ ~External!Seen(listedRule.IPAddress)
  <2> PICK e : e = External!Entry(listedRule.IPAddress, "Ephemeral", External!RuleRegion(listedRule.region))
    OBVIOUS
  <2>1. /\ e \in EntryType /\ e.address = listedRule.IPAddress /\ e.kind = "Ephemeral"
        /\ e.region = IF listedRule.region = "" THEN "global" ELSE listedRule.region
    BY <1>5 DEF External!Entry, External!RuleRegion, EntryType
  <2>2. ~External!Reserved(listedRule.IPAddress)
    BY <1>1, <1>5, <1>6, <1>7 DEF AddressInv, ShownSoFar
  <2>3. listedRule \in External!RuleUses(e.address)
    BY <1>4, <1>7, <2>1 DEF External!RuleUses
  <2>4. External!RegionCode(e) = IF listedRule.region = "" THEN "global" ELSE listedRule.region
    BY <2>1 DEF External!RegionCode
  <2>5. EntryTrue(e)
    BY <2>1, <2>2, <2>3, <2>4, Zenon DEF EntryTrue
  <2>6. External!Collect(e) /\ ~Shows(e.address)
    BY <1>2, <1>6, <1>7, <2>1
  <2>7. ShownSoFar'
    BY <1>1, <1>2, <1>3, <2>1, <2>5, <2>6, Collecting DEF ShownSoFar, AddressInv
  <2> QED BY <1>1, <1>2, <1>3, <2>1, <2>5, <2>6, <2>7, Collecting DEF AddressInv
<1>8. CASE ~(listedRule.loadBalancingScheme = "EXTERNAL" /\ ~External!Seen(listedRule.IPAddress))
  <2>1. UNCHANGED <<check_dup, vos>>
    BY <1>2, <1>8
  <2>2. ShownSoFar'
    BY <1>1, <1>2, <1>3, <1>6, <1>8, <2>1 DEF AddressInv, ShownSoFar, Shows
  <2> QED BY <1>1, <1>2, <2>1, <2>2, Passing
<1> QED BY <1>7, <1>8

LEMMA AddAccessConfigKeeps ==
  ASSUME External!RegionsNamed, AddressInv, External!AddAccessConfig PROVE AddressInv'
<1>1. /\ source = "instances" /\ source' = source /\ UNCHANGED External!inputs
      /\ UNCHANGED <<all_addresses, forwarding_rule_address, all_instances>>
  BY DEF External!AddAccessConfig, External!inputs
<1>2. PICK v \in todo :
        /\ todo' = todo \ {v}
        /\ IF ~External!Seen(all_instances[v].natIP)
           THEN External!Collect(External!Entry(all_instances[v].natIP, "Ephemeral",
                                                all_instances[v].region))
           ELSE UNCHANGED <<check_dup, vos>>
  BY DEF External!AddAccessConfig
<1> DEFINE config == all_instances[v]
<1>3. InputsOK' /\ \A a : External!Reserved(a)' <=> External!Reserved(a)
  BY <1>1, InputsStay DEF AddressInv
<1>4. v \in DOMAIN all_instances /\ config \in External!AccessConfig
  BY <1>1, <1>2 DEF AddressInv, InputsOK
<1>5. config.natIP \in IP /\ config.region \in Region
  BY <1>4 DEF External!AccessConfig
<1>6. External!Seen(config.natIP) <=> Shows(config.natIP)
  BY SeenIsShown
<1>7. CASE ~External!Seen(config.natIP)
  <2> PICK e : e = External!Entry(config.natIP, "Ephemeral", config.region)
    OBVIOUS
  <2>1. /\ e \in EntryType /\ e.address = config.natIP /\ e.kind = "Ephemeral"
        /\ e.region = config.region
    BY <1>5 DEF External!Entry, EntryType
  <2>2. ~External!Reserved(config.natIP)
    BY <1>1, <1>5, <1>6, <1>7 DEF AddressInv, ShownSoFar
  <2>3. External!RuleUses(e.address) = {}
    BY <1>1, <1>6, <1>7, <2>1 DEF AddressInv, ShownSoFar, External!RuleUses
  <2>4. config \in External!VMUses(e.address)
    BY <1>4, <2>1 DEF External!VMUses
  <2>5. External!RegionCode(e) = config.region
    BY <1>5, <2>1 DEF External!RegionCode, External!RegionsNamed
  <2>6. EntryTrue(e)
    BY <2>1, <2>2, <2>3, <2>4, <2>5, Zenon DEF EntryTrue
  <2>7. External!Collect(e) /\ ~Shows(e.address)
    BY <1>2, <1>6, <1>7, <2>1
  <2>8. ShownSoFar'
    BY <1>1, <1>2, <1>3, <2>1, <2>6, <2>7, Collecting DEF ShownSoFar, AddressInv
  <2> QED BY <1>1, <1>2, <1>3, <2>1, <2>6, <2>7, <2>8, Collecting DEF AddressInv
<1>8. CASE External!Seen(config.natIP)
  <2>1. UNCHANGED <<check_dup, vos>>
    BY <1>2, <1>8
  <2>2. ShownSoFar'
    BY <1>1, <1>2, <1>3, <1>6, <1>8, <2>1 DEF AddressInv, ShownSoFar, Shows
  <2> QED BY <1>1, <1>2, <2>1, <2>2, Passing
<1> QED BY <1>7, <1>8

LEMMA NextSourceKeeps ==
  ASSUME AddressInv, External!NextSource PROVE AddressInv'
<1>1. /\ UNCHANGED External!inputs /\ UNCHANGED <<check_dup, vos>> /\ todo = {}
      /\ UNCHANGED <<all_addresses, forwarding_rule_address, all_instances>>
  BY DEF External!NextSource, External!inputs
<1>2. \/ source = "addresses" /\ source' = "rules" /\ todo' = DOMAIN forwarding_rule_address
      \/ source = "rules" /\ source' = "instances" /\ todo' = DOMAIN all_instances
      \/ source = "instances" /\ source' = "merged" /\ todo' = todo
  BY DEF External!NextSource
<1>3. (\A k \in DOMAIN vos : EntryTrue(vos[k]))'
  <2>1. \A k \in DOMAIN vos' : \A x : x = vos'[k] => EntryTrue(x)'
    BY <1>1, InputsStay DEF AddressInv
  <2> QED BY <2>1
<1>4. InputsOK' /\ \A a : External!Reserved(a)' <=> External!Reserved(a)
  BY <1>1, InputsStay DEF AddressInv
<1>5. \A ip : Shows(ip)' <=> Shows(ip)
  BY <1>1 DEF Shows
<1>6. ShownSoFar'
  BY <1>1, <1>2, <1>4, <1>5 DEF AddressInv, ShownSoFar
<1> QED BY <1>1, <1>2, <1>3, <1>4, <1>6 DEF AddressInv

\* In the end an address is shown exactly if one of the listings has it.
LEMMA ShownInTheEnd ==
  ASSUME AddressInv, source = "merged", NEW ip \in IP
  PROVE  Shows(ip) <=> \/ External!Reserved(ip) \/ External!RuleUses(ip) # {}
                       \/ External!VMUses(ip) # {}
<1>1. ASSUME NEW k \in DOMAIN vos, vos[k].address = ip
      PROVE  \/ External!Reserved(ip) \/ External!RuleUses(ip) # {} \/ External!VMUses(ip) # {}
  <2>1. vos[k] \in EntryType /\ EntryTrue(vos[k])
    BY DEF AddressInv
  <2>2. CASE vos[k].kind = "Static"
    BY <1>1, <2>1, <2>2 DEF EntryTrue
  <2>3. CASE vos[k].kind = "Ephemeral"
    BY <1>1, <2>1, <2>3 DEF EntryTrue
  <2> QED BY <2>1, <2>2, <2>3 DEF EntryType
<1>2. ASSUME External!Reserved(ip) PROVE Shows(ip)
  BY <1>2 DEF AddressInv, ShownSoFar
<1>3. ASSUME External!RuleUses(ip) # {} PROVE Shows(ip)
  BY <1>3 DEF AddressInv, ShownSoFar, External!RuleUses
<1>4. ASSUME External!VMUses(ip) # {} PROVE Shows(ip)
  BY <1>4 DEF AddressInv, ShownSoFar, External!VMUses
<1> QED BY <1>1, <1>2, <1>3, <1>4 DEF Shows

LEMMA AddressesCounted == ASSUME AddressInv PROVE External!EachAddressOnce
<1> SUFFICES ASSUME source = "merged", NEW ip \in IP
             PROVE  Cardinality({k \in DOMAIN vos : vos[k].address = ip}) =
                      IF \/ External!Reserved(ip) \/ External!RuleUses(ip) # {}
                         \/ External!VMUses(ip) # {} THEN 1 ELSE 0
  BY Zenon DEF External!EachAddressOnce, External!Cardinality, Cardinality
<1>1. CASE Shows(ip)
  <2>1. PICK k \in DOMAIN vos : vos[k].address = ip
    BY <1>1 DEF Shows
  <2>2. {j \in DOMAIN vos : vos[j].address = ip} = {k}
    BY <2>1 DEF AddressInv
  <2> QED BY <1>1, <2>2, ShownInTheEnd, FS_Singleton
<1>2. CASE ~Shows(ip)
  <2>1. {k \in DOMAIN vos : vos[k].address = ip} = {}
    BY <1>2 DEF Shows
  <2> QED BY <1>2, <2>1, ShownInTheEnd, FS_EmptySet
<1> QED BY <1>1, <1>2

\* However the listings share addresses, and in whatever order each of them is
\* gone through, an external address is reported once, as what it is and under
\* the region of what uses it.
LEMMA AddressInvariance ==
  ASSUME External!RegionsNamed
  PROVE  External!Spec => []AddressInv
<1>1. AddressInv /\ [External!Next]_External!vars => AddressInv'
  <2> SUFFICES ASSUME AddressInv, [External!Next]_External!vars PROVE AddressInv'
    OBVIOUS
  <2>1. CASE UNCHANGED External!vars
    <3>1. UNCHANGED External!inputs /\ UNCHANGED <<todo, source, check_dup, vos>>
      BY <2>1 DEF External!vars
    <3>2. UNCHANGED <<all_addresses, forwarding_rule_address, all_instances>>
      BY <3>1 DEF External!inputs
    <3>3. ShownSoFar'
      BY <3>1, <3>2 DEF AddressInv, ShownSoFar, Shows, External!Reserved
    <3> QED BY <3>1, <3>3, Passing
  <2> QED BY <2>1, AddAddressKeeps, AddRuleKeeps, AddAccessConfigKeeps, NextSourceKeeps
          DEF External!Next
<1> QED BY <1>1, InitAddressInv, PTL DEF External!Spec

LEMMA AddressesReported ==
  ASSUME External!RegionsNamed
  PROVE  External!Spec => [](External!EachAddressOnce /\ External!AddressKind)
<1>1. AddressInv => External!EachAddressOnce /\ External!AddressKind
  <2>1. AddressInv => External!AddressKind
    BY DEF AddressInv, EntryTrue, External!AddressKind
  <2> QED BY <2>1, AddressesCounted
<1> QED BY <1>1, AddressInvariance, PTL

-----------------------------------------------------------------------------
\* Load balancers.

BalancerInputsOK ==
  /\ DOMAIN proxies \subseteq Proxy
  /\ DOMAIN forwarding_rules \subseteq ForwardingRule
  /\ \A f \in DOMAIN forwarding_rules : forwarding_rules[f] \in Balancing!ListedRule
  /\ DOMAIN url_maps \subseteq UrlMap
  /\ DOMAIN backend_services \subseteq BackendService
  /\ backend_buckets \subseteq BackendBucket
  /\ health_checks \subseteq HealthCheck
  /\ target_pools \subseteq TargetPool

\* Each load balancer is collected or still to be, and is shown with what the
\* joins find; they depend on nothing the loop changes.
BalancerInv ==
  /\ BalancerInputsOK
  /\ DOMAIN collected \cup load_balancers =
       DOMAIN proxies \cup Balancing!_get_loadbalancer_from_forwarding_rule
  /\ \A lb \in DOMAIN collected :
       LET rules == Balancing!_get_forwarding_rules(lb)
           urlmap == Balancing!_get_urlmap(lb)
           services == Balancing!_get_backend_services(urlmap) IN
       /\ collected[lb].forwarding_rules = rules
       /\ collected[lb].backend_services = services
       /\ collected[lb].health_checks = Balancing!_get_health_checks(services)
       /\ collected[lb].backend_buckets = Balancing!_get_bucket_services(urlmap)
       /\ collected[lb].target_pools = Balancing!_get_target_pools(rules)

LEMMA InitBalancerInv == ASSUME Balancing!Init PROVE BalancerInv
<1>1. /\ DOMAIN proxies \subseteq Proxy
      /\ DOMAIN url_maps \subseteq UrlMap
      /\ DOMAIN backend_services \subseteq BackendService
  BY DEF Balancing!Init, Balancing!Partly
<1>2. PICK R \in SUBSET ForwardingRule : forwarding_rules \in [R -> Balancing!ListedRule]
  BY DEF Balancing!Init, Balancing!Partly
<1>3. BalancerInputsOK
  BY <1>1, <1>2 DEF Balancing!Init, BalancerInputsOK
<1>4. collected = <<>>
  BY DEF Balancing!Init
<1>5. DOMAIN collected = {}
  BY <1>4
<1>6. load_balancers = DOMAIN proxies \cup Balancing!_get_loadbalancer_from_forwarding_rule
  BY DEF Balancing!Init
<1> QED BY <1>3, <1>5, <1>6 DEF BalancerInv

LEMMA InputsDecide ==
  ASSUME UNCHANGED Balancing!inputs
  PROVE  /\ BalancerInputsOK' <=> BalancerInputsOK
         /\ Balancing!_get_loadbalancer_from_forwarding_rule' =
              Balancing!_get_loadbalancer_from_forwarding_rule
         /\ \A lb : /\ Balancing!_get_forwarding_rules(lb)' = Balancing!_get_forwarding_rules(lb)
                    /\ Balancing!_get_urlmap(lb)' = Balancing!_get_urlmap(lb)
         /\ \A u : /\ Balancing!_get_backend_services(u)' = Balancing!_get_backend_services(u)
                   /\ Balancing!_get_health_checks(u)' = Balancing!_get_health_checks(u)
                   /\ Balancing!_get_bucket_services(u)' = Balancing!_get_bucket_services(u)
                   /\ Balancing!_get_target_pools(u)' = Balancing!_get_target_pools(u)
<1>1. UNCHANGED <<proxies, forwarding_rules, url_maps, backend_services,
                  backend_buckets, health_checks, target_pools>>
  BY DEF Balancing!inputs
<1>2. BalancerInputsOK' <=> BalancerInputsOK
  BY <1>1 DEF BalancerInputsOK
<1>3. Balancing!_get_loadbalancer_from_forwarding_rule' =
        Balancing!_get_loadbalancer_from_forwarding_rule
  BY <1>1 DEF Balancing!_get_loadbalancer_from_forwarding_rule,
     Balancing!_check_forwarding_rule_is_loadbalancer
<1>4. ASSUME NEW lb
      PROVE  /\ Balancing!_get_forwarding_rules(lb)' = Balancing!_get_forwarding_rules(lb)
             /\ Balancing!_get_urlmap(lb)' = Balancing!_get_urlmap(lb)
  BY <1>1 DEF Balancing!_get_forwarding_rules, Balancing!_get_urlmap, Balancing!UrlMapLink,
     Balancing!IsRule
<1>5. ASSUME NEW u
      PROVE  /\ Balancing!_get_backend_services(u)' = Balancing!_get_backend_services(u)
             /\ Balancing!_get_health_checks(u)' = Balancing!_get_health_checks(u)
             /\ Balancing!_get_bucket_services(u)' = Balancing!_get_bucket_services(u)
             /\ Balancing!_get_target_pools(u)' = Balancing!_get_target_pools(u)
  BY <1>1 DEF Balancing!_get_backend_services, Balancing!_get_health_checks,
     Balancing!_get_bucket_services, Balancing!_get_target_pools, Balancing!DefaultService
<1> QED BY <1>2, <1>3, <1>4, <1>5

LEMMA StepBalancerInv ==
  ASSUME BalancerInv, [Balancing!Next]_(Balancing!vars)
  PROVE  BalancerInv'
<1>1. CASE Balancing!Next
  <2>1. PICK lb \in load_balancers :
          LET rules == Balancing!_get_forwarding_rules(lb)
              urlmap == Balancing!_get_urlmap(lb)
              services == Balancing!_get_backend_services(urlmap) IN
          /\ load_balancers' = load_balancers \ {lb}
          /\ DOMAIN collected' = DOMAIN collected \cup {lb}
          /\ \A l \in DOMAIN collected \ {lb} : collected'[l] = collected[l]
          /\ collected'[lb].forwarding_rules = rules
          /\ collected'[lb].backend_services = services
          /\ collected'[lb].health_checks = Balancing!_get_health_checks(services)
          /\ collected'[lb].backend_buckets = Balancing!_get_bucket_services(urlmap)
          /\ collected'[lb].target_pools = Balancing!_get_target_pools(rules)
    BY <1>1 DEF Balancing!Next, Balancing!BuildLoadBalancer
  <2>2. UNCHANGED Balancing!inputs
    BY <1>1 DEF Balancing!Next, Balancing!BuildLoadBalancer
  <2>3. UNCHANGED proxies
    BY <2>2 DEF Balancing!inputs
  <2> QED BY <2>1, <2>2, <2>3, InputsDecide DEF BalancerInv
<1>2. CASE UNCHANGED Balancing!vars
  <2>1. UNCHANGED Balancing!inputs /\ UNCHANGED <<load_balancers, collected>>
    BY <1>2 DEF Balancing!vars
  <2>2. UNCHANGED proxies
    BY <2>1 DEF Balancing!inputs
  <2> QED BY <2>1, <2>2, InputsDecide DEF BalancerInv
<1> QED BY <1>1, <1>2

\* What a load balancer made from a rule refers to, and one that is a proxy.
LEMMA RuleOrProxy ==
  ASSUME Balancing!LinksApart, BalancerInv, NEW lb \in DOMAIN collected
  PROVE  \/ /\ lb \in DOMAIN forwarding_rules /\ lb \notin Proxy
            /\ forwarding_rules[lb].target \in TargetPool
            /\ Balancing!_get_urlmap(lb) = {}
         \/ /\ lb \in DOMAIN proxies /\ lb \notin ForwardingRule
            /\ Balancing!_get_urlmap(lb) = {m \in DOMAIN url_maps : m = proxies[lb]}
<1>1. DOMAIN url_maps \subseteq UrlMap
  BY DEF BalancerInv, BalancerInputsOK
<1>2. lb \in DOMAIN proxies \cup Balancing!_get_loadbalancer_from_forwarding_rule
  BY DEF BalancerInv
<1>3. CASE lb \in DOMAIN proxies
  <2>1. lb \notin ForwardingRule /\ ~Balancing!IsRule(lb)
    BY <1>3 DEF BalancerInv, BalancerInputsOK, Balancing!LinksApart, Balancing!IsRule
  <2> QED BY <1>1, <1>3, <2>1 DEF Balancing!_get_urlmap, Balancing!UrlMapLink
<1>4. CASE lb \in Balancing!_get_loadbalancer_from_forwarding_rule
  <2>1. lb \in DOMAIN forwarding_rules /\ forwarding_rules[lb].target \in TargetPool
    BY <1>4 DEF Balancing!_get_loadbalancer_from_forwarding_rule,
       Balancing!_check_forwarding_rule_is_loadbalancer
  <2>2. lb \notin Proxy
    BY <2>1 DEF BalancerInv, BalancerInputsOK, Balancing!LinksApart
  <2>3. Balancing!_get_urlmap(lb) = {}
    BY <1>1, <2>1 DEF Balancing!_get_urlmap, Balancing!UrlMapLink, Balancing!IsRule,
       Balancing!LinksApart
  <2> QED BY <2>1, <2>2, <2>3
<1> QED BY <1>2, <1>3, <1>4

\* The load balancer a rule is shown with: its proxy, or itself.
LEMMA BalancersOfRule ==
  ASSUME Balancing!LinksApart, BalancerInv, load_balancers = {},
         NEW f \in DOMAIN forwarding_rules
  PROVE  {lb \in DOMAIN collected : f \in collected[lb].forwarding_rules} =
           IF forwarding_rules[f].target \in TargetPool THEN {f}
           ELSE {forwarding_rules[f].target} \cap DOMAIN proxies
<1> DEFINE target == forwarding_rules[f].target
<1>1. \A lb \in DOMAIN collected :
        f \in collected[lb].forwarding_rules <=> target = lb \/ f = lb
  <2>1. \A lb \in DOMAIN collected :
          collected[lb].forwarding_rules = Balancing!_get_forwarding_rules(lb)
    BY DEF BalancerInv
  <2>2. \A lb : f \in Balancing!_get_forwarding_rules(lb) <=> target = lb \/ f = lb
    BY DEF Balancing!_get_forwarding_rules
  <2> QED BY <2>1, <2>2
<1>2. DOMAIN collected =
        DOMAIN proxies
          \cup {r \in DOMAIN forwarding_rules : forwarding_rules[r].target \in TargetPool}
  BY DEF BalancerInv, Balancing!_get_loadbalancer_from_forwarding_rule,
     Balancing!_check_forwarding_rule_is_loadbalancer
<1>3. target \in Proxy \cup TargetPool \cup VpnGateway
  BY DEF BalancerInv, BalancerInputsOK, Balancing!ListedRule
<1>4. /\ f \notin DOMAIN proxies
      /\ target \notin DOMAIN forwarding_rules
      /\ target \in TargetPool => target \notin DOMAIN proxies
  BY <1>3 DEF BalancerInv, BalancerInputsOK, Balancing!LinksApart
<1> HIDE DEF target
<1>5. target = forwarding_rules[f].target
  BY DEF target
<1> QED BY <1>1, <1>2, <1>4, <1>5

LEMMA RulesCounted ==
  ASSUME Balancing!LinksApart, BalancerInv
  PROVE  Balancing!RuleShownOnce
<1> SUFFICES ASSUME load_balancers = {}, NEW f \in DOMAIN forwarding_rules
             PROVE  Cardinality({lb \in DOMAIN collected : f \in collected[lb].forwarding_rules}) =
                      IF forwarding_rules[f].target \in DOMAIN proxies \cup TargetPool
                      THEN 1 ELSE 0
  BY Zenon DEF Balancing!RuleShownOnce, Balancing!Cardinality, Cardinality
<1> DEFINE target == forwarding_rules[f].target
<1>1. Cardinality({f}) = 1 /\ Cardinality({target}) = 1 /\ Cardinality({}) = 0
  BY FS_Singleton, FS_EmptySet
<1>2. {target} \cap DOMAIN proxies = IF target \in DOMAIN proxies THEN {target} ELSE {}
  OBVIOUS
<1> QED BY <1>1, <1>2, BalancersOfRule

LEMMA ChecksFollowed ==
  ASSUME Balancing!LinksApart, BalancerInv
  PROVE  Balancing!HealthChecksOnTheWay
<1> SUFFICES ASSUME NEW lb \in DOMAIN collected
             PROVE  collected[lb].health_checks =
                      {h \in health_checks :
                         \E m \in DOMAIN url_maps, s \in DOMAIN backend_services :
                           /\ lb \in DOMAIN proxies /\ proxies[lb] = m
                           /\ url_maps[m] = s /\ h \in backend_services[s]}
  BY DEF Balancing!HealthChecksOnTheWay
<1> DEFINE services == Balancing!_get_backend_services(Balancing!_get_urlmap(lb))
<1>1. collected[lb].health_checks =
        {h \in health_checks : \E s \in services : h \in backend_services[s]}
  BY DEF BalancerInv, Balancing!_get_health_checks
<1>2. services =
        {s \in DOMAIN backend_services : \E m \in Balancing!_get_urlmap(lb) : url_maps[m] = s}
  BY DEF Balancing!_get_backend_services, Balancing!DefaultService
<1> HIDE DEF services
<1>3. CASE lb \notin DOMAIN proxies
  <2>1. Balancing!_get_urlmap(lb) = {}
    BY <1>3, RuleOrProxy
  <2>2. services = {}
    BY <1>2, <2>1
  <2> QED BY <1>1, <1>3, <2>2
<1>4. CASE lb \in DOMAIN proxies
  <2>1. lb \in Proxy
    BY <1>4 DEF BalancerInv, BalancerInputsOK
  <2>2. Balancing!_get_urlmap(lb) = {m \in DOMAIN url_maps : m = proxies[lb]}
    BY <2>1, RuleOrProxy
  <2>3. \A s : s \in services <=>
          /\ s \in DOMAIN backend_services
          /\ \E m \in DOMAIN url_maps : proxies[lb] = m /\ url_maps[m] = s
    BY <1>2, <2>2
  <2> QED BY <1>1, <1>4, <2>3
<1> QED BY <1>3, <1>4

\* What is shown behind a load balancer, in terms of what was listed.
LEMMA BehindBalancer ==
  ASSUME BalancerInv, NEW lb \in DOMAIN collected
  PROVE  /\ collected[lb].backend_services =
              {s \in DOMAIN backend_services :
                 \E m \in Balancing!_get_urlmap(lb) : url_maps[m] = s}
         /\ collected[lb].backend_buckets =
              {b \in backend_buckets :
                 \E m \in Balancing!_get_urlmap(lb) :
                   b = url_maps[m] \/ <<b, url_maps[m]>> \in PartOf}
         /\ collected[lb].target_pools =
              {p \in target_pools : \E f \in DOMAIN forwarding_rules :
                 (forwarding_rules[f].target = lb \/ f = lb) /\ forwarding_rules[f].target = p}
<1> DEFINE urlmap == Balancing!_get_urlmap(lb)
<1>1. /\ collected[lb].backend_services = Balancing!_get_backend_services(urlmap)
      /\ collected[lb].backend_buckets = Balancing!_get_bucket_services(urlmap)
  BY DEF BalancerInv
<1>2. collected[lb].target_pools =
        {p \in target_pools : \E f \in DOMAIN forwarding_rules :
           (forwarding_rules[f].target = lb \/ f = lb) /\ forwarding_rules[f].target = p}
  BY DEF BalancerInv, Balancing!_get_target_pools, Balancing!_get_forwarding_rules
<1> HIDE DEF urlmap
<1>3. /\ collected[lb].backend_services =
           {s \in DOMAIN backend_services : \E m \in urlmap : url_maps[m] = s}
      /\ collected[lb].backend_buckets =
           {b \in backend_buckets :
              \E m \in urlmap : b = url_maps[m] \/ <<b, url_maps[m]>> \in PartOf}
  BY <1>1 DEF Balancing!_get_backend_services, Balancing!_get_bucket_services,
     Balancing!DefaultService
<1> QED BY <1>2, <1>3 DEF urlmap

LEMMA GoesOneWay ==
  ASSUME Balancing!LinksApart, BalancerInv
  PROVE  Balancing!PoolOrBackend
<1> SUFFICES ASSUME NEW lb \in DOMAIN collected
             PROVE  /\ lb \in ForwardingRule =>
                         /\ collected[lb].target_pools =
                              {forwarding_rules[lb].target} \cap target_pools
                         /\ collected[lb].backend_services \cup collected[lb].backend_buckets = {}
                    /\ lb \in Proxy =>
                         /\ collected[lb].target_pools = {}
                         /\ \/ collected[lb].backend_services = {}
                            \/ collected[lb].backend_buckets = {}
                         /\ (collected[lb].backend_services \cup collected[lb].backend_buckets # {})
                              <=> Balancing!BackendListed(lb)
  BY Zenon DEF Balancing!PoolOrBackend
<1> DEFINE urlmap == Balancing!_get_urlmap(lb)
<1>1. /\ collected[lb].backend_services =
           {s \in DOMAIN backend_services : \E m \in urlmap : url_maps[m] = s}
      /\ collected[lb].backend_buckets =
           {b \in backend_buckets :
              \E m \in urlmap : b = url_maps[m] \/ <<b, url_maps[m]>> \in PartOf}
      /\ collected[lb].target_pools =
           {p \in target_pools : \E f \in DOMAIN forwarding_rules :
              (forwarding_rules[f].target = lb \/ f = lb) /\ forwarding_rules[f].target = p}
  BY BehindBalancer
<1>2. CASE lb \in DOMAIN forwarding_rules /\ lb \notin Proxy
  <2>1. urlmap = {}
    BY <1>2, RuleOrProxy DEF urlmap, BalancerInv, BalancerInputsOK
  <2>2. \A f \in DOMAIN forwarding_rules : forwarding_rules[f].target # lb
    BY <1>2 DEF BalancerInv, BalancerInputsOK, Balancing!ListedRule, Balancing!LinksApart
  <2> HIDE DEF urlmap
  <2>3. collected[lb].target_pools = {forwarding_rules[lb].target} \cap target_pools
    BY <1>1, <1>2, <2>2
  <2> QED BY <1>1, <1>2, <2>1, <2>3
<1>3. CASE lb \in DOMAIN proxies /\ lb \notin ForwardingRule
  <2>1. urlmap = {m \in DOMAIN url_maps : m = proxies[lb]}
    BY <1>3, RuleOrProxy DEF urlmap, BalancerInv, BalancerInputsOK
  <2>2. /\ DOMAIN backend_services \subseteq BackendService
        /\ backend_buckets \subseteq BackendBucket
        /\ BackendService \cap BackendBucket = {}
        /\ PartOf \subseteq BackendBucket \X BackendBucket
    BY DEF BalancerInv, BalancerInputsOK, Balancing!LinksApart
  <2> HIDE DEF urlmap
  <2>3. collected[lb].target_pools = {}
    <3>1. lb \notin target_pools /\ lb \notin DOMAIN forwarding_rules
      BY <1>3 DEF BalancerInv, BalancerInputsOK, Balancing!LinksApart
    <3> QED BY <1>1, <3>1
  <2>4. collected[lb].backend_services = {} \/ collected[lb].backend_buckets = {}
    <3>1. ASSUME NEW s \in collected[lb].backend_services, NEW b \in collected[lb].backend_buckets
          PROVE  FALSE
      <4>1. s = url_maps[proxies[lb]] /\ s \in BackendService
        BY <1>1, <2>1, <2>2
      <4>2. b = url_maps[proxies[lb]] \/ <<b, url_maps[proxies[lb]]>> \in PartOf
        BY <1>1, <2>1
      <4>3. b \in BackendBucket
        BY <1>1, <2>2
      <4>4. <<b, s>> \notin PartOf
        BY <2>2, <4>1
      <4> QED BY <2>2, <4>1, <4>2, <4>3, <4>4
    <3> QED BY <3>1
  <2>5. (collected[lb].backend_services \cup collected[lb].backend_buckets # {})
          <=> Balancing!BackendListed(lb)
    <3>1. \A m : m \in urlmap <=> m \in DOMAIN url_maps /\ proxies[lb] = m
      BY <2>1
    <3>2. Balancing!BackendListed(lb) <=>
            \E m \in urlmap :
              \/ url_maps[m] \in DOMAIN backend_services
              \/ url_maps[m] \in backend_buckets
              \/ \E b \in backend_buckets : <<b, url_maps[m]>> \in PartOf
      BY <3>1 DEF Balancing!BackendListed
    <3>3. collected[lb].backend_services # {} <=>
            \E m \in urlmap : url_maps[m] \in DOMAIN backend_services
      BY <1>1
    <3>4. collected[lb].backend_buckets # {} <=>
            \E m \in urlmap :
              \/ url_maps[m] \in backend_buckets
              \/ \E b \in backend_buckets : <<b, url_maps[m]>> \in PartOf
      <4>1. \A b : b \in collected[lb].backend_buckets <=>
              /\ b \in backend_buckets
              /\ \E m \in urlmap : b = url_maps[m] \/ <<b, url_maps[m]>> \in PartOf
        BY <1>1
      <4>2. collected[lb].backend_buckets # {} <=> \E b : b \in collected[lb].backend_buckets
        OBVIOUS
      <4> QED BY <4>1, <4>2, Zenon
    <3>5. (collected[lb].backend_services \cup collected[lb].backend_buckets # {})
            <=> collected[lb].backend_services # {} \/ collected[lb].backend_buckets # {}
      OBVIOUS
    <3> QED BY <3>2, <3>3, <3>4, <3>5
  <2> QED BY <1>3, <2>3, <2>4, <2>5
<1>4. \/ lb \in DOMAIN forwarding_rules /\ lb \notin Proxy
      \/ lb \in DOMAIN proxies /\ lb \notin ForwardingRule
  BY RuleOrProxy
<1> QED BY <1>2, <1>3, <1>4

\* Every forwarding rule that goes to a listed proxy or to a pool is shown with
\* one load balancer, and a load balancer with the health checks behind it and
\* with its pool or its backend as far as these were listed, for any number of
\* each and however they refer to one another.
LEMMA BalancersJoined ==
  ASSUME Balancing!LinksApart
  PROVE  Balancing!Spec =>
           [](Balancing!RuleShownOnce /\ Balancing!HealthChecksOnTheWay /\ Balancing!PoolOrBackend)
<1>1. BalancerInv =>
        Balancing!RuleShownOnce /\ Balancing!HealthChecksOnTheWay /\ Balancing!PoolOrBackend
  BY RulesCounted, ChecksFollowed, GoesOneWay
<1> QED BY <1>1, InitBalancerInv, StepBalancerInv, PTL DEF Balancing!Spec

-----------------------------------------------------------------------------
\* Networks.

\* What lasts is part of the project, together with what it needs.
LastingInv ==
  /\ lasting \subseteq project
  /\ VPCs!Consistent(project) /\ VPCs!Consistent(lasting)

\* What a listing that has returned holds: all that lasts, of its kind.
NetworksListed ==
  Len(listings) >= 1 =>
    \A n \in DOMAIN listings[1] :
      /\ listings[1][n] \subseteq {s \in Subnet : NetworkOf[s] = n}
      /\ {s \in lasting \cap Subnet : NetworkOf[s] = n} \subseteq listings[1][n]

OthersListed ==
  \A k \in 2 .. 5 : Len(listings) >= k =>
    /\ listings[k] \subseteq VPCs!Kind[VPCs!Calls[k]]
    /\ lasting \cap VPCs!Kind[VPCs!Calls[k]] \subseteq listings[k]

\* What a call may return: of networks their subnets, else objects.
Answers == (UNION {[found -> SUBSET Subnet] : found \in SUBSET Network})
             \cup SUBSET VPCs!Object

ListingsInv ==
  /\ listings \in Seq(Answers) /\ Len(listings) \in 0 .. 5
  /\ vpcs # <<>> => ~VPCs!Listing
  /\ NetworksListed /\ OthersListed

VPCInv == LastingInv /\ ListingsInv /\ VPCs!LastingShown

-----------------------------------------------------------------------------
\* Where the answer of each call is.
LEMMA Positions ==
  /\ VPCs!networks = listings[1]
  /\ VPCs!Listed("firewalls") = listings[2] /\ VPCs!Listed("subnets") = listings[3]
  /\ VPCs!Listed("routes") = listings[4] /\ VPCs!Listed("regional_address") = listings[5]
<1>1. DOMAIN VPCs!Calls = 1 .. 5 /\ Len(VPCs!Calls) = 5
  BY DEF VPCs!Calls
<1>2. ASSUME NEW k \in 1 .. 5
      PROVE  (CHOOSE j \in DOMAIN VPCs!Calls : VPCs!Calls[j] = VPCs!Calls[k]) = k
  <2>1. \A i, j \in 1 .. 5 : VPCs!Calls[i] = VPCs!Calls[j] => i = j
    BY DEF VPCs!Calls
  <2> QED
    BY <1>1, <2>1
<1>3. \A k \in 1 .. 5 : VPCs!Listed(VPCs!Calls[k]) = listings[k]
  BY <1>2 DEF VPCs!Listed
<1>4. /\ VPCs!Calls[1] = "networks" /\ VPCs!Calls[2] = "firewalls" /\ VPCs!Calls[3] = "subnets"
      /\ VPCs!Calls[4] = "routes" /\ VPCs!Calls[5] = "regional_address"
  BY DEF VPCs!Calls
<1> QED
  BY <1>3, <1>4 DEF VPCs!networks

LEMMA AllListed ==
  ASSUME ListingsInv, ~VPCs!Listing
  PROVE  Len(listings) = 5
<1>1. Len(VPCs!Calls) = 5
  BY DEF VPCs!Calls
<1>2. Len(listings) \in 0 .. 5
  BY DEF ListingsInv
<1>3. ~(Len(listings) < 5)
  BY <1>1 DEF VPCs!Listing
<1>4. \A k \in 0 .. 5 : ~(k < 5) => k = 5
  OBVIOUS
<1> QED BY <1>2, <1>3, <1>4

\* The joins of a network find what lasts if, and only if, it is its own.
LEMMA JoinsFindLasting ==
  ASSUME VPCs!AddressesApart, LastingInv, ListingsInv, ~VPCs!Listing,
         NEW n \in DOMAIN VPCs!networks, NEW o \in lasting \ Network
  PROVE  o \in UNION {VPCs!_get_matched_firewalls(n), VPCs!get_matched_route(n),
                      VPCs!_get_matched_subnets(n), VPCs!get_internal_ip_address_in_use(n)}
           <=> VPCs!Home(o) = n
<1>1. Len(listings) = 5
  BY AllListed
<1>2. /\ listings[2] \subseteq Firewall /\ lasting \cap Firewall \subseteq listings[2]
      /\ listings[3] \subseteq Subnet /\ lasting \cap Subnet \subseteq listings[3]
      /\ listings[4] \subseteq Route /\ lasting \cap Route \subseteq listings[4]
      /\ listings[5] \subseteq Address /\ lasting \cap Address \subseteq listings[5]
  <2>1. \A k \in 2 .. 5 : /\ listings[k] \subseteq VPCs!Kind[VPCs!Calls[k]]
                         /\ lasting \cap VPCs!Kind[VPCs!Calls[k]] \subseteq listings[k]
    BY <1>1 DEF ListingsInv, OthersListed
  <2>2. /\ VPCs!Kind[VPCs!Calls[2]] = Firewall /\ VPCs!Kind[VPCs!Calls[3]] = Subnet
        /\ VPCs!Kind[VPCs!Calls[4]] = Route /\ VPCs!Kind[VPCs!Calls[5]] = Address
    BY DEF VPCs!Kind, VPCs!Calls
  <2> QED
    BY <2>1, <2>2
<1>3. /\ listings[1][n] \subseteq {s \in Subnet : NetworkOf[s] = n}
      /\ {s \in lasting \cap Subnet : NetworkOf[s] = n} \subseteq listings[1][n]
  BY <1>1, Positions DEF ListingsInv, NetworksListed
<1>4. o \in VPCs!Object
  BY DEF LastingInv, VPCs!Consistent
<1>5. CASE o \in Address
  <2>1. SubnetOf[o] \in lasting \cap Subnet
    BY <1>5 DEF LastingInv, VPCs!Consistent, VPCs!Parents, VPCs!AddressesApart
  <2>2. SubnetOf[o] \in listings[1][n] <=> NetworkOf[SubnetOf[o]] = n
    BY <1>3, <2>1
  <2>3. o \in VPCs!get_internal_ip_address_in_use(n) <=> VPCs!Home(o) = n
    BY <1>2, <1>5, <2>2, Positions DEF VPCs!get_internal_ip_address_in_use, VPCs!Home
  <2>4. /\ o \notin VPCs!_get_matched_firewalls(n) /\ o \notin VPCs!get_matched_route(n)
        /\ o \notin VPCs!_get_matched_subnets(n)
    BY <1>2, <1>5, Positions
       DEF VPCs!_get_matched_firewalls, VPCs!get_matched_route, VPCs!_get_matched_subnets,
            VPCs!AddressesApart
  <2> QED
    BY <2>3, <2>4
<1>6. CASE o \notin Address
  <2>1. o \in Firewall \cup Subnet \cup Route
    BY <1>4, <1>6 DEF VPCs!Object
  <2>2. o \notin VPCs!get_internal_ip_address_in_use(n)
    BY <1>2, <1>6, Positions DEF VPCs!get_internal_ip_address_in_use
  <2>3. o \in VPCs!_get_matched_firewalls(n) \cup VPCs!get_matched_route(n) \cup VPCs!_get_matched_subnets(n)
          <=> NetworkOf[o] = n
    BY <1>2, <2>1, Positions
       DEF VPCs!_get_matched_firewalls, VPCs!get_matched_route, VPCs!_get_matched_subnets
  <2> QED
    BY <1>6, <2>2, <2>3 DEF VPCs!Home
<1> QED
  BY <1>5, <1>6

-----------------------------------------------------------------------------
LEMMA InitVPCInv == VPCs!Init => VPCInv
<1> SUFFICES ASSUME VPCs!Init PROVE VPCInv
  OBVIOUS
<1>1. LastingInv
  BY DEF VPCs!Init, VPCs!ProjectInit, LastingInv
<1>2. listings \in Seq(Answers) /\ Len(listings) = 0
  BY DEF VPCs!Init
<1>3. ListingsInv
  BY <1>2 DEF VPCs!Init, ListingsInv, NetworksListed, OthersListed
<1>4. VPCs!LastingShown
  BY DEF VPCs!Init, VPCs!LastingShown, VPCs!Built
<1> QED
  BY <1>1, <1>3, <1>4 DEF VPCInv

\* A change to the project: fewer objects last, and what they need still does.
LEMMA ChangeKeeps ==
  ASSUME LastingInv, NEW o \in VPCs!Object, VPCs!Change(o)
  PROVE  LastingInv' /\ lasting' \subseteq lasting
BY DEF LastingInv, VPCs!Change, VPCs!Consistent

LEMMA ChangesKeep == VPCInv /\ VPCs!ProjectChanges => VPCInv'
<1> SUFFICES ASSUME VPCInv, VPCs!ProjectChanges PROVE VPCInv'
  OBVIOUS
<1>1. LastingInv' /\ lasting' \subseteq lasting
  BY ChangeKeeps DEF VPCInv, VPCs!ProjectChanges
<1>2. listings' = listings /\ vpcs' = vpcs
  BY DEF VPCs!ProjectChanges
<1>3. NetworksListed' /\ OthersListed'
  BY <1>1, <1>2 DEF VPCInv, ListingsInv, NetworksListed, OthersListed
<1>4. ListingsInv'
  BY <1>2, <1>3 DEF VPCInv, ListingsInv, VPCs!Listing
<1>5. VPCs!LastingShown'
  BY <1>1, <1>2 DEF VPCInv, VPCs!LastingShown, VPCs!Shown, VPCs!Built
<1> QED
  BY <1>1, <1>4, <1>5 DEF VPCInv

LEMMA ListKeeps == VPCInv /\ VPCs!List => VPCInv'
<1> SUFFICES ASSUME VPCInv, VPCs!List PROVE VPCInv'
  OBVIOUS
<1> DEFINE k == Len(listings) + 1
           call == VPCs!Calls[k]
           found == project \cap VPCs!Kind[call]
           answer == IF call = "networks"
                     THEN [n \in found |-> {s \in project \cap Subnet : NetworkOf[s] = n}]
                     ELSE found
<1>1. /\ listings' = Append(listings, answer)
      /\ UNCHANGED <<project, lasting, vpcs>>
  BY DEF VPCs!List, VPCs!projectVars
<1>2. /\ listings \in Seq(Answers) /\ k \in 1 .. 5
  BY DEF VPCs!List, VPCs!Listing, VPCInv, ListingsInv, VPCs!Calls
<1>3. /\ call = "networks" <=> k = 1
      /\ k = 1 => VPCs!Kind[call] = Network
      /\ VPCs!Kind[call] \subseteq VPCs!Object
  BY <1>2 DEF VPCs!Calls, VPCs!Kind, VPCs!Object
<1>4. answer \in Answers
  <2>1. CASE k = 1
    <3>1. found \in SUBSET Network /\ answer \in [found -> SUBSET Subnet]
      BY <1>3, <2>1
    <3> QED
      BY <3>1 DEF Answers
  <2>2. CASE k # 1
    <3>1. answer = found /\ found \in SUBSET VPCs!Object
      BY <1>3, <2>2
    <3>2. SUBSET VPCs!Object \subseteq Answers
      BY DEF Answers
    <3> QED
      BY <3>1, <3>2
  <2> QED
    BY <2>1, <2>2
<1> HIDE DEF answer
<1>5. /\ listings' \in Seq(Answers) /\ Len(listings') = k
      /\ listings'[k] = answer
      /\ \A j \in 1 .. Len(listings) : listings'[j] = listings[j]
  BY <1>1, <1>2, <1>4
<1>6. LastingInv'
  BY <1>1 DEF VPCInv, LastingInv, VPCs!Consistent
<1>7. NetworksListed'
  <2>1. CASE k = 1
    BY <1>1, <1>3, <1>5, <2>1 DEF NetworksListed, answer, VPCInv, LastingInv
  <2>2. CASE k # 1
    <3>1. Len(listings) >= 1 /\ listings'[1] = listings[1]
      BY <1>2, <1>5, <2>2
    <3> QED
      BY <1>1, <3>1 DEF VPCInv, ListingsInv, NetworksListed
  <2> QED
    BY <2>1, <2>2
<1>8. OthersListed'
  <2> SUFFICES ASSUME NEW j \in 2 .. 5, Len(listings') >= j
               PROVE  /\ listings'[j] \subseteq VPCs!Kind[VPCs!Calls[j]]
                      /\ lasting \cap VPCs!Kind[VPCs!Calls[j]] \subseteq listings'[j]
    BY <1>1 DEF OthersListed
  <2>1. CASE j = k
    BY <1>3, <1>5, <2>1 DEF answer, VPCInv, LastingInv
  <2>2. CASE j # k
    <3>1. Len(listings) >= j /\ listings'[j] = listings[j]
      BY <1>2, <1>5, <2>2
    <3> QED
      BY <3>1 DEF VPCInv, ListingsInv, OthersListed
  <2> QED
    BY <2>1, <2>2
<1>9. vpcs' = <<>>
  BY <1>1 DEF VPCInv, ListingsInv, VPCs!List
<1>10. ListingsInv' /\ VPCs!LastingShown'
  BY <1>2, <1>5, <1>7, <1>8, <1>9 DEF ListingsInv, VPCs!LastingShown, VPCs!Built
<1> QED
  BY <1>6, <1>10 DEF VPCInv

LEMMA BuildKeeps ==
  ASSUME VPCs!AddressesApart, VPCInv, NEW m \in Network, VPCs!BuildNetwork(m)
  PROVE  VPCInv'
<1>1. UNCHANGED <<project, lasting, listings>>
  BY DEF VPCs!BuildNetwork, VPCs!projectVars
<1>2. LastingInv' /\ ListingsInv'
  BY <1>1 DEF VPCs!BuildNetwork, VPCInv, LastingInv, VPCs!Consistent, ListingsInv, VPCs!Listing,
              NetworksListed, OthersListed
<1>3. VPCs!LastingShown'
  <2> SUFFICES ASSUME NEW n \in Network, n \in DOMAIN vpcs',
                      NEW o \in lasting \ Network
               PROVE  o \in VPCs!Shown(n)' <=> VPCs!Home(o) = n
    BY <1>1 DEF VPCs!LastingShown, VPCs!Built
  <2>1. CASE n = m
    <3>1. VPCs!Shown(n)' = UNION {VPCs!_get_matched_firewalls(n), VPCs!get_matched_route(n),
                                  VPCs!_get_matched_subnets(n),
                                  VPCs!get_internal_ip_address_in_use(n)}
      BY <2>1 DEF VPCs!Shown, VPCs!BuildNetwork
    <3>2. ~VPCs!Listing /\ n \in DOMAIN VPCs!networks
      BY <2>1 DEF VPCs!BuildNetwork
    <3> QED
      BY <3>1, <3>2, JoinsFindLasting DEF VPCInv
  <2>2. CASE n # m
    <3>1. n \in DOMAIN vpcs /\ vpcs'[n] = vpcs[n]
      BY <2>2 DEF VPCs!BuildNetwork
    <3> QED
      BY <3>1 DEF VPCInv, VPCs!LastingShown, VPCs!Shown, VPCs!Built
  <2> QED
    BY <2>1, <2>2
<1> QED
  BY <1>2, <1>3 DEF VPCInv

\* Whatever is created and deleted while a project is being listed, and
\* between whichever calls: what lasts is shown with its own network, and
\* with no other.
LEMMA VPCInvariance ==
  ASSUME VPCs!AddressesApart
  PROVE  VPCs!Spec => []VPCInv
<1>1. VPCs!Init => VPCInv
  BY InitVPCInv
<1>2. VPCInv /\ [VPCs!Next]_(VPCs!vars) => VPCInv'
  <2> SUFFICES ASSUME VPCInv, [VPCs!Next]_(VPCs!vars) PROVE VPCInv'
    OBVIOUS
  <2>1. CASE VPCs!List
    BY <2>1, ListKeeps
  <2>2. CASE VPCs!ProjectChanges
    BY <2>2, ChangesKeep
  <2>3. ASSUME NEW n \in Network, VPCs!BuildNetwork(n) PROVE VPCInv'
    BY <2>3, BuildKeeps
  <2>4. CASE UNCHANGED VPCs!vars
    BY <2>4 DEF VPCs!vars, VPCs!projectVars, VPCInv, LastingInv, VPCs!Consistent, ListingsInv,
         VPCs!Listing,
                NetworksListed, OthersListed, VPCs!LastingShown, VPCs!Shown, VPCs!Built
  <2> QED
    BY <2>1, <2>2, <2>3, <2>4 DEF VPCs!Next
<1> QED
  BY <1>1, <1>2, PTL DEF VPCs!Spec

LEMMA LastingObjectsShown ==
  ASSUME VPCs!AddressesApart
  PROVE  VPCs!Spec => []VPCs!LastingShown
<1>1. VPCInv => VPCs!LastingShown
  BY DEF VPCInv
<1> QED BY <1>1, VPCInvariance, PTL

-----------------------------------------------------------------------------
\* Types.

LEMMA AddressesTyped == AddressInv => External!TypeOK
BY DEF AddressInv, External!TypeOK, EntryType

\* What a load balancer is shown with is of the right kinds.
LEMMA ShownKinds ==
  ASSUME BalancerInputsOK, NEW lb
  PROVE  LET rules == Balancing!_get_forwarding_rules(lb)
             urlmap == Balancing!_get_urlmap(lb)
             services == Balancing!_get_backend_services(urlmap) IN
         /\ rules \subseteq ForwardingRule /\ urlmap \subseteq UrlMap
         /\ services \subseteq BackendService
         /\ Balancing!_get_external_internal(rules)
              \subseteq {"EXTERNAL", "INTERNAL", "UnKnown"}
         /\ Balancing!_get_health_checks(services) \subseteq HealthCheck
         /\ Balancing!_get_bucket_services(urlmap) \subseteq BackendBucket
         /\ Balancing!_get_target_pools(rules) \subseteq TargetPool
<1> DEFINE rules == Balancing!_get_forwarding_rules(lb)
           urlmap == Balancing!_get_urlmap(lb)
           services == Balancing!_get_backend_services(urlmap)
<1>1. rules \subseteq ForwardingRule /\ rules \subseteq DOMAIN forwarding_rules
  BY DEF BalancerInputsOK, Balancing!_get_forwarding_rules
<1>2. urlmap \subseteq UrlMap
  BY DEF BalancerInputsOK, Balancing!_get_urlmap
<1>3. services \subseteq BackendService
  BY DEF BalancerInputsOK, Balancing!_get_backend_services
<1> HIDE DEF rules, urlmap, services
<1>4. Balancing!_get_external_internal(rules) \subseteq {"EXTERNAL", "INTERNAL", "UnKnown"}
  BY <1>1 DEF BalancerInputsOK, Balancing!_get_external_internal, Balancing!ListedRule
<1>5. Balancing!_get_health_checks(services) \subseteq HealthCheck
  BY DEF BalancerInputsOK, Balancing!_get_health_checks
<1>6. /\ Balancing!_get_bucket_services(urlmap) \subseteq BackendBucket
      /\ Balancing!_get_target_pools(rules) \subseteq TargetPool
  BY DEF BalancerInputsOK, Balancing!_get_bucket_services, Balancing!_get_target_pools
<1> QED BY <1>1, <1>2, <1>3, <1>4, <1>5, <1>6 DEF rules, urlmap, services

LEMMA BalancersTyped ==
  /\ Balancing!Init => Balancing!TypeOK
  /\ BalancerInv /\ Balancing!TypeOK /\ [Balancing!Next]_(Balancing!vars)
       => Balancing!TypeOK'
<1>1. Balancing!Init => Balancing!TypeOK
  <2> SUFFICES ASSUME Balancing!Init PROVE Balancing!TypeOK
    OBVIOUS
  <2>1. BalancerInv /\ collected = <<>>
    BY InitBalancerInv DEF Balancing!Init
  <2> QED
    BY <2>1 DEF BalancerInv, BalancerInputsOK, Balancing!TypeOK, Balancing!LoadBalancer,
                Balancing!_get_loadbalancer_from_forwarding_rule
<1>2. ASSUME BalancerInv, Balancing!TypeOK, Balancing!BuildLoadBalancer
      PROVE  Balancing!TypeOK'
  <2>1. PICK lb, shown :
          /\ lb \in load_balancers /\ load_balancers' = load_balancers \ {lb}
          /\ collected' = [l \in DOMAIN collected \cup {lb} |->
                             IF l # lb THEN collected[l] ELSE shown]
          /\ shown \in
               [forwarding_rules : SUBSET ForwardingRule,
                internal_or_external : {"EXTERNAL", "INTERNAL", "UnKnown"},
                urlmap : SUBSET UrlMap,
                backend_services : SUBSET BackendService,
                health_checks : SUBSET HealthCheck,
                backend_buckets : SUBSET BackendBucket,
                target_pools : SUBSET TargetPool]
    BY <1>2, ShownKinds DEF BalancerInv, Balancing!BuildLoadBalancer
  <2> QED BY <1>2, <2>1 DEF Balancing!TypeOK, Balancing!LoadBalancer
<1>3. ASSUME Balancing!TypeOK, UNCHANGED Balancing!vars
      PROVE  Balancing!TypeOK'
  BY <1>3 DEF Balancing!TypeOK, Balancing!vars, Balancing!LoadBalancer
<1> QED BY <1>1, <1>2, <1>3 DEF Balancing!Next

\* The facts that hold, and the history of those that did.
LEMMA ChangeTyped ==
  ASSUME VPCs!ProjectTypeOK, NEW o, VPCs!Change(o), MaxChanges \in Nat
  PROVE  VPCs!ProjectTypeOK'
BY DEF VPCs!ProjectTypeOK, VPCs!Change, VPCs!Consistent

LEMMA NetworksTyped ==
  ASSUME MaxChanges \in Nat
  PROVE  /\ VPCs!Init => VPCs!TypeOK
         /\ VPCInv /\ VPCs!TypeOK /\ [VPCs!Next]_(VPCs!vars) => VPCs!TypeOK'
<1>0. Len(VPCs!Calls) = 5
  BY DEF VPCs!Calls
<1>1. VPCs!Init => VPCs!TypeOK
  BY <1>0 DEF VPCs!Init, VPCs!ProjectInit, VPCs!TypeOK, VPCs!ProjectTypeOK, VPCs!Consistent
<1>2. ASSUME VPCInv, VPCs!TypeOK, VPCs!List PROVE VPCs!TypeOK'
  <2>1. VPCs!ProjectTypeOK' /\ vpcs' = vpcs /\ VPCs!Listing
    BY <1>2 DEF VPCs!TypeOK, VPCs!List, VPCs!ProjectTypeOK, VPCs!Consistent, VPCs!projectVars
  <2>2. VPCInv'
    BY <1>2, ListKeeps
  <2> QED
    BY <1>0, <1>2, <2>1, <2>2 DEF VPCs!TypeOK, VPCInv, ListingsInv
<1>3. ASSUME VPCs!TypeOK, VPCs!ProjectChanges PROVE VPCs!TypeOK'
  BY <1>3, ChangeTyped
     DEF VPCs!TypeOK, VPCs!ProjectChanges, VPCs!Listing, VPCs!networks, VPCs!Listed
<1>4. ASSUME VPCs!TypeOK, NEW n \in Network, VPCs!BuildNetwork(n) PROVE VPCs!TypeOK'
  <2>1. /\ ~VPCs!Listing /\ n \in DOMAIN VPCs!networks
        /\ DOMAIN vpcs' = DOMAIN vpcs \cup {n} /\ listings' = listings
        /\ UNCHANGED <<project, changes, lasting, ever>>
    BY <1>4 DEF VPCs!BuildNetwork, VPCs!projectVars
  <2>2. DOMAIN vpcs \subseteq DOMAIN VPCs!networks
    BY <1>4 DEF VPCs!TypeOK
  <2> QED
    BY <1>4, <2>1, <2>2 DEF VPCs!TypeOK, VPCs!Listing, VPCs!networks, VPCs!Listed,
                            VPCs!ProjectTypeOK, VPCs!Consistent
<1>5. ASSUME VPCs!TypeOK, UNCHANGED VPCs!vars PROVE VPCs!TypeOK'
  BY <1>5 DEF VPCs!TypeOK, VPCs!vars, VPCs!projectVars, VPCs!ProjectTypeOK,
              VPCs!Consistent, VPCs!Listing, VPCs!networks, VPCs!Listed
<1> QED BY <1>1, <1>2, <1>3, <1>4, <1>5 DEF VPCs!Next

-----------------------------------------------------------------------------
\* The managers together: one that is given work takes its own steps and no
\* other, since the others leave its variables as they are.

WorksMatching == "matching" \in working

LEMMA MatchingAlone == Spec => Matching!Spec \/ []~WorksMatching
<1>1. Init /\ WorksMatching => Matching!Init
  BY DEF Init, WorksMatching
<1>2. WorksMatching /\ [Next]_vars => WorksMatching' /\ [Matching!Next]_(Matching!vars)
  BY DEF Next, vars, WorksMatching, matchingVars, Matching!vars
<1>3. ~WorksMatching /\ [Next]_vars => ~WorksMatching'
  BY DEF Next, vars, WorksMatching
<1> QED BY <1>1, <1>2, <1>3, PTL DEF Spec, Matching!Spec

WorksExternal == "external" \in working

LEMMA ExternalAlone == Spec => External!Spec \/ []~WorksExternal
<1>1. Init /\ WorksExternal => External!Init
  BY DEF Init, WorksExternal
<1>2. WorksExternal /\ [Next]_vars => WorksExternal' /\ [External!Next]_(External!vars)
  BY DEF Next, vars, WorksExternal, externalVars, External!vars, External!inputs
<1>3. ~WorksExternal /\ [Next]_vars => ~WorksExternal'
  BY DEF Next, vars, WorksExternal
<1> QED BY <1>1, <1>2, <1>3, PTL DEF Spec, External!Spec

WorksBalancing == "balancing" \in working

LEMMA BalancingAlone == Spec => Balancing!Spec \/ []~WorksBalancing
<1>1. Init /\ WorksBalancing => Balancing!Init
  BY DEF Init, WorksBalancing
<1>2. WorksBalancing /\ [Next]_vars => WorksBalancing' /\ [Balancing!Next]_(Balancing!vars)
  BY DEF Next, vars, WorksBalancing, balancingVars, Balancing!vars, Balancing!inputs
<1>3. ~WorksBalancing /\ [Next]_vars => ~WorksBalancing'
  BY DEF Next, vars, WorksBalancing
<1> QED BY <1>1, <1>2, <1>3, PTL DEF Spec, Balancing!Spec

WorksVPCs == "vpcs" \in working

LEMMA VPCsAlone == Spec => VPCs!Spec \/ []~WorksVPCs
<1>1. Init /\ WorksVPCs => VPCs!Init
  BY DEF Init, WorksVPCs
<1>2. WorksVPCs /\ [Next]_vars => WorksVPCs' /\ [VPCs!Next]_(VPCs!vars)
  BY DEF Next, vars, WorksVPCs, vpcVars, VPCs!vars, VPCs!projectVars
<1>3. ~WorksVPCs /\ [Next]_vars => ~WorksVPCs'
  BY DEF Next, vars, WorksVPCs
<1> QED BY <1>1, <1>2, <1>3, PTL DEF Spec, VPCs!Spec

\* For any number of instances and of interfaces, and although the managers
\* overwrite the name they walk with, a firewall is shown with the instances of
\* its network, a route without tags with those of its own, each of them once.
THEOREM Instances == Spec => []InstancesMatched
<1>1. Matching!Spec => [](Matching!FirewallInstances /\ Matching!UntaggedRouteInstances)
  BY InstancesListed, BoundsAssumption
<1>2. (WorksMatching => Matching!FirewallInstances /\ Matching!UntaggedRouteInstances) =>
        InstancesMatched
  BY DEF WorksMatching, InstancesMatched
<1> QED BY <1>1, <1>2, MatchingAlone, PTL

\* An instance is shown with a rule only if the firewall is shown with the
\* instance, and conversely for rules without targets that have ports.
THEOREM FirewallPages == Spec => []FirewallSidesAgree
<1>1. Matching!Spec => [](Matching!FirewallSidesAgree)
  BY SidesAgree, BoundsAssumption
<1>2. (WorksMatching => Matching!FirewallSidesAgree) => FirewallSidesAgree
  BY DEF WorksMatching, FirewallSidesAgree
<1> QED BY <1>1, <1>2, MatchingAlone, PTL

\* However the listings share addresses, and in whatever order each of them is
\* gone through, an external address is reported once, as what it is and under
\* the region of what uses it.
THEOREM Addresses == Spec => []AddressesShown
<1>1. External!Spec => [](External!EachAddressOnce /\ External!AddressKind)
  BY AddressesReported, LinksAssumption
<1>2. (WorksExternal => External!EachAddressOnce /\ External!AddressKind) => AddressesShown
  BY DEF WorksExternal, AddressesShown
<1> QED BY <1>1, <1>2, ExternalAlone, PTL

\* Every forwarding rule that goes to a listed proxy or to a pool is shown with
\* one load balancer, and a load balancer with the health checks behind it and
\* with its pool or its backend, just when these were listed: however they
\* refer to one another and whatever is missing from a listing.
THEOREM Balancers == Spec => []BalancersShown
<1>1. Balancing!Spec =>
        [](Balancing!RuleShownOnce /\ Balancing!HealthChecksOnTheWay /\ Balancing!PoolOrBackend)
  BY BalancersJoined, LinksAssumption
<1>2. (WorksBalancing =>
        Balancing!RuleShownOnce /\ Balancing!HealthChecksOnTheWay /\ Balancing!PoolOrBackend) =>
          BalancersShown
  BY DEF WorksBalancing, BalancersShown
<1> QED BY <1>1, <1>2, BalancingAlone, PTL

\* Whatever is created and deleted between the calls, a network is shown with
\* everything in it that lasts and with nothing that lasts in another one.
THEOREM Networks == Spec => []LastingShown
<1>1. VPCs!Spec => [](VPCs!LastingShown)
  BY LastingObjectsShown, LinksAssumption
<1>2. (WorksVPCs => VPCs!LastingShown) => LastingShown
  BY DEF WorksVPCs, LastingShown
<1> QED BY <1>1, <1>2, VPCsAlone, PTL

\* No manager is ever in a state it has no name for: instances are shown by their
\* positions, a load balancer is collected or still to be, with resources of the
\* right kinds, and a network is shown only if it was listed.
THEOREM TypesCorrect == Spec => []TypeOK
<1>1. Spec => [](WorksMatching => Matching!TypeOK)
  <2>1. MatchInv => Matching!TypeOK
    BY DEF MatchInv
  <2>2. Matching!Spec => []MatchInv
    BY MatchInvariance, BoundsAssumption
  <2> QED BY <2>1, <2>2, MatchingAlone, PTL
<1>2. Spec => [](WorksExternal => External!TypeOK)
  <2>1. External!Spec => []AddressInv
    BY AddressInvariance, LinksAssumption
  <2> QED BY <2>1, AddressesTyped, ExternalAlone, PTL
<1>3. Spec => [](WorksBalancing => Balancing!TypeOK)
  <2>1. Balancing!Spec => []Balancing!TypeOK
    BY InitBalancerInv, StepBalancerInv, BalancersTyped, PTL DEF Balancing!Spec
  <2> QED BY <2>1, BalancingAlone, PTL
<1>4. Spec => [](WorksVPCs => VPCs!TypeOK)
  <2>1. VPCs!Spec => []VPCInv
    BY VPCInvariance, LinksAssumption
  <2>2. VPCs!Init => VPCs!TypeOK
    BY NetworksTyped, BoundsAssumption
  <2>3. VPCInv /\ VPCs!TypeOK /\ [VPCs!Next]_(VPCs!vars) => VPCs!TypeOK'
    BY NetworksTyped, BoundsAssumption
  <2>4. VPCs!Spec => []VPCs!TypeOK
    BY <2>1, <2>2, <2>3, PTL DEF VPCs!Spec
  <2> QED BY <2>4, VPCsAlone, PTL
<1>5. /\ WorksMatching => Matching!TypeOK
      /\ WorksExternal => External!TypeOK
      /\ WorksBalancing => Balancing!TypeOK
      /\ WorksVPCs => VPCs!TypeOK
      => TypeOK
  BY DEF TypeOK, WorksMatching, WorksExternal, WorksBalancing, WorksVPCs
<1> QED BY <1>1, <1>2, <1>3, <1>4, <1>5, PTL

=============================================================================
