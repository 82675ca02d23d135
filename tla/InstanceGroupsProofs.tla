----------------------- MODULE InstanceGroupsProofs -----------------------
(***************************************************************************)
(* GroupsAsTheyAre and UseShownOnBothEnds of InstanceGroups, for every     *)
(* project and any number of changes to it.                                *)
(*                                                                         *)
(* The argument: an answer holds what lasts and nothing that never was,    *)
(* since the project lies between the two when a call is made, and goes on *)
(* to: fewer facts last later, more have held at some time.  What lasts,   *)
(* lasts together with what it needs, so a group that is scaled or uses a  *)
(* template all the time is in the listing of managers.                    *)
(***************************************************************************)
EXTENDS ComputeManagers, FiniteSetTheorems, TLAPS

GroupedInv ==
  /\ grouped_lasting \subseteq grouped /\ grouped \subseteq grouped_ever
  /\ Groups!Consistent(grouped) /\ Groups!Consistent(grouped_lasting)
  /\ Groups!OneTemplate

\* What an answer may say of the managers, autoscalers and templates.
GroupManagersTrue(answer) ==
  /\ DOMAIN answer \subseteq Groups!ManagedGroup
  /\ \A g \in Groups!ManagedGroup : Groups!Manages(g) \in grouped_lasting => g \in DOMAIN answer
  /\ \A g \in DOMAIN answer :
       /\ Groups!Manages(g) \in grouped_ever
       /\ Groups!Scales(g) \in grouped_lasting => answer[g].autoscaler
       /\ answer[g].autoscaler => Groups!Scales(g) \in grouped_ever
       /\ answer[g].instanceTemplate \subseteq {t \in Template : Groups!Uses(g, t) \in grouped_ever}
       /\ \A t \in Template : Groups!Uses(g, t) \in grouped_lasting =>
            t \in answer[g].instanceTemplate
       /\ \A t, u \in answer[g].instanceTemplate : t = u

AutoscalersTrue(answer) ==
  \A g \in Groups!ManagedGroup : Groups!Scales(g) \in grouped_lasting => g \in answer

TemplatesTrue(answer) ==
  \A t \in Template : Groups!Known(t) \in grouped_lasting => t \in answer

GroupAnswerTrue(call, answer) ==
  /\ call = "instance_group_managers" => GroupManagersTrue(answer)
  /\ call = "autoscalers" => AutoscalersTrue(answer)
  /\ call = "instance_templates" => TemplatesTrue(answer)

ManagerAnswers ==
  UNION {[found -> [autoscaler : BOOLEAN, instanceTemplate : SUBSET Template]] :
           found \in SUBSET Groups!ManagedGroup}

GroupAnswers == (SUBSET Group) \cup (SUBSET Template) \cup ManagerAnswers

GroupListingsInv ==
  /\ manager \in DOMAIN Groups!Calls
  /\ grouped_listings \in Seq(GroupAnswers) /\ Len(grouped_listings) <= Len(Groups!Calls[manager])
  /\ \A k \in 1 .. Len(grouped_listings) :
       GroupAnswerTrue(Groups!Calls[manager][k], grouped_listings[k])

GroupsInv == GroupedInv /\ GroupListingsInv /\ Groups!GroupsAsTheyAre /\ Groups!UseShownOnBothEnds

-----------------------------------------------------------------------------
LEMMA CallsOf ==
  /\ DOMAIN Groups!Calls = {"InstanceGroupManager", "InstanceTemplateManager"}
  /\ Len(Groups!Calls["InstanceGroupManager"]) = 4
  /\ Len(Groups!Calls["InstanceTemplateManager"]) = 2
  /\ \A m \in DOMAIN Groups!Calls : /\ Len(Groups!Calls[m]) \in Nat
                                    /\ DOMAIN Groups!Calls[m] = 1 .. Len(Groups!Calls[m])
BY DEF Groups!Calls

\* Where the answers are once all have come.
LEMMA GroupPositions ==
  ASSUME GroupListingsInv, ~Groups!Listing
  PROVE  /\ \A call \in {"instance_group_managers", "instance_templates"} :
              GroupAnswerTrue(call, Groups!Listed(call))
         /\ manager = "InstanceGroupManager" =>
              GroupAnswerTrue("autoscalers", Groups!Listed("autoscalers"))
<1>1. Len(grouped_listings) = Len(Groups!Calls[manager])
        /\ DOMAIN grouped_listings = 1 .. Len(grouped_listings)
  BY CallsOf DEF GroupListingsInv, Groups!Listing
<1>2. ASSUME NEW k \in 1 .. Len(Groups!Calls[manager])
      PROVE  GroupAnswerTrue(Groups!Calls[manager][k], Groups!Listed(Groups!Calls[manager][k]))
  <2>1. \E j \in DOMAIN grouped_listings : Groups!Calls[manager][j] = Groups!Calls[manager][k]
    BY <1>1
  <2>2. PICK j \in DOMAIN grouped_listings : /\ Groups!Calls[manager][j] = Groups!Calls[manager][k]
                                             /\ Groups!Listed(Groups!Calls[manager][k]) = grouped_listings[j]
    BY <2>1 DEF Groups!Listed
  <2> QED
    BY <1>1, <2>2 DEF GroupListingsInv
<1>3. CASE manager = "InstanceGroupManager"
  <2>1. /\ Groups!Calls[manager][2] = "instance_group_managers"
        /\ Groups!Calls[manager][3] = "autoscalers"
        /\ Groups!Calls[manager][4] = "instance_templates"
    BY <1>3 DEF Groups!Calls
  <2> QED
    BY <1>2, <1>3, <2>1, CallsOf
<1>4. CASE manager = "InstanceTemplateManager"
  <2>1. /\ Groups!Calls[manager][1] = "instance_templates"
        /\ Groups!Calls[manager][2] = "instance_group_managers"
    BY <1>4 DEF Groups!Calls
  <2> QED
    BY <1>2, <1>4, <2>1, CallsOf
<1> QED
  BY <1>3, <1>4, CallsOf DEF GroupListingsInv

\* Facts of managed groups, and what they need.
LEMMA GroupFactsOf ==
  ASSUME NEW facts, Groups!Consistent(facts), NEW g \in Group
  PROVE  /\ Groups!Manages(g) \in facts => g \in Groups!ManagedGroup
         /\ Groups!Scales(g) \in facts => g \in Groups!ManagedGroup /\ Groups!Manages(g) \in facts
         /\ \A t \in Template :
              Groups!Uses(g, t) \in facts =>
                g \in Groups!ManagedGroup /\ Groups!Manages(g) \in facts
                  /\ Groups!Known(t) \in facts
<1>1. Groups!Manages(g) \in Groups!Fact => g \in Groups!ManagedGroup
  BY DEF Groups!Fact, Groups!Exists, Groups!Manages, Groups!Scales, Groups!Known, Groups!Uses,
       Groups!Member
<1>2. Groups!Manages(g) \in facts => g \in Groups!ManagedGroup
  BY <1>1 DEF Groups!Consistent
<1>3. Groups!Scales(g) \in facts => Groups!Manages(g) \in facts
  BY DEF Groups!Consistent, Groups!Needs, Groups!Scales
<1>4. \A t \in Template :
        Groups!Uses(g, t) \in facts => Groups!Manages(g) \in facts /\ Groups!Known(t) \in facts
  BY DEF Groups!Consistent, Groups!Needs, Groups!Uses
<1> QED
  BY <1>2, <1>3, <1>4

\* What the listing of managers says of a group that is managed, scaled or
\* uses a template all the time, and of one that never is.
LEMMA JoinsOf ==
  ASSUME GroupedInv, GroupListingsInv, ~Groups!Listing, NEW g \in Group
  PROVE  /\ Groups!Manages(g) \in grouped_lasting => Groups!match_instance_group_manager(g)
         /\ Groups!match_instance_group_manager(g) => Groups!Manages(g) \in grouped_ever
         /\ manager = "InstanceGroupManager" /\ Groups!Scales(g) \in grouped_lasting =>
              Groups!match_instance_group_manager(g) /\ Groups!match_autoscaler(g)
         /\ Groups!match_instance_group_manager(g) /\ Groups!match_autoscaler(g) =>
              Groups!Scales(g) \in grouped_ever
         /\ \A t \in Template :
              /\ Groups!Uses(g, t) \in grouped_lasting => /\ Groups!match_instance_group_manager(g)
                                                          /\ Groups!match_instance_template(g) = {t}
                                                          /\ g \in Groups!_match_instance_group(t)
              /\ Groups!match_instance_group_manager(g) /\ t \in Groups!match_instance_template(g)
                   => Groups!Uses(g, t) \in grouped_ever
              /\ g \in Groups!_match_instance_group(t) => Groups!Uses(g, t) \in grouped_ever
<1>1. GroupManagersTrue(Groups!managers) /\ TemplatesTrue(Groups!Listed("instance_templates"))
  BY GroupPositions DEF GroupAnswerTrue, Groups!managers
<1>2. manager = "InstanceGroupManager" => AutoscalersTrue(Groups!Listed("autoscalers"))
  BY GroupPositions DEF GroupAnswerTrue
<1>3. /\ Groups!Manages(g) \in grouped_lasting => Groups!match_instance_group_manager(g)
      /\ Groups!match_instance_group_manager(g) => Groups!Manages(g) \in grouped_ever
  BY <1>1, GroupFactsOf DEF GroupedInv, GroupManagersTrue, Groups!match_instance_group_manager
<1>4. manager = "InstanceGroupManager" /\ Groups!Scales(g) \in grouped_lasting =>
        Groups!match_instance_group_manager(g) /\ Groups!match_autoscaler(g)
  BY <1>1, <1>2, GroupFactsOf
     DEF GroupedInv, GroupManagersTrue, AutoscalersTrue, Groups!match_instance_group_manager,
          Groups!match_autoscaler
<1>5. Groups!match_instance_group_manager(g) /\ Groups!match_autoscaler(g) =>
        Groups!Scales(g) \in grouped_ever
  BY <1>1 DEF GroupManagersTrue, Groups!match_instance_group_manager, Groups!match_autoscaler
<1>6. ASSUME NEW t \in Template
      PROVE  /\ Groups!Uses(g, t) \in grouped_lasting => /\ Groups!match_instance_group_manager(g)
                                                         /\ Groups!match_instance_template(g) = {t}
                                                         /\ g \in Groups!_match_instance_group(t)
             /\ Groups!match_instance_group_manager(g) /\ t \in Groups!match_instance_template(g)
                  => Groups!Uses(g, t) \in grouped_ever
             /\ g \in Groups!_match_instance_group(t) => Groups!Uses(g, t) \in grouped_ever
  <2>1. ASSUME Groups!Uses(g, t) \in grouped_lasting
        PROVE  /\ g \in DOMAIN Groups!managers /\ Groups!managers[g].instanceTemplate = {t}
               /\ t \in Groups!Listed("instance_templates")
    BY <1>1, <2>1, GroupFactsOf DEF GroupedInv, GroupManagersTrue, TemplatesTrue
  <2>2. ASSUME g \in DOMAIN Groups!managers, t \in Groups!managers[g].instanceTemplate
        PROVE  Groups!Uses(g, t) \in grouped_ever
    BY <1>1, <2>2 DEF GroupManagersTrue
  <2> QED
    BY <2>1, <2>2
       DEF Groups!match_instance_group_manager, Groups!match_instance_template,
            Groups!_match_instance_group
<1> QED
  BY <1>3, <1>4, <1>5, <1>6


-----------------------------------------------------------------------------
LEMMA InitGroupsInv == Groups!Init => GroupsInv
<1> SUFFICES ASSUME Groups!Init PROVE GroupsInv
  OBVIOUS
<1>1. GroupedInv
  BY DEF Groups!Init, Groups!ProjectInit, GroupedInv
<1>2. /\ grouped_listings = <<>> /\ groups = <<>> /\ group_errors = {} /\ templates = <<>>
      /\ manager \in DOMAIN Groups!Calls
  BY DEF Groups!Init
<1>3. GroupListingsInv
  BY <1>2, CallsOf DEF GroupListingsInv
<1>4. Groups!GroupsAsTheyAre /\ Groups!UseShownOnBothEnds
  BY <1>2 DEF Groups!GroupsAsTheyAre, Groups!UseShownOnBothEnds
<1> QED
  BY <1>1, <1>3, <1>4 DEF GroupsInv

\* What is true stays so as fewer facts last and more have held.
LEMMA GroupStaysTrue ==
  ASSUME grouped_lasting' \subseteq grouped_lasting, grouped_ever \subseteq grouped_ever',
         NEW call, NEW answer, GroupAnswerTrue(call, answer)
  PROVE  GroupAnswerTrue(call, answer)'
BY DEF GroupAnswerTrue, GroupManagersTrue, AutoscalersTrue, TemplatesTrue

LEMMA GroupChangesKeep == GroupsInv /\ Groups!ProjectChanges => GroupsInv'
<1> SUFFICES ASSUME GroupsInv, Groups!ProjectChanges PROVE GroupsInv'
  OBVIOUS
<1>1. PICK f \in Groups!Fact : Groups!Change(f)
  BY DEF Groups!ProjectChanges
<1>2. /\ grouped_lasting' \subseteq grouped_lasting /\ grouped_ever \subseteq grouped_ever'
      /\ UNCHANGED <<manager, grouped_listings, groups, group_errors, templates>>
  BY <1>1 DEF Groups!Change, Groups!ProjectChanges
<1>3. GroupedInv'
  <2>1. Groups!OneTemplate' /\ Groups!Consistent(grouped)'
    BY <1>1 DEF Groups!Change, Groups!ProjectChanges, Groups!Consistent
  <2>2. Groups!Consistent(grouped_lasting)'
    BY <1>1, <2>1 DEF GroupsInv, GroupedInv, Groups!Change, Groups!Consistent
  <2> QED
    BY <1>1, <2>1, <2>2 DEF GroupsInv, GroupedInv, Groups!Change
<1>4. GroupListingsInv'
  BY <1>2, GroupStaysTrue DEF GroupsInv, GroupListingsInv
<1>5. Groups!GroupsAsTheyAre'
  BY <1>2 DEF GroupsInv, Groups!GroupsAsTheyAre
<1>6. Groups!UseShownOnBothEnds'
  BY <1>2 DEF GroupsInv, Groups!UseShownOnBothEnds
<1> QED
  BY <1>3, <1>4, <1>5, <1>6 DEF GroupsInv

\* A call is answered from the project as it is.
LEMMA GroupAnswersTrue ==
  ASSUME IsFiniteSet(Template), GroupedInv,
         NEW call \in {"instance_groups", "instance_group_managers",
                       "autoscalers", "instance_templates"}
  PROVE  GroupAnswerTrue(call, Groups!Answer(call)) /\ Groups!Answer(call) \in GroupAnswers
<1>1. CASE call = "instance_group_managers"
  <2> DEFINE answer == [g \in {h \in Groups!ManagedGroup : Groups!Manages(h) \in grouped} |->
                          Groups!ManagerListed(g)]
  <2>1. Groups!Answer(call) = answer
    BY <1>1 DEF Groups!Answer
  <2>2. \A g \in DOMAIN answer :
          answer[g] = [autoscaler |-> Groups!Scales(g) \in grouped,
                       instanceTemplate |-> {t \in Template : Groups!Uses(g, t) \in grouped}]
    BY DEF Groups!ManagerListed
  <2>3. ASSUME NEW g \in DOMAIN answer, NEW t \in answer[g].instanceTemplate,
               NEW u \in answer[g].instanceTemplate
        PROVE  t = u
    <3> DEFINE used == {s \in Template : Groups!Uses(g, s) \in grouped}
    <3>1. t \in used /\ u \in used
      BY <2>2, <2>3
    <3>2. IsFiniteSet(used)
      BY FS_Subset
    <3>3. Cardinality(used) <= 1
      BY Zenon DEF GroupedInv, Groups!OneTemplate, Groups!ManagedGroup,
                   Groups!Cardinality, Cardinality
    <3> HIDE DEF used
    <3>4. Cardinality(used) = 1
      BY <3>1, <3>2, <3>3, FS_EmptySet, FS_CardinalityType
    <3>5. \E x : used = {x}
      BY <3>2, <3>4, FS_Singleton
    <3> QED
      BY <3>1, <3>5
  <2>4. answer \in GroupAnswers
    <3>1. /\ DOMAIN answer \in SUBSET Groups!ManagedGroup
          /\ answer \in [DOMAIN answer ->
               [autoscaler : BOOLEAN, instanceTemplate : SUBSET Template]]
      BY DEF Groups!ManagerListed
    <3> HIDE DEF answer
    <3> QED
      BY <3>1 DEF GroupAnswers, ManagerAnswers
  <2>5. DOMAIN answer = {h \in Groups!ManagedGroup : Groups!Manages(h) \in grouped}
    OBVIOUS
  <2> HIDE DEF answer
  <2>6. GroupManagersTrue(answer)
    <3>1. \A g \in DOMAIN answer : Groups!Manages(g) \in grouped_ever
      BY <2>5 DEF GroupedInv
    <3>2. \A g \in DOMAIN answer :
            /\ Groups!Scales(g) \in grouped_lasting => answer[g].autoscaler
            /\ answer[g].autoscaler => Groups!Scales(g) \in grouped_ever
      <4> SUFFICES ASSUME NEW g \in DOMAIN answer
                   PROVE  /\ Groups!Scales(g) \in grouped_lasting => answer[g].autoscaler
                          /\ answer[g].autoscaler => Groups!Scales(g) \in grouped_ever
        OBVIOUS
      <4> DEFINE scaled == Groups!Scales(g) \in grouped
      <4>1. answer[g].autoscaler = scaled
        BY <2>2
      <4>2. CASE scaled
        <5>1. answer[g].autoscaler
          BY <4>2, <4>1, Zenon
        <5> QED
          BY <4>2, <5>1 DEF GroupedInv
      <4>3. CASE ~scaled
        <5>1. ~answer[g].autoscaler
          BY <4>3, <4>1, Zenon
        <5> QED
          BY <4>3, <5>1 DEF GroupedInv
      <4> QED
        BY <4>2, <4>3
    <3>3. \A g \in DOMAIN answer :
            /\ answer[g].instanceTemplate \subseteq {t \in Template : Groups!Uses(g, t) \in grouped_ever}
            /\ \A t \in Template : Groups!Uses(g, t) \in grouped_lasting =>
                 t \in answer[g].instanceTemplate
      BY <2>2 DEF GroupedInv
    <3> QED
      BY <2>3, <2>5, <3>1, <3>2, <3>3 DEF GroupManagersTrue, GroupedInv
  <2> QED
    BY <1>1, <2>1, <2>4, <2>6 DEF GroupAnswerTrue
<1>2. CASE call = "instance_groups"
  BY <1>2 DEF Groups!Answer, GroupAnswerTrue, GroupAnswers
<1>3. CASE call = "autoscalers"
  BY <1>3 DEF Groups!Answer, GroupAnswerTrue, AutoscalersTrue, GroupedInv, GroupAnswers,
       Groups!ManagedGroup
<1>4. CASE call = "instance_templates"
  BY <1>4 DEF Groups!Answer, GroupAnswerTrue, TemplatesTrue, GroupedInv, GroupAnswers
<1> QED
  BY <1>1, <1>2, <1>3, <1>4

LEMMA GroupListKeeps ==
  ASSUME IsFiniteSet(Template), GroupsInv, Groups!List
  PROVE  GroupsInv'
<1> DEFINE k == Len(grouped_listings) + 1
           answer == Groups!Answer(Groups!Calls[manager][k])
<1>1. /\ grouped_listings' = Append(grouped_listings, answer)
      /\ UNCHANGED <<grouped, grouped_lasting, grouped_ever, manager, groups, group_errors,
                     templates>>
  BY DEF Groups!List, Groups!projectVars
<1>2. /\ grouped_listings \in Seq(GroupAnswers) /\ k \in 1 .. Len(Groups!Calls[manager])
      /\ Len(grouped_listings) \in Nat
  BY CallsOf DEF Groups!List, Groups!Listing, GroupsInv, GroupListingsInv
<1>3. Groups!Calls[manager][k] \in {"instance_groups", "instance_group_managers",
                                    "autoscalers", "instance_templates"}
  BY <1>2 DEF GroupsInv, GroupListingsInv, Groups!Calls
<1>4. GroupAnswerTrue(Groups!Calls[manager][k], answer) /\ answer \in GroupAnswers
  BY <1>3, GroupAnswersTrue DEF GroupsInv
<1> HIDE DEF answer
<1>5. /\ grouped_listings' \in Seq(GroupAnswers) /\ Len(grouped_listings') = k
         /\ grouped_listings'[k] = answer
      /\ \A j \in 1 .. Len(grouped_listings) : grouped_listings'[j] = grouped_listings[j]
  BY <1>1, <1>2, <1>4
<1>6. ASSUME NEW j \in 1 .. Len(grouped_listings')
      PROVE  GroupAnswerTrue(Groups!Calls[manager][j], grouped_listings'[j])
  <2>1. CASE j = k
    BY <1>4, <1>5, <2>1
  <2>2. CASE j # k
    BY <1>2, <1>5, <2>2 DEF GroupsInv, GroupListingsInv
  <2> QED
    BY <2>1, <2>2
<1>7. \A c, a : GroupAnswerTrue(c, a) => GroupAnswerTrue(c, a)'
  BY <1>1, GroupStaysTrue
<1>8. GroupListingsInv'
  BY <1>1, <1>2, <1>5, <1>6, <1>7, CallsOf DEF GroupsInv, GroupListingsInv
<1>9. GroupedInv' /\ Groups!GroupsAsTheyAre' /\ Groups!UseShownOnBothEnds'
  BY <1>1 DEF GroupsInv, GroupedInv, Groups!Consistent, Groups!OneTemplate,
       Groups!GroupsAsTheyAre, Groups!UseShownOnBothEnds
<1> QED
  BY <1>8, <1>9 DEF GroupsInv

LEMMA BuildGroupKeeps ==
  ASSUME GroupsInv, NEW g \in Group, Groups!BuildGroup(g)
  PROVE  GroupsInv'
<1> DEFINE members == {v \in GroupedVM : Groups!Member(g, v) \in grouped}
           shown == Groups!InstanceGroup(g, members)
<1>1. /\ UNCHANGED <<grouped, grouped_lasting, grouped_ever, manager, grouped_listings,
                     group_errors, templates>>
      /\ DOMAIN groups' = DOMAIN groups \cup {g} /\ groups'[g] = shown
      /\ \A h \in DOMAIN groups \ {g} : groups'[h] = groups[h]
      /\ ~Groups!Listing /\ manager = "InstanceGroupManager"
  BY DEF Groups!BuildGroup, Groups!projectVars
<1>2. GroupedInv' /\ GroupListingsInv'
  BY <1>1 DEF GroupsInv, GroupedInv, Groups!Consistent, Groups!OneTemplate, GroupListingsInv,
       GroupAnswerTrue,
              GroupManagersTrue, AutoscalersTrue, TemplatesTrue
<1>3. GroupedInv /\ GroupListingsInv
  BY DEF GroupsInv
<1>4. /\ Groups!Manages(g) \in grouped_lasting => shown.instance_group_type = Kind[g]
      /\ Groups!Manages(g) \notin grouped_ever => shown.instance_group_type = "UNMANAGED"
      /\ Groups!Scales(g) \in grouped_lasting => shown.autoscaler
      /\ shown.autoscaler => Groups!Scales(g) \in grouped_ever
  BY <1>1, <1>3, JoinsOf DEF Groups!InstanceGroup
<1>5. /\ shown.instances = members
      /\ \A v \in GroupedVM : /\ Groups!Member(g, v) \in grouped_lasting => v \in members
                              /\ v \in members => Groups!Member(g, v) \in grouped_ever
  BY <1>3 DEF Groups!InstanceGroup, GroupedInv
<1>6. \A t \in Template : /\ Groups!Uses(g, t) \in grouped_lasting => shown.template = {t}
                          /\ shown.template = {t} => Groups!Uses(g, t) \in grouped_ever
  BY <1>1, <1>3, JoinsOf DEF Groups!InstanceGroup
<1> HIDE DEF shown
<1>7. Groups!GroupsAsTheyAre'
  BY <1>1, <1>4, <1>5 DEF GroupsInv, Groups!GroupsAsTheyAre
<1>8. Groups!UseShownOnBothEnds'
  BY <1>1, <1>6 DEF GroupsInv, Groups!UseShownOnBothEnds
<1> QED
  BY <1>2, <1>7, <1>8 DEF GroupsInv

LEMMA GroupNotFoundKeeps ==
  ASSUME GroupsInv, NEW g \in Group, Groups!GroupNotFound(g)
  PROVE  GroupsInv'
<1>1. /\ UNCHANGED <<grouped, grouped_lasting, grouped_ever, manager, grouped_listings, groups,
                     templates>>
      /\ group_errors' = group_errors \cup {g} /\ Groups!Exists(g) \notin grouped_lasting
  BY DEF Groups!GroupNotFound, Groups!projectVars, GroupsInv, GroupedInv
<1>2. GroupedInv' /\ GroupListingsInv'
  BY <1>1 DEF GroupsInv, GroupedInv, Groups!Consistent, Groups!OneTemplate, GroupListingsInv,
       GroupAnswerTrue,
              GroupManagersTrue, AutoscalersTrue, TemplatesTrue
<1>3. Groups!GroupsAsTheyAre' /\ Groups!UseShownOnBothEnds'
  BY <1>1 DEF GroupsInv, Groups!GroupsAsTheyAre, Groups!UseShownOnBothEnds
<1> QED
  BY <1>2, <1>3 DEF GroupsInv

LEMMA BuildTemplateKeeps ==
  ASSUME GroupsInv, NEW t \in Template, Groups!BuildTemplate(t)
  PROVE  GroupsInv'
<1>1. /\ UNCHANGED <<grouped, grouped_lasting, grouped_ever, manager, grouped_listings, groups,
                     group_errors>>
      /\ DOMAIN templates' = DOMAIN templates \cup {t}
      /\ templates'[t] = Groups!_match_instance_group(t)
      /\ \A u \in DOMAIN templates \ {t} : templates'[u] = templates[u]
      /\ ~Groups!Listing
  BY DEF Groups!BuildTemplate, Groups!projectVars
<1>2. GroupedInv' /\ GroupListingsInv'
  BY <1>1 DEF GroupsInv, GroupedInv, Groups!Consistent, Groups!OneTemplate, GroupListingsInv,
       GroupAnswerTrue,
              GroupManagersTrue, AutoscalersTrue, TemplatesTrue
<1>3. \A g \in Group :
        /\ Groups!Uses(g, t) \in grouped_lasting => g \in Groups!_match_instance_group(t)
        /\ g \in Groups!_match_instance_group(t) => Groups!Uses(g, t) \in grouped_ever
  BY <1>1, JoinsOf DEF GroupsInv
<1>4. Groups!GroupsAsTheyAre'
  BY <1>1 DEF GroupsInv, Groups!GroupsAsTheyAre
<1>5. Groups!UseShownOnBothEnds'
  BY <1>1, <1>3 DEF GroupsInv, Groups!UseShownOnBothEnds, Groups!ManagedGroup
<1> QED
  BY <1>2, <1>4, <1>5 DEF GroupsInv

LEMMA GroupsInvariance ==
  ASSUME IsFiniteSet(Template)
  PROVE  Groups!Spec => []GroupsInv
<1>1. Groups!Init => GroupsInv
  BY InitGroupsInv
<1>2. GroupsInv /\ [Groups!Next]_(Groups!vars) => GroupsInv'
  <2> SUFFICES ASSUME GroupsInv, [Groups!Next]_(Groups!vars) PROVE GroupsInv'
    OBVIOUS
  <2>1. CASE Groups!ProjectChanges
    BY <2>1, GroupChangesKeep
  <2>2. CASE Groups!List
    BY <2>2, GroupListKeeps
  <2>3. ASSUME NEW g \in Group, Groups!BuildGroup(g) \/ Groups!GroupNotFound(g) PROVE GroupsInv'
    BY <2>3, BuildGroupKeeps, GroupNotFoundKeeps
  <2>4. ASSUME NEW t \in Template, Groups!BuildTemplate(t) PROVE GroupsInv'
    BY <2>4, BuildTemplateKeeps
  <2>5. CASE UNCHANGED Groups!vars
    BY <2>5 DEF Groups!vars, Groups!projectVars, GroupsInv, GroupedInv, Groups!Consistent,
         Groups!OneTemplate, GroupListingsInv,
                GroupAnswerTrue, GroupManagersTrue, AutoscalersTrue, TemplatesTrue,
                Groups!GroupsAsTheyAre, Groups!UseShownOnBothEnds
  <2> QED
    BY <2>1, <2>2, <2>3, <2>4, <2>5 DEF Groups!Next
<1> QED
  BY <1>1, <1>2, PTL DEF Groups!Spec

-----------------------------------------------------------------------------
\* Given work together with other managers, these two take their own steps and
\* no other, since the others leave their variables as they are.

WorksGroups == "groups" \in working

LEMMA GroupsAlone == Spec => Groups!Spec \/ []~WorksGroups
<1>1. Init /\ WorksGroups => Groups!Init
  BY DEF Init, WorksGroups
<1>2. WorksGroups /\ [Next]_vars => WorksGroups' /\ [Groups!Next]_(Groups!vars)
  BY DEF Next, vars, WorksGroups, groupVars, Groups!vars, Groups!projectVars
<1>3. ~WorksGroups /\ [Next]_vars => ~WorksGroups'
  BY DEF Next, vars, WorksGroups
<1> QED BY <1>1, <1>2, <1>3, PTL DEF Spec, Groups!Spec

LEMMA GroupsAlwaysInv == Spec => [](WorksGroups => GroupsInv)
<1>1. Groups!Spec => []GroupsInv
  BY GroupsInvariance, FiniteAssumption
<1> QED BY <1>1, GroupsAlone, PTL

\* Whatever is created and deleted between the listings and between the calls
\* within the loop: a group that lasts is reported, and is shown without what
\* it has only if that changed meanwhile.
THEOREM GroupsShown == Spec => []GroupsAsTheyAre
<1>1. (WorksGroups => GroupsInv) => GroupsAsTheyAre
  BY DEF WorksGroups, GroupsInv, GroupsAsTheyAre
<1> QED BY <1>1, GroupsAlwaysInv, PTL

\* The two managers, which join groups and templates from opposite ends, agree
\* on every use that lasts and on every use that never was.
THEOREM UsesShown == Spec => []UseShownOnBothEnds
<1>1. (WorksGroups => GroupsInv) => UseShownOnBothEnds
  BY DEF WorksGroups, GroupsInv, UseShownOnBothEnds
<1> QED BY <1>1, GroupsAlwaysInv, PTL

=============================================================================
