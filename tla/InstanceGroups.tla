--------------------------- MODULE InstanceGroups ---------------------------
(***************************************************************************)
(* Instance groups and their templates (manager/compute_engine).           *)
(* InstanceGroupManager lists groups, group managers, autoscalers and      *)
(* templates, and asks for the members of each group within its loop.      *)
(* InstanceTemplateManager lists templates and group managers and shows    *)
(* the same relation from its other end.  One of the two is at work in a   *)
(* behaviour; the project (ChangingProject) changes meanwhile.             *)
(***************************************************************************)
EXTENDS Naturals, Sequences, FiniteSets

CONSTANTS
  Group, Template, VM,
  Kind,        \* "UNMANAGED" or the kind of its manager, per group
  MaxChanges

VARIABLES
  project, changes, lasting, ever,   \* see ChangingProject
  manager,     \* which of the two is at work
  listings,    \* the calls that returned, in their order
  groups,      \* instance group -> what it is shown with
  group_errors,    \* instance groups with an error response
  templates    \* instance template -> in_used_by

-----------------------------------------------------------------------------
Exists(g) == <<"group", g>>
Manages(g) == <<"manager", g>>
Scales(g) == <<"autoscaler", g>>
Known(t) == <<"template", t>>
Uses(g, t) == <<"uses", g, t>>
Member(g, v) == <<"member", g, v>>

ManagedGroup == {g \in Group : Kind[g] # "UNMANAGED"}

Fact == UNION {{Exists(g) : g \in Group}, {Known(t) : t \in Template},
               {Manages(g) : g \in ManagedGroup},
               {Scales(g) : g \in ManagedGroup},
               {Uses(g, t) : g \in ManagedGroup, t \in Template},
               {Member(g, v) : g \in Group, v \in VM}}

Needs(f) ==
  CASE f[1] \in {"manager", "member"} -> {Exists(f[2])}
    [] f[1] = "autoscaler" -> {Manages(f[2])}
    [] f[1] = "uses" -> {Manages(f[2]), Known(f[3])}
    [] OTHER -> {}

INSTANCE ChangingProject

projectVars == <<project, changes, lasting, ever>>

vars == <<projectVars, manager, listings, groups, group_errors, templates>>

\* A manager has one template.
OneTemplate ==
  \A g \in Group : Cardinality({t \in Template : Uses(g, t) \in project}) <= 1

\* The calls in the order of the code.
Calls == [InstanceGroupManager |-> <<"instance_groups", "instance_group_managers",
                                     "autoscalers", "instance_templates">>,
          InstanceTemplateManager |-> <<"instance_templates",
                                        "instance_group_managers">>]

Init ==
  /\ ProjectInit /\ OneTemplate
  /\ manager \in DOMAIN Calls
  /\ listings = <<>>
  /\ groups = <<>> /\ group_errors = {} /\ templates = <<>>

Listing == Len(listings) < Len(Calls[manager])

Listed(call) ==
  listings[CHOOSE k \in DOMAIN listings : Calls[manager][k] = call]

\* The groups the loop has not reached.
GroupsLeft == (Listed("instance_groups") \ DOMAIN groups) \ group_errors

Looping == /\ ~Listing /\ manager = "InstanceGroupManager"
           /\ GroupsLeft # {}

ProjectChanges ==
  /\ Listing \/ Looping
  /\ \E f \in Fact : Change(f)
  /\ OneTemplate'
  /\ UNCHANGED <<manager, listings, groups, group_errors, templates>>

\* A manager comes with the links of its autoscaler and its template.
ManagerListed(g) ==
  [autoscaler |-> Scales(g) \in project,
   instanceTemplate |-> {t \in Template : Uses(g, t) \in project}]

Answer(call) ==
  CASE call = "instance_groups" -> {g \in Group : Exists(g) \in project}
    [] call = "instance_group_managers" ->
         [g \in {h \in ManagedGroup : Manages(h) \in project} |-> ManagerListed(g)]
    [] call = "autoscalers" -> {g \in ManagedGroup : Scales(g) \in project}
    [] call = "instance_templates" -> {t \in Template : Known(t) \in project}

List ==
  /\ Listing
  /\ listings' = Append(listings, Answer(Calls[manager][Len(listings) + 1]))
  /\ UNCHANGED <<projectVars, manager, groups, group_errors, templates>>

managers == Listed("instance_group_managers")

match_instance_group_manager(g) == g \in DOMAIN managers

\* Mutant of match_instance_template: templates are matched with the groups
\* in turn.
any_instance_template(g) ==
  Listed("instance_templates") \cap UNION {managers[h].instanceTemplate : h \in DOMAIN managers}

match_instance_template(g) ==
  Listed("instance_templates") \cap managers[g].instanceTemplate

match_autoscaler(g) == managers[g].autoscaler /\ g \in Listed("autoscalers")

\* What a group is shown with; its scheduler is told the same type.
InstanceGroup(g, members) ==
  IF match_instance_group_manager(g)
  THEN [instance_group_type |-> Kind[g], autoscaler |-> match_autoscaler(g),
        template |-> match_instance_template(g), instances |-> members]
  ELSE [instance_group_type |-> "UNMANAGED", autoscaler |-> FALSE,
        template |-> {}, instances |-> members]

\* Mutant of BuildGroup: an unmanaged group is not asked for its members.
BuildManagedGroup(g) ==
  /\ manager = "InstanceGroupManager" /\ ~Listing /\ g \in GroupsLeft
  /\ Exists(g) \in project
  /\ groups' = [h \in DOMAIN groups \cup {g} |->
       IF h # g THEN groups[h]
       ELSE InstanceGroup(g, IF match_instance_group_manager(g)
                             THEN {v \in VM : Member(g, v) \in project} ELSE {})]
  /\ UNCHANGED <<projectVars, manager, listings, group_errors, templates>>

\* One turn of the loop, with the call of list_instances.  It returns one
\* page of members; a group here has no more than that.
BuildGroup(g) ==
  /\ manager = "InstanceGroupManager" /\ ~Listing /\ g \in GroupsLeft
  /\ Exists(g) \in project
  /\ groups' = [h \in DOMAIN groups \cup {g} |->
       IF h # g THEN groups[h]
       ELSE InstanceGroup(g, {v \in VM : Member(g, v) \in project})]
  /\ UNCHANGED <<projectVars, manager, listings, group_errors, templates>>

\* list_instances raises: the group is gone.
GroupNotFound(g) ==
  /\ manager = "InstanceGroupManager" /\ ~Listing /\ g \in GroupsLeft
  /\ Exists(g) \notin project
  /\ group_errors' = group_errors \cup {g}
  /\ UNCHANGED <<projectVars, manager, listings, groups, templates>>

\* Mutant of _match_instance_group: returns from within the loop.
match_one_instance_group(t) ==
  LET users == {g \in DOMAIN managers : t \in managers[g].instanceTemplate}
  IN IF users = {} THEN {} ELSE {CHOOSE g \in users : TRUE}

\* in_used_by
_match_instance_group(t) ==
  {g \in DOMAIN managers : t \in managers[g].instanceTemplate}

BuildTemplate(t) ==
  /\ manager = "InstanceTemplateManager" /\ ~Listing
  /\ t \in Listed("instance_templates") \ DOMAIN templates
  /\ templates' = [u \in DOMAIN templates \cup {t} |->
       IF u # t THEN templates[u] ELSE _match_instance_group(t)]
  /\ UNCHANGED <<projectVars, manager, listings, groups, group_errors>>

Next ==
  \/ ProjectChanges \/ List
  \/ \E g \in Group : BuildGroup(g) \/ GroupNotFound(g)
  \/ \E t \in Template : BuildTemplate(t)

Spec == Init /\ [][Next]_vars

-----------------------------------------------------------------------------
TypeOK ==
  /\ ProjectTypeOK /\ OneTemplate
  /\ manager \in DOMAIN Calls
  /\ Len(listings) \in 0 .. Len(Calls[manager])
  /\ DOMAIN groups \cap group_errors = {}
  /\ DOMAIN groups \cup group_errors \subseteq Group
  /\ DOMAIN templates \subseteq Template

\* A group that lasts is reported, with its type, its autoscaler and its
\* members if these last; it is called unmanaged, or shown without an
\* autoscaler or a member it has, only if that changed meanwhile.
GroupsAsTheyAre ==
  /\ \A g \in group_errors : Exists(g) \notin lasting
  /\ \A g \in DOMAIN groups :
       LET shown == groups[g]
       IN /\ Manages(g) \in lasting => shown.instance_group_type = Kind[g]
          /\ Manages(g) \notin ever => shown.instance_group_type = "UNMANAGED"
          /\ Scales(g) \in lasting => shown.autoscaler
          /\ shown.autoscaler => Scales(g) \in ever
          /\ \A v \in VM :
               /\ Member(g, v) \in lasting => v \in shown.instances
               /\ v \in shown.instances => Member(g, v) \in ever

\* A group is shown with its template and the template with its group: both
\* if the group uses it all the time, neither if it never does.  Hence the
\* two managers agree unless somebody changes the group in between.
UseShownOnBothEnds ==
  \A g \in ManagedGroup, t \in Template :
    /\ g \in DOMAIN groups =>
         /\ Uses(g, t) \in lasting => groups[g].template = {t}
         /\ groups[g].template = {t} => Uses(g, t) \in ever
    /\ t \in DOMAIN templates =>
         /\ Uses(g, t) \in lasting => g \in templates[t]
         /\ g \in templates[t] => Uses(g, t) \in ever

=============================================================================
