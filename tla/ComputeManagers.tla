-------------------------- MODULE ComputeManagers --------------------------
(***************************************************************************)
(* Managers of the Compute Engine group, composed as in NetworkingManagers.*)
(* What VMInstanceManager does is in three parts: its instances with their *)
(* disks and machine types (VMInstances), what else of the project they    *)
(* are shown to be connected with (VMRelations), and their images          *)
(* (VMServers).                                                            *)
(***************************************************************************)
EXTENDS Naturals, Sequences, FiniteSets

CONSTANTS
  AtWork,    \* the sets of managers that may be given work
  \* DiskManager
  Disk, Region, Policy, RegionOf, MaxLinks,
  \* VMInstanceManager: its instances
  VM, LocalSSD, MachineType, Predefined, TypeOf,
  \* ... and what they are connected with
  ConnectedVM, Network, Subnet, TargetPool, ForwardingRule, GroupManager,
  NetworkOf, InterfacesOf, TargetOf, SubnetOrder, PartOf, MaxChanges,
  \* InstanceGroupManager, InstanceTemplateManager
  Group, Template, GroupedVM, Kind, MaxGroupChanges,
  \* VMInstanceManager: the images
  Zones, Name, Image, License, public_images, KeysIn, Windows, MaxZoneChanges,
  \* the pages a disk is on
  Sizes, GiB, MaxResizes

VARIABLE working    \* the managers that are given work

VARIABLES disks, resource_policies, left, snapshot_schedule, errors

policyVars == <<disks, resource_policies, left, snapshot_schedule, errors>>

VARIABLES attached, phase, all_disks, instance_types, compute_vms, vms_left,
          collected, vm_errors, asked

vmVars == <<attached, phase, all_disks, instance_types, compute_vms, vms_left,
            collected, vm_errors, asked>>

VARIABLES project, changes, lasting, ever, listings, unasked, managed, raised,
          connected

relationVars == <<project, changes, lasting, ever, listings, unasked, managed,
                  raised, connected>>

VARIABLES grouped, grouped_changes, grouped_lasting, grouped_ever,
          grouped_listings, manager, groups, group_errors, templates

groupVars == <<grouped, grouped_changes, grouped_lasting, grouped_ever,
               grouped_listings, manager, groups, group_errors, templates>>

VARIABLES zoned, zoned_changes, zoned_lasting, zoned_ever, stage, zoned_disks,
          instance, server

serverVars == <<zoned, zoned_changes, zoned_lasting, zoned_ever, stage,
                zoned_disks, instance, server>>

VARIABLES disk, resizes, viewed_disks, grew, saved, template, pages

viewVars == <<disk, resizes, viewed_disks, grew, saved, template, pages>>

vars == <<working, policyVars, vmVars, relationVars, groupVars, serverVars,
          viewVars>>

Policies == INSTANCE DiskPolicies

VMs == INSTANCE VMInstances

Relations == INSTANCE VMRelations WITH VM <- ConnectedVM, collected <- connected

Groups == INSTANCE InstanceGroups WITH
  VM <- GroupedVM, MaxChanges <- MaxGroupChanges, project <- grouped,
  changes <- grouped_changes, lasting <- grouped_lasting,
  ever <- grouped_ever, listings <- grouped_listings

Servers == INSTANCE VMServers WITH
  MaxChanges <- MaxZoneChanges, project <- zoned, changes <- zoned_changes,
  lasting <- zoned_lasting, ever <- zoned_ever, phase <- stage,
  disks <- zoned_disks

Views == INSTANCE DiskViews WITH all_disks <- viewed_disks

ASSUME FiniteAssumption == IsFiniteSet(Template)

ASSUME SizesAssumption == Sizes \subseteq Nat /\ GiB \in Nat \ {0}

ASSUME LinksAssumption == Relations!WellTyped /\ Servers!ZonesDistinct

ASSUME TypesAssumption ==
  Predefined \subseteq MachineType /\ TypeOf \in [VM -> MachineType]

ASSUME BoundsAssumption ==
  {MaxChanges, MaxGroupChanges, MaxZoneChanges, MaxResizes} \subseteq Nat

-----------------------------------------------------------------------------
PoliciesUnused ==
  /\ disks = <<>> /\ resource_policies = <<>> /\ left = {}
  /\ snapshot_schedule = <<>> /\ errors = <<>>

VMsUnused ==
  /\ attached = <<>> /\ phase = <<>> /\ all_disks = {} /\ instance_types = {}
  /\ compute_vms = <<>> /\ vms_left = {} /\ collected = <<>>
  /\ vm_errors = <<>> /\ asked = <<>>

RelationsUnused ==
  /\ project = {} /\ changes = 0 /\ lasting = {} /\ ever = {} /\ listings = <<>>
  /\ unasked = {} /\ managed = {} /\ raised = FALSE /\ connected = <<>>

GroupsUnused ==
  /\ grouped = {} /\ grouped_changes = 0 /\ grouped_lasting = {}
  /\ grouped_ever = {} /\ grouped_listings = <<>> /\ manager = <<>>
  /\ groups = <<>> /\ group_errors = {} /\ templates = <<>>

ServersUnused ==
  /\ zoned = {} /\ zoned_changes = 0 /\ zoned_lasting = {} /\ zoned_ever = {}
  /\ stage = <<>> /\ zoned_disks = {} /\ instance = <<>> /\ server = <<>>

ViewsUnused ==
  /\ disk = <<>> /\ resizes = 0 /\ viewed_disks = {} /\ grew = FALSE
  /\ saved = <<>> /\ template = {} /\ pages = <<>>

Init ==
  /\ working \in AtWork
  /\ IF "policies" \in working THEN Policies!Init ELSE PoliciesUnused
  /\ IF "vms" \in working THEN VMs!Init ELSE VMsUnused
  /\ IF "relations" \in working THEN Relations!Init ELSE RelationsUnused
  /\ IF "groups" \in working THEN Groups!Init ELSE GroupsUnused
  /\ IF "servers" \in working THEN Servers!Init ELSE ServersUnused
  /\ IF "views" \in working THEN Views!Init ELSE ViewsUnused

Next ==
  /\ UNCHANGED working
  /\ \/ /\ "policies" \in working /\ Policies!Next
        /\ UNCHANGED <<vmVars, relationVars, groupVars, serverVars, viewVars>>
     \/ /\ "vms" \in working /\ VMs!Next
        /\ UNCHANGED <<policyVars, relationVars, groupVars, serverVars, viewVars>>
     \/ /\ "relations" \in working /\ Relations!Next
        /\ UNCHANGED <<policyVars, vmVars, groupVars, serverVars, viewVars>>
     \/ /\ "groups" \in working /\ Groups!Next
        /\ UNCHANGED <<policyVars, vmVars, relationVars, serverVars, viewVars>>
     \/ /\ "servers" \in working /\ Servers!Next
        /\ UNCHANGED <<policyVars, vmVars, relationVars, groupVars, viewVars>>
     \/ /\ "views" \in working /\ Views!Next
        /\ UNCHANGED <<policyVars, vmVars, relationVars, groupVars, serverVars>>

Spec == Init /\ [][Next]_vars

-----------------------------------------------------------------------------
\* The types of the managers.
TypeOK ==
  /\ "policies" \in working => Policies!TypeOK
  /\ "vms" \in working => VMs!TypeOK
  /\ "relations" \in working => Relations!TypeOK
  /\ "groups" \in working => Groups!TypeOK
  /\ "servers" \in working => Servers!TypeOK
  /\ "views" \in working => Views!TypeOK

\* What a disk is shown with, here and on the pages of others, and when it fails.
DisksShown ==
  /\ "policies" \in working =>
       Policies!RegionShownOnce /\ Policies!DisksIndependent
  /\ "views" \in working => Views!PagesAgree

\* What an instance is shown with, when it fails, and what is asked for it.
InstancesShown ==
  /\ "vms" \in working =>
       VMs!OwnDisks /\ VMs!FailsAtDiskOnly /\ VMs!TypeAskedOnce
  /\ "servers" \in working => Servers!ImageOfBootDisk

\* What it is shown to be connected with, while the project changes.
PlacedInOwnNetwork == "relations" \in working => Relations!PlacedInOwnNetwork

BalancersOfInstance == "relations" \in working => Relations!BalancersOfInstance

ManagedInstancesMarked ==
  "relations" \in working => Relations!ManagedInstancesMarked

\* What instance groups and their templates are shown with.
GroupsAsTheyAre == "groups" \in working => Groups!GroupsAsTheyAre

UseShownOnBothEnds == "groups" \in working => Groups!UseShownOnBothEnds

=============================================================================
