----------------------------- MODULE VMInstances -----------------------------
(***************************************************************************)
(* VMInstanceManager (manager/compute_engine) joins each instance with     *)
(* what other listings returned.  It lists the disks first, then a dozen   *)
(* other collections and the machine types, and the instances last: the    *)
(* project goes on changing in between, and an instance may come with a    *)
(* disk no earlier listing knew.                                           *)
(*                                                                         *)
(* A custom machine type is in no listing.  It is asked for when the first *)
(* instance of that type is built and appended to the list all instances   *)
(* share.                                                                  *)
(***************************************************************************)
EXTENDS Naturals, FiniteSets

CONSTANTS
  VM,
  Disk,          \* persistent disks
  LocalSSD,      \* scratch disks: no "source", in no listing
  MachineType,
  Predefined,    \* the machine types that are listed
  TypeOf         \* the machine type of an instance

VARIABLES
  attached,        \* the project: disks of each instance
  phase,           \* "list_disks", "list_others", "list_instances", "build"
  all_disks,       \* all_resources["disk"]
  instance_types,  \* all_resources["instance_type"]
  compute_vms,     \* the instances listed: instance -> its disks
  vms_left,        \* instances the loop has not reached
  collected,       \* resource_responses: instance -> [disks, type]
  vm_errors,       \* error_responses: instance -> exception
  asked            \* get_machine_type calls that returned, per type

vars == <<attached, phase, all_disks, instance_types, compute_vms, vms_left,
          collected, vm_errors, asked>>

results == <<vms_left, collected, vm_errors, asked>>

-----------------------------------------------------------------------------
AnyDisk == Disk \cup LocalSSD

Init ==
  /\ attached \in [VM -> SUBSET AnyDisk]
  /\ phase = "list_disks"
  /\ all_disks = {} /\ instance_types = {}
  /\ compute_vms = <<>> /\ vms_left = {}
  /\ collected = <<>> /\ vm_errors = <<>>
  /\ asked = [t \in MachineType |-> 0]

\* The project: a disk, perhaps a new one, is attached to an instance.
Attach(v, d) ==
  /\ phase \in {"list_others", "list_instances"}
  /\ attached' = [attached EXCEPT ![v] = @ \cup {d}]
  /\ UNCHANGED <<phase, all_disks, instance_types, compute_vms, results>>

\* The project: a disk is detached.
Detach(v, d) ==
  /\ phase \in {"list_others", "list_instances"}
  /\ d \in attached[v]
  /\ attached' = [attached EXCEPT ![v] = @ \ {d}]
  /\ UNCHANGED <<phase, all_disks, instance_types, compute_vms, results>>

ListDisks ==
  /\ phase = "list_disks"
  /\ all_disks' = (UNION {attached[v] : v \in VM}) \ LocalSSD
  /\ phase' = "list_others"
  /\ UNCHANGED <<attached, instance_types, compute_vms, results>>

ListOthers ==
  /\ phase = "list_others"
  /\ instance_types' = Predefined
  /\ phase' = "list_instances"
  /\ UNCHANGED <<attached, all_disks, compute_vms, results>>

ListInstances ==
  /\ phase = "list_instances"
  /\ compute_vms' = attached
  /\ vms_left' = VM
  /\ phase' = "build"
  /\ UNCHANGED <<attached, all_disks, instance_types, collected, vm_errors,
                 asked>>

\* Mutant of _get_matched_disk_tag_info: an unknown disk is passed over.
matched_disk_passed_over(v) == TRUE

\* The size of each disk is read from its match in the listing.  Without a
\* match the result is None and the read raises, though None is tested for
\* a few lines before.
_get_matched_disk_tag_info(v) == compute_vms[v] \subseteq all_disks

Fail(v, exception) ==
  vm_errors' = [w \in DOMAIN vm_errors \cup {v} |->
                  IF w = v THEN exception ELSE vm_errors[w]]

\* Mutant of Respond: the disks that have been listed.
RespondWithKnown(v) ==
  collected' = [w \in DOMAIN collected \cup {v} |->
                  IF w = v THEN [disks |-> all_disks, type |-> TypeOf[v]]
                  ELSE collected[w]]

Respond(v) ==
  collected' = [w \in DOMAIN collected \cup {v} |->
                  IF w = v THEN [disks |-> compute_vms[v], type |-> TypeOf[v]]
                  ELSE collected[w]]

\* get_disk_info raises: AttributeError on None.
FailAtDisk(v) ==
  /\ ~_get_matched_disk_tag_info(v)
  /\ Fail(v, "AttributeError")
  /\ UNCHANGED <<instance_types, collected, asked>>

BuildPredefined(v) ==
  /\ _get_matched_disk_tag_info(v) /\ TypeOf[v] \in instance_types
  /\ Respond(v)
  /\ UNCHANGED <<instance_types, vm_errors, asked>>

\* Mutant of BuildCustom: what was returned is not kept.
BuildCustomAfresh(v) ==
  /\ _get_matched_disk_tag_info(v) /\ TypeOf[v] \notin instance_types
  /\ asked' = [asked EXCEPT ![TypeOf[v]] = @ + 1]
  /\ Respond(v)
  /\ UNCHANGED <<instance_types, vm_errors>>

\* _get_custom_image_type
BuildCustom(v) ==
  /\ _get_matched_disk_tag_info(v) /\ TypeOf[v] \notin instance_types
  /\ asked' = [asked EXCEPT ![TypeOf[v]] = @ + 1]
  /\ instance_types' = instance_types \cup {TypeOf[v]}
  /\ Respond(v)
  /\ UNCHANGED vm_errors

\* get_machine_type raises; the next instance of the type asks again.
FailAtType(v) ==
  /\ _get_matched_disk_tag_info(v) /\ TypeOf[v] \notin instance_types
  /\ Fail(v, "HttpError")
  /\ UNCHANGED <<instance_types, collected, asked>>

\* One turn of the loop of collect_cloud_service.
BuildVM(v) ==
  /\ phase = "build" /\ v \in vms_left
  /\ vms_left' = vms_left \ {v}
  /\ UNCHANGED <<attached, phase, all_disks, compute_vms>>
  /\ FailAtDisk(v) \/ BuildPredefined(v) \/ BuildCustom(v) \/ FailAtType(v)

Next ==
  \/ ListDisks \/ ListOthers \/ ListInstances
  \/ \E v \in VM : BuildVM(v) \/ \E d \in Disk : Attach(v, d) \/ Detach(v, d)

Spec == Init /\ [][Next]_vars

-----------------------------------------------------------------------------
TypeOK ==
  /\ attached \in [VM -> SUBSET AnyDisk]
  /\ phase \in {"list_disks", "list_others", "list_instances", "build"}
  /\ all_disks \subseteq Disk
  /\ instance_types \subseteq MachineType
  /\ compute_vms = <<>> \/ compute_vms \in [VM -> SUBSET AnyDisk]
  /\ vms_left \subseteq VM
  /\ DOMAIN collected \cap DOMAIN vm_errors = {}
  /\ DOMAIN collected \cup DOMAIN vm_errors = (DOMAIN compute_vms) \ vms_left
  /\ asked \in [MachineType -> Nat]

\* An instance that is reported is reported with the disks it had when the
\* instances were listed, none missing and none added, whatever was attached
\* or detached since the disks were listed.
OwnDisks == \A v \in DOMAIN collected : collected[v].disks = compute_vms[v]

\* An instance without local SSD fails at its disks only if one was attached
\* while the project was being listed; one with a local SSD always does.
FailsAtDiskOnly ==
  \A v \in (DOMAIN compute_vms) \ vms_left :
    v \in DOMAIN vm_errors /\ vm_errors[v] = "AttributeError" <=>
      \E d \in compute_vms[v] : d \in LocalSSD \/ d \notin all_disks

\* A listed machine type is never asked for and a custom one is until it is
\* answered once, however many instances have it.
TypeAskedOnce ==
  \A t \in MachineType : asked[t] <= IF t \in Predefined THEN 0 ELSE 1

=============================================================================
