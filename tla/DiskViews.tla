------------------------------ MODULE DiskViews ------------------------------
(***************************************************************************)
(* One disk on five pages: DiskManager, VMInstanceManager, SnapshotManager,*)
(* MachineImageManager and InstanceTemplateManager (manager/               *)
(* compute_engine) each show its size, rates or encryption, each with its  *)
(* own copy of the formulas and from its own listing.  The managers run    *)
(* side by side while the disk may be resized, saved and used as a model   *)
(* for a template.                                                         *)
(*                                                                         *)
(* VMInstanceManager takes the size from the listing of disks and the      *)
(* rates from the size the later listing of instances has.                 *)
(*                                                                         *)
(* Sizes are in GB, rates in hundredths.                                   *)
(***************************************************************************)
EXTENDS Integers

CONSTANTS
  Sizes,       \* of disks, in GB
  GiB,         \* 1024 * 1024 * 1024 in the code
  MaxResizes   \* bound on the resizes

VARIABLES
  disk,      \* [type, sizeGb, key]
  resizes,   \* the resizes so far
  all_disks, \* VMInstanceManager: the disk in list_disks, {} before
  grew,      \* history: the disk was resized since
  saved,     \* {"snapshot", "machine_image"} -> the disk when it was saved
  template,  \* the sizes of a template's initializeParams: {} for none
  pages      \* page -> what it shows of the disk

vars == <<disk, resizes, all_disks, grew, saved, template, pages>>

-----------------------------------------------------------------------------
Page == {"disk", "instance", "snapshot", "machine_image", "template"}
Type == {"pd-standard", "pd-balanced", "pd-ssd", "other"}
Key == {"none", "kmsKeyName", "sha256"}

_get_iops_constant(type, flag) ==
  CASE type = "pd-standard" -> IF flag = "read" THEN 75 ELSE 150
    [] type = "pd-balanced" -> 600
    [] type = "pd-ssd" -> 3000
    [] OTHER -> 0

_get_throughput_constant(type) ==
  CASE type = "pd-standard" -> 12 [] type = "pd-balanced" -> 28
    [] type = "pd-ssd" -> 48 [] OTHER -> 0

DiskRates(type, size) ==
  [read_iops |-> size * _get_iops_constant(type, "read"),
   write_iops |-> size * _get_iops_constant(type, "write"),
   throughput |-> size * _get_throughput_constant(type)]

\* Mutant of Rounded: to the tenth below.
Truncated(rate) == 10 * (rate \div 10)

\* round(rate, 1): to the nearest tenth, and to the even one in the middle.
Rounded(rate) ==
  LET tenths == rate \div 10
      up == rate % 10 > 5 \/ (rate % 10 = 5 /\ tenths % 2 = 1)
  IN 10 * (IF up THEN tenths + 1 ELSE tenths)

InstanceRates(type, size) ==
  LET rates == DiskRates(type, size) IN [r \in DOMAIN rates |-> Rounded(rates[r])]

MachineImageRates(type, size) == DiskRates(type, size)

\* Without diskSizeGb the size is 0.
_get_disk_size(sizes) == IF sizes = {} THEN 0 ELSE GiB * CHOOSE s \in sizes : TRUE

\* What the others have in GB is in bytes here.
TemplateRates(type, sizes) == DiskRates(type, _get_disk_size(sizes))

get_disk_encryption_type(key) ==
  CASE key = "none" -> "Google managed"
    [] key = "kmsKeyName" -> "Customer managed"
    [] OTHER -> "Customer supplied"

Init ==
  /\ disk \in [type : Type, sizeGb : Sizes, key : Key]
  /\ resizes = 0 /\ all_disks = {} /\ grew = FALSE
  /\ saved = <<>> /\ template \in {{}, {disk.sizeGb}} /\ pages = <<>>

-----------------------------------------------------------------------------
\* Compute Engine: disks only grow.
Resize(size) ==
  /\ resizes < MaxResizes /\ size > disk.sizeGb
  /\ disk' = [disk EXCEPT !.sizeGb = size]
  /\ resizes' = resizes + 1
  /\ grew' = (all_disks # {})
  /\ UNCHANGED <<all_disks, saved, template, pages>>

\* Compute Engine: a snapshot or machine image, under the key of the disk.
Save(as) ==
  /\ as \notin DOMAIN saved
  /\ saved' = [k \in DOMAIN saved \cup {as} |-> IF k = as THEN disk ELSE saved[k]]
  /\ UNCHANGED <<disk, resizes, all_disks, grew, template, pages>>

Show(page, shown) ==
  /\ page \notin DOMAIN pages
  /\ pages' = [p \in DOMAIN pages \cup {page} |->
                 IF p = page THEN shown ELSE pages[p]]
  /\ UNCHANGED <<disk, resizes, grew, saved, template>>

\* DiskManager
ShowDisk ==
  /\ Show("disk", [size |-> GiB * disk.sizeGb,
                   rates |-> DiskRates(disk.type, disk.sizeGb),
                   encryption |-> get_disk_encryption_type(disk.key)])
  /\ UNCHANGED all_disks

\* VMInstanceManager, get_all_resources
list_disks ==
  /\ all_disks = {} /\ all_disks' = {disk}
  /\ UNCHANGED <<disk, resizes, grew, saved, template, pages>>

\* The listing of instances and get_disk_info.
get_disk_info ==
  /\ \E listed \in all_disks :
       Show("instance", [size |-> GiB * listed.sizeGb,
                         rates |-> InstanceRates(listed.type, disk.sizeGb),
                         encryption |-> "encrypted"])
  /\ UNCHANGED all_disks

\* SnapshotManager
ShowSnapshot ==
  /\ "snapshot" \in DOMAIN saved
  /\ Show("snapshot", [size |-> GiB * saved["snapshot"].sizeGb,
                       encryption |-> get_disk_encryption_type(saved["snapshot"].key)])
  /\ UNCHANGED all_disks

\* MachineImageManager: the keys it looks for are not in instanceProperties.
ShowMachineImage ==
  /\ "machine_image" \in DOMAIN saved
  /\ LET image == saved["machine_image"]
     IN Show("machine_image", [size |-> GiB * image.sizeGb,
                               rates |-> MachineImageRates(image.type, image.sizeGb),
                               encryption |-> "Customer supplied"])
  /\ UNCHANGED all_disks

\* InstanceTemplateManager
ShowTemplate ==
  /\ Show("template", [size |-> _get_disk_size(template),
                       rates |-> TemplateRates(disk.type, template)])
  /\ UNCHANGED all_disks

Next ==
  \/ \E size \in Sizes : Resize(size)
  \/ \E as \in {"snapshot", "machine_image"} : Save(as)
  \/ ShowDisk \/ list_disks \/ get_disk_info
  \/ ShowSnapshot \/ ShowMachineImage \/ ShowTemplate

Spec == Init /\ [][Next]_vars

-----------------------------------------------------------------------------
TypeOK ==
  /\ disk \in [type : Type, sizeGb : Sizes, key : Key]
  /\ resizes \in 0 .. MaxResizes /\ grew \in BOOLEAN
  /\ all_disks \subseteq [type : Type, sizeGb : Sizes, key : Key]
  /\ DOMAIN saved \subseteq {"snapshot", "machine_image"}
  /\ DOMAIN pages \subseteq Page

Shown(p, q) == {p, q} \subseteq DOMAIN pages

SameSize(p, q) == Shown(p, q) /\ pages[p].size = pages[q].size

\* Pages that show a disk with one size show it with the same rates: those of
\* an instance to the nearest tenth, and larger ones if the disk grew between
\* the two listings of that page; those of a template, which takes bytes for
\* GB, GiB times over.  The disk and its snapshot are shown under one kind of
\* key, and the snapshot and the image with no size the disk never had.
PagesAgree ==
  /\ SameSize("disk", "machine_image") =>
       pages["disk"].rates = pages["machine_image"].rates
  /\ SameSize("disk", "instance") =>
       \A r \in DOMAIN pages["disk"].rates :
         LET more == pages["instance"].rates[r] - pages["disk"].rates[r]
         IN more >= -5 /\ (grew \/ more <= 5)
  /\ SameSize("disk", "template") =>
       \A r \in DOMAIN pages["disk"].rates :
         pages["template"].rates[r] = GiB * pages["disk"].rates[r]
  /\ Shown("disk", "snapshot") =>
       pages["disk"].encryption = pages["snapshot"].encryption
  /\ \A p \in DOMAIN pages \ {"template"} : pages[p].size <= GiB * disk.sizeGb

=============================================================================
