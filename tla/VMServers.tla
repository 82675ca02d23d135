------------------------------ MODULE VMServers ------------------------------
(***************************************************************************)
(* The server an instance is shown as: operating system, image and keys    *)
(* (manager/compute_engine/vm_instance,                                    *)
(* VMInstanceManagerResourceHelper.get_server_info).                       *)
(*                                                                         *)
(* The image is that of a disk, and the disk is looked for by the name of  *)
(* the instance among the disks of all zones, which were listed before the *)
(* instances.  A boot disk has the name of its instance unless it is given *)
(* another, and names are taken per zone.                                  *)
(***************************************************************************)
EXTENDS Naturals, Sequences

CONSTANTS
  Zones,           \* in the order in which the listing has them
  Name,            \* of disks and instances
  Image,
  License,
  public_images,   \* [key, images] in their order; an image: [licenses, arch]
  KeysIn,          \* the keys that are part of a license
  Windows,         \* the licenses that are for Windows
  MaxChanges

VARIABLES
  project, changes, lasting, ever,   \* see ChangingProject
  phase,      \* "list_disks", "list_instances", "build", "built", "failed"
  disks,      \* all_resources["disk"]
  instance,   \* an instance that was listed; <<>> before
  server      \* server_data; <<>> before

-----------------------------------------------------------------------------
Zone == {Zones[k] : k \in DOMAIN Zones}

\* Each zone is listed once.
ZonesDistinct ==
  Zones \in Seq(Zone) /\ \A j, k \in DOMAIN Zones : Zones[j] = Zones[k] => j = k

ZonedDisk(z, n, i) == <<z, n, i>>

Fact == Zone \X Name \X Image

INSTANCE ChangingProject WITH Needs <- LAMBDA f : {}

projectVars == <<project, changes, lasting, ever>>

vars == <<projectVars, phase, disks, instance, server>>

\* No two disks of a zone have one name.
NamesTaken ==
  \A f, g \in project : f[1] = g[1] /\ f[2] = g[2] => f = g

Init ==
  /\ ProjectInit /\ NamesTaken
  /\ phase = "list_disks"
  /\ disks = {} /\ instance = <<>> /\ server = <<>>

ProjectChanges ==
  /\ phase \in {"list_disks", "list_instances"}
  /\ \E f \in Fact : Change(f)
  /\ NamesTaken'
  /\ UNCHANGED <<phase, disks, instance, server>>

list_disks ==
  /\ phase = "list_disks"
  /\ disks' = project
  /\ phase' = "list_instances"
  /\ UNCHANGED <<projectVars, instance, server>>

\* An instance boots from a disk in its zone, which need not have its name.
\* "ssh-keys" of its metadata is a user and a key with a colon between them,
\* or something else.
list_instances ==
  /\ phase = "list_instances"
  /\ \E boot \in project, name \in Name, keys \in {"user:key", "other"},
        licenses \in {<<>>} \cup {<<l>> : l \in License} :
       instance' = [zone |-> boot[1], name |-> name, boot |-> boot,
                    licenses |-> licenses, ssh_keys |-> keys]
  /\ phase' = "build"
  /\ UNCHANGED <<projectVars, disks, server>>

\* The images of a family that have the licenses of the boot disk.
Licensed(family, licenses) ==
  LET Same(image) == image.licenses = licenses
  IN SelectSeq(family.images, Same)

\* The first family whose key is part of the first license and which has an
\* image with just these licenses; the newest of its images.
_get_appropriate_image_info(licenses) ==
  LET Matches(family) == /\ licenses # <<>> /\ family.key \in KeysIn[licenses[1]]
                         /\ Licensed(family, licenses) # <<>>
      families == SelectSeq(public_images, Matches)
  IN IF families = <<>> THEN [os_distro |-> "", os_arch |-> ""]
     ELSE [os_distro |-> families[1].key,
           os_arch |-> Licensed(families[1], licenses)[1].arch]

_get_os_data(licenses) ==
  [os_type |-> IF licenses # <<>> /\ licenses[1] \in Windows
               THEN "WINDOWS" ELSE "LINUX",
   image |-> _get_appropriate_image_info(licenses)]

\* Mutant of _get_images: the names are not compared.
any_image(name) == {i \in Image : \E z \in Zone, n \in Name : ZonedDisk(z, n, i) \in disks}

\* The image of the first disk with the name of the instance, in whatever
\* zone; {} if there is none.
_get_images(name) ==
  LET zones == {k \in DOMAIN Zones : \E i \in Image : ZonedDisk(Zones[k], name, i) \in disks}
  IN {i \in Image : \E k \in zones : /\ \A m \in zones : k <= m
                                     /\ ZonedDisk(Zones[k], name, i) \in disks}

\* user_name, ssh_key = value.split(":", 1) raises without a colon, and the
\* instance becomes an error response.
_get_ssh_keys(keys) == keys = "user:key"

get_server_info ==
  /\ phase = "build" /\ _get_ssh_keys(instance.ssh_keys)
  /\ server' = [os |-> _get_os_data(instance.licenses),
                image |-> _get_images(instance.name)]
  /\ phase' = "built"
  /\ UNCHANGED <<projectVars, disks, instance>>

FailAtKeys ==
  /\ phase = "build" /\ ~_get_ssh_keys(instance.ssh_keys)
  /\ phase' = "failed"
  /\ UNCHANGED <<projectVars, disks, instance, server>>

Next == \/ ProjectChanges \/ list_disks \/ list_instances
        \/ get_server_info \/ FailAtKeys

Spec == Init /\ [][Next]_vars

-----------------------------------------------------------------------------
TypeOK ==
  /\ ProjectTypeOK /\ NamesTaken
  /\ phase \in {"list_disks", "list_instances", "build", "built", "failed"}
  /\ disks \subseteq ever
  /\ phase \in {"build", "built", "failed"} =>
       instance.boot \in project /\ instance.boot[1] = instance.zone
  /\ (phase = "built") = (server # <<>>)

\* An instance is shown with the image of its boot disk if that has the name
\* of the instance, lasts while the project is listed, and no other zone has
\* a disk of that name.  Whatever image it is shown with is that of some disk
\* of its name, if not of its own.
ImageOfBootDisk ==
  phase = "built" =>
    /\ /\ instance.boot[2] = instance.name /\ instance.boot \in lasting
       /\ \A f \in ever : f[2] = instance.name => f[1] = instance.zone
       => server.image = {instance.boot[3]}
    /\ \A i \in server.image : \E z \in Zone : ZonedDisk(z, instance.name, i) \in ever

=============================================================================
