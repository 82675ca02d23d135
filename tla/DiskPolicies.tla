---------------------------- MODULE DiskPolicies ----------------------------
(***************************************************************************)
(* DiskManager shows a disk with the snapshot schedules attached to it.    *)
(* Disks hold links; the policies are listed once per region, and the      *)
(* dictionary of a policy is shared by all disks that link to it.          *)
(* _get_matched_snapshot_schedule_detail rewrites that dictionary each     *)
(* time a disk reaches it: a second rewriting parses the region out of     *)
(* what the first one left.                                                *)
(***************************************************************************)
EXTENDS Naturals, Sequences

CONSTANTS
  Disk, Region,
  Policy,       \* resource policies of the project
  RegionOf,     \* the region of a policy
  MaxLinks      \* bound on the links of a disk

VARIABLES
  disks,              \* what list_disks returned
  resource_policies,  \* policy dictionaries listed: policy -> [start, region]
  left,               \* disks the loop has not reached
  snapshot_schedule,  \* collected disks -> what they are shown with
  errors              \* failed disks -> exception

vars == <<disks, resource_policies, left, snapshot_schedule, errors>>

-----------------------------------------------------------------------------
\* A regional disk has "region" in place of "zone"; links are distinct and
\* to policies of the disk's own region.
ListedDisk ==
  {d \in [location : Region, regional : BOOLEAN,
          resourcePolicies : UNION {[1 .. n -> Policy] : n \in 0 .. MaxLinks}] :
     \A j, k \in DOMAIN d.resourcePolicies :
       /\ RegionOf[d.resourcePolicies[j]] = d.location
       /\ d.resourcePolicies[j] = d.resourcePolicies[k] => j = k}

\* start is the start hour: "last" for 23:00, "none" for an hourly schedule or
\* no schedule.  region is "url", the name parsed from it, or "".
PolicyDict == [start : {"none", "earlier", "last"}, region : {"url", "name", ""}]

\* parse_region_from_zone("") of a disk without zone is "".
region(d) == IF disks[d].regional THEN "" ELSE disks[d].location

\* Mutant of get_param_in_url: the link is shown as it is.
link_unparsed(link) == link

\* get_param_in_url(region, "regions")
get_param_in_url(link) == IF link = "url" THEN "name" ELSE ""

\* Mutant of _get_readable_time: the end of the hour wraps around at midnight.
readable_time_at_midnight(start) == TRUE

\* int(hour) + 1 is 24 for the last hour, which strptime refuses.
_get_readable_time(start) == start # "last"

\* resource_policies.get(region)
policies(d) == {p \in DOMAIN resource_policies : RegionOf[p] = region(d)}

\* The links of the disk to policies it knows: "policies" is the list of its
\* region.
Matched(d) ==
  {k \in DOMAIN disks[d].resourcePolicies : disks[d].resourcePolicies[k] \in policies(d)}

Readable(p) == _get_readable_time(resource_policies[p].start)

\* Those before the first policy whose schedule cannot be displayed.
Displayed(d) ==
  {k \in Matched(d) :
     \A j \in Matched(d) : j <= k => Readable(disks[d].resourcePolicies[j])}

Seen(d) == {disks[d].resourcePolicies[k] : k \in Displayed(d)}

\* Mutant of Rewritten: the region is parsed from the API's url each time.
RewrittenFromUrl(seen) ==
  [p \in DOMAIN resource_policies |->
     IF p \in seen THEN [resource_policies[p] EXCEPT !.region = "name"]
     ELSE resource_policies[p]]

\* policy.update({...}) of the policies in seen.
Rewritten(seen) ==
  [p \in DOMAIN resource_policies |->
     IF p \in seen
     THEN [resource_policies[p] EXCEPT !.region = get_param_in_url(@)]
     ELSE resource_policies[p]]

Init ==
  /\ disks \in [Disk -> ListedDisk]
  /\ \E P \in SUBSET Policy :
       resource_policies \in [P -> {d \in PolicyDict : d.region = "url"}]
  /\ left = Disk
  /\ snapshot_schedule = <<>>
  /\ errors = <<>>

\* for policy in policies, with policies None: the region of the disk has no
\* policy, or the disk has no region.
FailWithoutPolicies(d) ==
  /\ disks[d].resourcePolicies # <<>> /\ policies(d) = {}
  /\ errors' = [e \in DOMAIN errors \cup {d} |->
                  IF e = d THEN "TypeError" ELSE errors[e]]
  /\ UNCHANGED <<resource_policies, snapshot_schedule>>

\* A schedule cannot be displayed.  The policies before it are rewritten.
FailToDisplay(d) ==
  /\ Displayed(d) # Matched(d)
  /\ resource_policies' = Rewritten(Seen(d))
  /\ errors' = [e \in DOMAIN errors \cup {d} |->
                  IF e = d THEN "ValueError" ELSE errors[e]]
  /\ UNCHANGED snapshot_schedule

\* matched_policies, in the order of the links.  The Disk model copies the
\* dictionaries as they are now.
Collect(d) ==
  /\ disks[d].resourcePolicies = <<>> \/ policies(d) # {}
  /\ Displayed(d) = Matched(d)
  /\ resource_policies' = Rewritten(Seen(d))
  /\ snapshot_schedule' =
       [e \in DOMAIN snapshot_schedule \cup {d} |->
          IF e # d THEN snapshot_schedule[e]
          ELSE [k \in Matched(d) |->
                  LET p == disks[d].resourcePolicies[k]
                  IN [policy |-> p, region |-> resource_policies'[p].region]]]
  /\ UNCHANGED errors

\* One turn of the loop of collect_cloud_service.
BuildDisk(d) ==
  /\ left' = left \ {d}
  /\ UNCHANGED disks
  /\ FailWithoutPolicies(d) \/ FailToDisplay(d) \/ Collect(d)

Next == \E d \in left : BuildDisk(d)

Spec == Init /\ [][Next]_vars

-----------------------------------------------------------------------------
TypeOK ==
  /\ disks \in [Disk -> ListedDisk]
  /\ \E P \in SUBSET Policy : resource_policies \in [P -> PolicyDict]
  /\ left \subseteq Disk
  /\ DOMAIN snapshot_schedule \cup DOMAIN errors = Disk \ left
  /\ DOMAIN snapshot_schedule \cap DOMAIN errors = {}
  /\ \A d \in DOMAIN snapshot_schedule :
       snapshot_schedule[d] \in [DOMAIN snapshot_schedule[d] ->
                                   [policy : Policy, region : {"name", ""}]]
  /\ \A d \in DOMAIN errors : errors[d] \in {"TypeError", "ValueError"}

\* The disks shown with a policy and with its region.
ShownWithRegion(p) ==
  {d \in DOMAIN snapshot_schedule :
     \E k \in DOMAIN snapshot_schedule[d] :
       snapshot_schedule[d][k] = [policy |-> p, region |-> "name"]}

\* However many disks share a policy, at most the first of them is shown with
\* its region, and none is if the disk that reached it first failed at a later
\* policy.
RegionShownOnce ==
  \A p \in Policy : \A d, e \in ShownWithRegion(p) : d = e

\* What a disk reaches does not depend on the disks before it: it fails
\* exactly if it has links and no policy in its region was listed, or if one
\* it reaches begins in the last hour of the day.  A disk shown with a policy
\* is shown with it once.
DisksIndependent ==
  \A d \in Disk \ left :
    LET reached == {p \in policies(d) :
                      \E k \in DOMAIN disks[d].resourcePolicies :
                        disks[d].resourcePolicies[k] = p} IN
    /\ d \in DOMAIN errors <=>
         \/ disks[d].resourcePolicies # <<>> /\ policies(d) = {}
         \/ \E p \in reached : resource_policies[p].start = "last"
    /\ d \in DOMAIN snapshot_schedule =>
         LET shown == snapshot_schedule[d]
         IN /\ \A k, l \in DOMAIN shown : shown[k].policy = shown[l].policy => k = l
            /\ {shown[k].policy : k \in DOMAIN shown} = reached

=============================================================================
