------------------------------- MODULE Buckets -------------------------------
(***************************************************************************)
(* StorageManager (manager/cloud_storage) lists the buckets and then asks  *)
(* for the IAM policy of each within its loop.  Whether a bucket is public *)
(* is concluded from both: from the bucket, as it was listed, whether its  *)
(* objects have ACLs, and from the policy, as it is now, who may read.     *)
(* Whoever pays for the call is taken from the listing too.                *)
(***************************************************************************)
EXTENDS Naturals, Sequences, FiniteSets

CONSTANTS
  Bucket,
  Location,     \* [type, code] of each bucket
  KnownRegion,  \* the codes REGION_INFO has
  MaxChanges

VARIABLES
  project, changes, lasting, ever,   \* see ChangingProject
  buckets,      \* list_buckets: bucket -> [uniform, requesterPays]
  collected,    \* bucket -> [public_access, region]
  errors,       \* buckets with an error response
  accesses      \* history: public access each bucket has really had

-----------------------------------------------------------------------------
\* The types of location Cloud Storage has.
LocationsTyped ==
  \A b \in Bucket : Location[b].type \in {"region", "multi-region", "dual-region"}

Exists(b) == <<"bucket", b>>
Uniform(b) == <<"uniformBucketLevelAccess", b>>
AllUsers(b) == <<"allUsers", b>>
RequesterPays(b) == <<"requesterPays", b>>

Fact == UNION {{Exists(b), Uniform(b), AllUsers(b), RequesterPays(b)} : b \in Bucket}

Needs(f) == IF f[1] = "bucket" THEN {} ELSE {Exists(f[2])}

INSTANCE ChangingProject

projectVars == <<project, changes, lasting, ever>>

vars == <<projectVars, buckets, collected, errors, accesses>>

\* Mutant of _get_public_access: the policy is looked at first.
policy_before_acls(uniform, allUsers) ==
  CASE allUsers -> "Public to internet"
    [] ~uniform -> "Subject to object ACLs"
    [] OTHER -> "Not public"

_get_public_access(uniform, allUsers) ==
  CASE ~uniform -> "Subject to object ACLs"
    [] allUsers -> "Public to internet"
    [] OTHER -> "Not public"

\* What is true of a bucket at this moment.
TrueAccess(b) ==
  CASE Uniform(b) \notin project -> "Subject to object ACLs"
    [] AllUsers(b) \in project -> "Public to internet"
    [] OTHER -> "Not public"

\* A bucket in several regions is filed under global.  The result is None for
\* a location that is not known, and reading its region_code raises.
get_matching_region(b) ==
  IF Location[b].type \in {"multi-region", "dual-region"} THEN {"global"}
  ELSE {Location[b].code} \cap KnownRegion

Init ==
  /\ ProjectInit
  /\ buckets = <<>> /\ collected = <<>> /\ errors = {}
  /\ accesses = [b \in Bucket |-> {TrueAccess(b)}]

Left == (DOMAIN buckets \ DOMAIN collected) \ errors

ProjectChanges ==
  /\ buckets = <<>> \/ Left # {}
  /\ \E f \in Fact : Change(f)
  /\ accesses' = [b \in Bucket |-> accesses[b] \cup {TrueAccess(b)'}]
  /\ UNCHANGED <<buckets, collected, errors>>

list_buckets ==
  /\ buckets = <<>>
  /\ buckets' = [b \in {c \in Bucket : Exists(c) \in project} |->
                   [uniform |-> Uniform(b) \in project,
                    requesterPays |-> RequesterPays(b) \in project]]
  /\ UNCHANGED <<projectVars, collected, errors, accesses>>

\* list_iam_policy: a bucket whose requester pays wants a project to bill.
PolicyAnswers(b) ==
  /\ Exists(b) \in project
  /\ RequesterPays(b) \in project => buckets[b].requesterPays

BuildBucket(b) ==
  /\ b \in Left /\ PolicyAnswers(b) /\ get_matching_region(b) # {}
  /\ collected' = [c \in DOMAIN collected \cup {b} |->
       IF c # b THEN collected[c]
       ELSE [public_access |-> _get_public_access(buckets[b].uniform,
                                                  AllUsers(b) \in project),
             region |-> get_matching_region(b)]]
  /\ UNCHANGED <<projectVars, buckets, errors, accesses>>

FailAtBucket(b) ==
  /\ b \in Left /\ (~PolicyAnswers(b) \/ get_matching_region(b) = {})
  /\ errors' = errors \cup {b}
  /\ UNCHANGED <<projectVars, buckets, collected, accesses>>

Next == \/ ProjectChanges \/ list_buckets
        \/ \E b \in Bucket : BuildBucket(b) \/ FailAtBucket(b)

Spec == Init /\ [][Next]_vars

-----------------------------------------------------------------------------
TypeOK ==
  /\ ProjectTypeOK
  /\ DOMAIN buckets \subseteq Bucket
  /\ DOMAIN collected \cap errors = {}

\* A bucket is shown with a public access it had at some time while the
\* project was being listed.  That takes at most one change: of two, one to
\* its ACLs and one to its policy, it may be shown with one it never had.
AccessOnceTrue ==
  changes <= 1 =>
    \A b \in DOMAIN collected : collected[b].public_access \in accesses[b]

\* A bucket fails only if it was deleted or its payer changed meanwhile, or
\* if it is in one region and REGION_INFO does not know that.
BucketsThatFail ==
  \A b \in errors :
    \/ Exists(b) \notin lasting
    \/ RequesterPays(b) \in ever \ lasting
    \/ Location[b].type = "region" /\ Location[b].code \notin KnownRegion

=============================================================================
