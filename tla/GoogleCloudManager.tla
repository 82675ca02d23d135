------------------------- MODULE GoogleCloudManager -------------------------
(***************************************************************************)
(* The base class of every service manager (libs/manager.py) and the       *)
(* collect_cloud_service loop its subclasses share.                        *)
(*                                                                         *)
(* A task is one call of collect_resources, running in a thread of its     *)
(* own.  Two things are shared by all tasks of the process, whatever the   *)
(* request they belong to: collected_region_codes, a list held by the base *)
(* class, and the CloudServiceType objects, module-level objects that      *)
(* collect_cloud_service_type rewrites in place.                           *)
(***************************************************************************)
EXTENDS Naturals, Sequences, FiniteSets

CONSTANTS
  Task,          \* calls of collect_resources
  Type,          \* CloudServiceType objects; every manager class has one
  TypeOf,        \* the type of the manager a task runs
  Code,          \* service codes
  InitialCode,   \* the service code each type is declared with
  Mapper,        \* options["service_code_mappers"] of a task's request
  Item,          \* cloud resources the Google API may list
  Regional,      \* types whose manager calls set_region_code for each item
  RegionName,    \* region names found in the API's answers
  Region,        \* keys of REGION_INFO
  Global,        \* the key "global"
  RegionOf,      \* the region name of an item
  BigQuery,      \* types of the group "BigQuery"
  Reason,        \* values of "reason" in the error_details of an HttpError
  Fault          \* exceptions the listing calls may raise

VARIABLES
  collected_region_codes, \* class attribute of GoogleCloudManager
  service_code,           \* resource.service_code of each type object
  pc,                     \* where each task is
  mapped_code,            \* svc_code_maps[...], read and not yet stored
  listed,                 \* items the connector returned
  todo,                   \* items the loop has not reached
  current,                \* items the loop is working on: one or none
  resources,              \* collected_cloud_services of the loop
  error_resources,        \* error_responses of the loop
  total_resources,        \* what collect_resources has gathered
  cursor,                 \* position of collect_region in the shared list
  fault                   \* exceptions caught by collect_resources

shared == <<collected_region_codes, service_code>>
loop   == <<listed, todo, current, resources, error_resources>>
vars   == <<shared, pc, mapped_code, loop, total_resources, cursor, fault>>

-----------------------------------------------------------------------------
\* What a fault tells collect_resources: an HTTP status (0: no HttpError) and
\* the "reason" of each entry of error_details.
Exception == [status : Nat, reasons : Seq(Reason \cup {"KeyError"})]

\* KeyError of svc_code_maps[...], told apart from what listing calls raise.
KeyError == [status |-> 0, reasons |-> <<"KeyError">>]

ASSUME TypeAssumption ==
  /\ TypeOf \in [Task -> Type]
  /\ InitialCode \in [Type -> Code]
  /\ Regional \subseteq Type
  /\ BigQuery \subseteq Type

ASSUME MapperAssumption ==
  \A t \in Task : \E D \in SUBSET Code : Mapper[t] \in [D -> Code]

ASSUME RegionAssumption ==
  /\ Region \subseteq RegionName
  /\ Global \in Region
  /\ RegionOf \in [Item -> RegionName]

ASSUME FaultAssumption == Fault \subseteq Exception \ {KeyError}

Response ==
  [kind : {"CloudServiceType"}, of : Type] \cup
  [kind : {"CloudService"}, of : Item]     \cup
  [kind : {"ErrorResource"}, of : Item]    \cup
  [kind : {"Failure"}, of : Type]          \cup
  [kind : {"Region"}, of : Region]

TypeResponse(ty)   == [kind |-> "CloudServiceType", of |-> ty]
ResourceResponse(i) == [kind |-> "CloudService", of |-> i]
ErrorResponse(i)   == [kind |-> "ErrorResource", of |-> i]
Failure(ty)        == [kind |-> "Failure", of |-> ty]
RegionResponse(r)  == [kind |-> "Region", of |-> r]

Elements(s) == {s[k] : k \in DOMAIN s}

\* Mutant of RegionKey: the fallback to "global" is missing.
RegionKeyUnchecked(name) == name

\* set_region_code: a name that is no key of REGION_INFO counts as "global"
RegionKey(name) == IF name \in Region THEN name ELSE Global

\* The "service disabled" answers collect_resources swallows.
Disabled(e) ==
  /\ e.status = 403
  /\ \/ Len(e.reasons) = 1 /\ e.reasons[1] = "accessNotConfigured"
     \/ Len(e.reasons) = 2 /\ e.reasons[2] = "SERVICE_DISABLED"

InvalidDataset(e, ty) ==
  /\ e.status = 400
  /\ \/ Len(e.reasons) = 1 /\ e.reasons[1] = "invalid"
     \/ Len(e.reasons) = 2 /\ e.reasons[2] = "invalid"
  /\ ty \in BigQuery

Skipped(e, ty) == Disabled(e) \/ InvalidDataset(e, ty)

-----------------------------------------------------------------------------
Init ==
  /\ collected_region_codes = <<>>
  /\ service_code = InitialCode
  /\ pc = [t \in Task |-> "pending"]
  /\ mapped_code = [t \in Task |-> InitialCode[TypeOf[t]]]
  /\ listed = [t \in Task |-> {}]
  /\ todo = [t \in Task |-> {}]
  /\ current = [t \in Task |-> {}]
  /\ resources = [t \in Task |-> <<>>]
  /\ error_resources = [t \in Task |-> <<>>]
  /\ total_resources = [t \in Task |-> <<>>]
  /\ cursor = [t \in Task |-> 1]
  /\ fault = [t \in Task |-> {}]

Goto(t, from, to) == pc[t] = from /\ pc' = [pc EXCEPT ![t] = to]

Add(t, s) == total_resources' = [total_resources EXCEPT ![t] = @ \o s]

\* Mutant of Raise: the branch that records the failure is missing.
RaiseSilently(t, e) ==
  /\ fault' = [fault EXCEPT ![t] = {e}]
  /\ UNCHANGED total_resources

\* The except clause of collect_resources: what was gathered so far is kept.
Raise(t, e) ==
  /\ fault' = [fault EXCEPT ![t] = {e}]
  /\ Add(t, IF Skipped(e, TypeOf[t]) THEN <<>> ELSE <<Failure(TypeOf[t])>>)

\* Mutant of Start: the call empties the shared list it inherits.
StartAfresh(t) ==
  /\ Goto(t, "pending", "check_code")
  /\ collected_region_codes' = <<>>
  /\ UNCHANGED <<service_code, mapped_code, loop, total_resources, cursor, fault>>

\* The executor calls collect_resources.
Start(t) ==
  /\ Goto(t, "pending", "check_code")
  /\ UNCHANGED <<shared, mapped_code, loop, total_resources, cursor, fault>>

\* Mutant of CheckCode: the membership test is missing.
CheckCodeNever(t) ==
  /\ Goto(t, "check_code", "look_up_code")
  /\ UNCHANGED <<shared, mapped_code, loop, total_resources, cursor, fault>>

\* if ... cloud_service_type.resource.service_code in svc_code_maps
CheckCode(t) ==
  /\ Goto(t, "check_code",
          IF service_code[TypeOf[t]] \in DOMAIN Mapper[t]
          THEN "look_up_code" ELSE "add_type")
  /\ UNCHANGED <<shared, mapped_code, loop, total_resources, cursor, fault>>

\* svc_code_maps[cloud_service_type.resource.service_code]: the attribute is
\* read again.
LookUpCode(t) ==
  LET code == service_code[TypeOf[t]] IN
  \/ /\ code \in DOMAIN Mapper[t]
     /\ Goto(t, "look_up_code", "store_code")
     /\ mapped_code' = [mapped_code EXCEPT ![t] = Mapper[t][code]]
     /\ UNCHANGED <<shared, loop, total_resources, cursor, fault>>
  \/ /\ code \notin DOMAIN Mapper[t]
     /\ Goto(t, "look_up_code", "done")
     /\ Raise(t, KeyError)
     /\ UNCHANGED <<shared, mapped_code, loop, cursor>>

\* Mutant of StoreCode: the mapped code is dropped.
StoreCodeNever(t) ==
  /\ Goto(t, "store_code", "add_type")
  /\ UNCHANGED <<shared, mapped_code, loop, total_resources, cursor, fault>>

StoreCode(t) ==
  /\ Goto(t, "store_code", "add_type")
  /\ service_code' = [service_code EXCEPT ![TypeOf[t]] = mapped_code[t]]
  /\ UNCHANGED <<collected_region_codes, mapped_code, loop, total_resources,
                 cursor, fault>>

\* yield cloud_service_type: the list holds the shared object, not a copy.
AddType(t) ==
  /\ Goto(t, "add_type", "list")
  /\ Add(t, <<TypeResponse(TypeOf[t])>>)
  /\ UNCHANGED <<shared, mapped_code, loop, cursor, fault>>

\* The listing calls at the head of collect_cloud_service.
List(t) ==
  /\ Goto(t, "list", "loop")
  /\ \E S \in SUBSET Item : /\ listed' = [listed EXCEPT ![t] = S]
                            /\ todo' = [todo EXCEPT ![t] = S]
  /\ UNCHANGED <<shared, mapped_code, current, resources, error_resources,
                 total_resources, cursor, fault>>

ListFails(t) ==
  /\ Goto(t, "list", "done")
  /\ \E e \in Fault : Raise(t, e)
  /\ UNCHANGED <<shared, mapped_code, loop, cursor>>

\* The next turn of the loop takes an item and builds its resource.
BuildItem(t) ==
  /\ Goto(t, "loop",
          IF TypeOf[t] \in Regional THEN "check_region" ELSE "respond")
  /\ \E i \in todo[t] : /\ todo' = [todo EXCEPT ![t] = @ \ {i}]
                        /\ current' = [current EXCEPT ![t] = {i}]
  /\ UNCHANGED <<shared, mapped_code, listed, resources, error_resources,
                 total_resources, cursor, fault>>

\* The except clause of the loop body.
BuildFails(t) ==
  /\ pc[t] = "loop"
  /\ \E i \in todo[t] :
       /\ todo' = [todo EXCEPT ![t] = @ \ {i}]
       /\ error_resources' =
            [error_resources EXCEPT ![t] = Append(@, ErrorResponse(i))]
  /\ UNCHANGED <<shared, pc, mapped_code, listed, current, resources,
                 total_resources, cursor, fault>>

\* Mutant of CheckRegion: the membership test is missing.
CheckRegionNever(t) ==
  /\ current[t] # {}
  /\ Goto(t, "check_region", "append_region")
  /\ UNCHANGED <<shared, mapped_code, loop, total_resources, cursor, fault>>

\* if region not in self.collected_region_codes
CheckRegion(t) ==
  /\ \E i \in current[t] :
       Goto(t, "check_region",
            IF RegionKey(RegionOf[i]) \in Elements(collected_region_codes)
            THEN "respond" ELSE "append_region")
  /\ UNCHANGED <<shared, mapped_code, loop, total_resources, cursor, fault>>

\* self.collected_region_codes.append(region)
AppendRegion(t) ==
  /\ Goto(t, "append_region", "respond")
  /\ \E i \in current[t] :
       collected_region_codes' =
         Append(collected_region_codes, RegionKey(RegionOf[i]))
  /\ UNCHANGED <<service_code, mapped_code, loop, total_resources, cursor,
                 fault>>

\* Building the response object is the last step of the loop body.
Respond(t) ==
  /\ Goto(t, "respond", "loop")
  /\ current' = [current EXCEPT ![t] = {}]
  /\ \E i \in current[t] :
       \/ /\ resources' = [resources EXCEPT ![t] = Append(@, ResourceResponse(i))]
          /\ UNCHANGED error_resources
       \/ /\ error_resources' =
               [error_resources EXCEPT ![t] = Append(@, ErrorResponse(i))]
          /\ UNCHANGED resources
  /\ UNCHANGED <<shared, mapped_code, listed, todo, total_resources, cursor,
                 fault>>

\* Mutant of EndLoop: the errors of the loop are not handed over.
EndLoopWithoutErrors(t) ==
  /\ todo[t] = {}
  /\ Goto(t, "loop", "regions")
  /\ Add(t, resources[t])
  /\ UNCHANGED <<shared, mapped_code, loop, cursor, fault>>

\* The loop ends; collect_resources extends its list by both results.
EndLoop(t) ==
  /\ todo[t] = {}
  /\ Goto(t, "loop", "regions")
  /\ Add(t, resources[t] \o error_resources[t])
  /\ UNCHANGED <<shared, mapped_code, loop, cursor, fault>>

\* One turn of the loop of collect_region, over the live shared list.
AddRegion(t) ==
  /\ pc[t] = "regions"
  /\ cursor[t] <= Len(collected_region_codes)
  /\ cursor' = [cursor EXCEPT ![t] = @ + 1]
  /\ LET region_code == collected_region_codes[cursor[t]] IN
       Add(t, IF region_code \in Region THEN <<RegionResponse(region_code)>>
              ELSE <<>>)
  /\ UNCHANGED <<shared, pc, mapped_code, loop, fault>>

\* Mutant of EndRegions: the walk stops one code early.
EndRegionsEarly(t) ==
  /\ cursor[t] >= Len(collected_region_codes)
  /\ Goto(t, "regions", "done")
  /\ UNCHANGED <<shared, mapped_code, loop, total_resources, cursor, fault>>

EndRegions(t) ==
  /\ cursor[t] > Len(collected_region_codes)
  /\ Goto(t, "regions", "done")
  /\ UNCHANGED <<shared, mapped_code, loop, total_resources, cursor, fault>>

\* Every step of a task after the executor has started it.
Step(t) ==
  \/ CheckCode(t) \/ LookUpCode(t) \/ StoreCode(t) \/ AddType(t)
  \/ List(t) \/ ListFails(t)
  \/ BuildItem(t) \/ BuildFails(t)
  \/ CheckRegion(t) \/ AppendRegion(t) \/ Respond(t)
  \/ EndLoop(t) \/ AddRegion(t) \/ EndRegions(t)

Next == \E t \in Task : Start(t) \/ Step(t)

Spec == Init /\ [][Next]_vars

-----------------------------------------------------------------------------
Done(t) == pc[t] = "done"

Location ==
  {"pending", "check_code", "look_up_code", "store_code", "add_type", "list",
   "loop", "check_region", "append_region", "respond", "regions", "done"}

TypeOK ==
  /\ collected_region_codes \in Seq(Region)
  /\ service_code \in [Type -> Code]
  /\ pc \in [Task -> Location]
  /\ mapped_code \in [Task -> Code]
  /\ listed \in [Task -> SUBSET Item]
  /\ todo \in [Task -> SUBSET Item]
  /\ current \in [Task -> SUBSET Item]
  /\ resources \in [Task -> Seq(Response)]
  /\ error_resources \in [Task -> Seq(Response)]
  /\ total_resources \in [Task -> Seq(Response)]
  /\ cursor \in [Task -> Nat]
  /\ fault \in [Task -> SUBSET Exception]

\* Positions of the answers to an item in a list of responses.
AnswersTo(i, s) ==
  {k \in DOMAIN s : /\ s[k].kind \in {"CloudService", "ErrorResource"}
                    /\ s[k].of = i}

\* A manager that was not stopped by an exception answers every listed item
\* with exactly one response, a resource or an error, and nothing else.
EachItemAnsweredOnce ==
  \A t \in Task : Done(t) /\ fault[t] = {} =>
    \A i \in Item :
      IF i \in listed[t]
      THEN \E k \in DOMAIN total_resources[t] :
             AnswersTo(i, total_resources[t]) = {k}
      ELSE AnswersTo(i, total_resources[t]) = {}

\* The region of every resource a manager hands over is handed over with it,
\* whatever the other threads do to the shared list between its check and its
\* append, and while collect_region walks the list.
OwnRegionsCollected ==
  \A t \in Task : Done(t) /\ fault[t] = {} /\ TypeOf[t] \in Regional =>
    \A i \in Item :
      ResourceResponse(i) \in Elements(total_resources[t]) =>
        RegionResponse(RegionKey(RegionOf[i])) \in Elements(total_resources[t])

\* An answer without items and without a failure record is given only when the
\* service is disabled (or, for BigQuery, the dataset invalid): in particular
\* a KeyError of the code mapping is never silent.
SilentOnlyIfSkipped ==
  \A t \in Task : Done(t) =>
    \/ fault[t] = {}
    \/ Failure(TypeOf[t]) \in Elements(total_resources[t])
    \/ \E e \in fault[t] : Skipped(e, TypeOf[t])

\* The mapping of service codes raises KeyError only when another task of the
\* same type has rewritten the shared type object between the check and the
\* look-up: two requests, or a manager that one request runs twice.
KeyErrorNeedsRival ==
  \A t \in Task : KeyError \in fault[t] =>
    \E u \in Task \ {t} :
      /\ TypeOf[u] = TypeOf[t]
      /\ pc[u] \notin {"pending", "check_code", "look_up_code", "store_code"}

\* The unlocked check-then-append may list a region several times, but never
\* more often than there are tasks that listed a resource of that region: a
\* task appends a code at most once, however many of its items carry it.
DuplicatesBounded ==
  \A r \in Region :
    Cardinality({k \in DOMAIN collected_region_codes :
                   collected_region_codes[k] = r})
      <= Cardinality({t \in Task :
                        \E i \in listed[t] : RegionKey(RegionOf[i]) = r})

\* The shared list only ever grows at its end, so a thread iterating over it
\* misses nothing that was in it.
AppendOnly ==
  [][/\ Len(collected_region_codes) <= Len(collected_region_codes')
     /\ \A k \in DOMAIN collected_region_codes :
          collected_region_codes'[k] = collected_region_codes[k]]_vars

=============================================================================
