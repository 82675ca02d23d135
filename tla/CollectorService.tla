-------------------------- MODULE CollectorService --------------------------
(***************************************************************************)
(* CollectorService.collect (service/collector_service.py): each request   *)
(* submits one task per manager to a thread pool of its own, and streams   *)
(* to its client what the tasks return, in the order in which they finish. *)
(* Requests run side by side in one process and share what                 *)
(* GoogleCloudManager shares.                                              *)
(***************************************************************************)
EXTENDS GoogleCloudManager

CONSTANTS
  Request,   \* calls of collect
  Owner,     \* the request that may submit a task
  Slot,      \* the task's position in execute_managers
  MaxWorker  \* MAX_WORKER

VARIABLES
  rpc,       \* phase of each request's generator
  submitted, \* tasks with a future in the request's pool
  consuming, \* the future whose result is being streamed: one or none
  settled,   \* tasks whose future as_completed has handed out and finished
  yielded,   \* responses of a task's result streamed so far
  stream     \* what each client has received

service  == <<rpc, submitted, consuming, settled, yielded, stream>>
allVars  == <<vars, service>>

ASSUME RequestAssumption ==
  /\ Owner \in [Task -> Request]
  /\ Slot \in [Task -> Nat]
  /\ MaxWorker \in Nat \ {0}

-----------------------------------------------------------------------------
\* Mutant of Primitive: the response object itself is streamed.
PrimitiveNever(response) == response

\* What to_primitive makes of a response: a type object is read only now.
Primitive(response) ==
  IF response.kind = "CloudServiceType"
  THEN [kind |-> response.kind, of |-> response.of,
        code |-> service_code[response.of]]
  ELSE response

\* generate_error_response of the service, of type "inventory.Error"
GenericError == [kind |-> "GenericError", of |-> "inventory.Error"]

\* The namespaces and metrics of all services, which close every stream.
Metrics == [kind |-> "Metric", of |-> "inventory.Metric"]

\* A streamed response, with the task and the position it comes from.
Entry(from, at, body) == [from |-> from, at |-> at, body |-> body]

TasksOf(r) == {t \in Task : Owner[t] = r}
Running(t) == pc[t] \notin {"pending", "done"}

CollectorInit ==
  /\ Init
  /\ rpc = [r \in Request |-> "idle"]
  /\ submitted = [r \in Request |-> {}]
  /\ consuming = [r \in Request |-> {}]
  /\ settled = {}
  /\ yielded = [t \in Task |-> 0]
  /\ stream = [r \in Request |-> <<>>]

Phase(r, from, to) == rpc[r] = from /\ rpc' = [rpc EXCEPT ![r] = to]

Send(r, entry) == stream' = [stream EXCEPT ![r] = Append(@, entry)]

\* get_project_info fails: the generator returns before its first yield.
Reject(r) ==
  /\ Phase(r, "idle", "over")
  /\ UNCHANGED <<vars, submitted, consuming, settled, yielded, stream>>

\* Every target manager is submitted to the pool.
Submit(r) ==
  /\ Phase(r, "idle", "collecting")
  /\ submitted' = [submitted EXCEPT ![r] = TasksOf(r)]
  /\ UNCHANGED <<vars, consuming, settled, yielded, stream>>

\* _get_target_execute_manager fails: one error, then an empty pool.
BadTargets(r) ==
  /\ Phase(r, "idle", "collecting")
  /\ Send(r, Entry({}, 0, GenericError))
  /\ UNCHANGED <<vars, submitted, consuming, settled, yielded>>

\* The pool hands its oldest waiting call to a free worker.
StartTask(t) ==
  LET pool == submitted[Owner[t]] IN
  /\ t \in pool
  /\ Cardinality({u \in pool : Running(u)}) < MaxWorker
  /\ \A u \in pool : Slot[u] < Slot[t] => pc[u] # "pending"
  /\ Start(t)
  /\ UNCHANGED service

TaskStep(t) == Step(t) /\ UNCHANGED service

\* Mutant of NextFuture: futures of managers that failed are not handed out.
NextFutureWithoutFault(r) ==
  /\ rpc[r] = "collecting" /\ consuming[r] = {}
  /\ \E t \in submitted[r] \ settled :
       /\ Done(t) /\ fault[t] = {}
       /\ consuming' = [consuming EXCEPT ![r] = {t}]
  /\ UNCHANGED <<vars, rpc, submitted, settled, yielded, stream>>

\* as_completed hands out a finished future.
NextFuture(r) ==
  /\ rpc[r] = "collecting" /\ consuming[r] = {}
  /\ \E t \in submitted[r] \ settled :
       Done(t) /\ consuming' = [consuming EXCEPT ![r] = {t}]
  /\ UNCHANGED <<vars, rpc, submitted, settled, yielded, stream>>

\* yield result.to_primitive()
Yield(r) ==
  /\ rpc[r] = "collecting"
  /\ \E t \in consuming[r] :
       LET at == yielded[t] + 1 IN
       /\ at <= Len(total_resources[t])
       /\ Send(r, Entry({t}, at, Primitive(total_resources[t][at])))
       /\ yielded' = [yielded EXCEPT ![t] = at]
  /\ UNCHANGED <<vars, rpc, submitted, consuming, settled>>

\* Mutant of YieldFails: the "try" is inside the loop over the result.
YieldFailsAndGoesOn(r) ==
  /\ rpc[r] = "collecting"
  /\ \E t \in consuming[r] :
       LET at == yielded[t] + 1 IN
       /\ at <= Len(total_resources[t])
       /\ total_resources[t][at].kind = "CloudService"
       /\ Send(r, Entry({t}, at, GenericError))
       /\ yielded' = [yielded EXCEPT ![t] = at]
  /\ UNCHANGED <<vars, rpc, submitted, consuming, settled>>

\* to_primitive raises: one error stands for the rest of the result.
YieldFails(r) ==
  /\ rpc[r] = "collecting"
  /\ \E t \in consuming[r] :
       /\ yielded[t] < Len(total_resources[t])
       /\ total_resources[t][yielded[t] + 1].kind = "CloudService"
       /\ Send(r, Entry({t}, yielded[t] + 1, GenericError))
       /\ settled' = settled \cup {t}
  /\ consuming' = [consuming EXCEPT ![r] = {}]
  /\ UNCHANGED <<vars, rpc, submitted, yielded>>

EndFuture(r) ==
  /\ rpc[r] = "collecting"
  /\ \E t \in consuming[r] :
       /\ yielded[t] = Len(total_resources[t])
       /\ settled' = settled \cup {t}
  /\ consuming' = [consuming EXCEPT ![r] = {}]
  /\ UNCHANGED <<vars, rpc, submitted, yielded, stream>>

\* Mutant of LeavePool: the loop ends with the first futures that are there.
LeavePoolEarly(r) ==
  /\ consuming[r] = {} /\ submitted[r] \cap settled # {}
  /\ Phase(r, "collecting", "metrics")
  /\ UNCHANGED <<vars, submitted, consuming, settled, yielded, stream>>

\* All futures are consumed: the pool is shut down.
LeavePool(r) ==
  /\ submitted[r] \subseteq settled /\ consuming[r] = {}
  /\ Phase(r, "collecting", "metrics")
  /\ UNCHANGED <<vars, submitted, consuming, settled, yielded, stream>>

SendMetrics(r) ==
  /\ Phase(r, "metrics", "over")
  /\ Send(r, Entry({}, 0, Metrics))
  /\ UNCHANGED <<vars, submitted, consuming, settled, yielded>>

\* The client goes away.  The generator is closed at a yield; leaving the
\* "with" block waits for the pool, whose queue is not cancelled.
Cancel(r) ==
  /\ \/ Phase(r, "collecting", "draining")
     \/ Phase(r, "metrics", "closed")
  /\ UNCHANGED <<vars, submitted, consuming, settled, yielded, stream>>

\* Mutant of EndDrain: the pool is abandoned (shutdown(wait=False)).
EndDrainAtOnce(r) ==
  /\ Phase(r, "draining", "closed")
  /\ UNCHANGED <<vars, submitted, consuming, settled, yielded, stream>>

EndDrain(r) ==
  /\ \A t \in submitted[r] : Done(t)
  /\ Phase(r, "draining", "closed")
  /\ UNCHANGED <<vars, submitted, consuming, settled, yielded, stream>>

\* What the generator does by itself once it runs.
Generator(r) ==
  \/ NextFuture(r) \/ Yield(r) \/ YieldFails(r) \/ EndFuture(r)
  \/ LeavePool(r) \/ SendMetrics(r) \/ EndDrain(r)

CollectorNext ==
  \/ \E r \in Request :
       \/ Reject(r) \/ Submit(r) \/ BadTargets(r) \/ Cancel(r)
       \/ Generator(r)
  \/ \E t \in Task : StartTask(t) \/ TaskStep(t)

CollectorSpec == CollectorInit /\ [][CollectorNext]_allVars

\* Threads of the pool and the generator of a client that keeps reading run
\* on; requests need not come and clients need not go away.
Fairness ==
  /\ \A t \in Task : WF_allVars(StartTask(t) \/ TaskStep(t))
  /\ \A r \in Request : WF_allVars(Generator(r))

FairCollectorSpec == CollectorSpec /\ Fairness

-----------------------------------------------------------------------------
Ended(r) == rpc[r] \in {"over", "closed"}

PrimitiveResponse ==
  (Response \ [kind : {"CloudServiceType"}, of : Type]) \cup
  [kind : {"CloudServiceType"}, of : Type, code : Code] \cup
  {GenericError, Metrics}

ServiceTypeOK ==
  /\ rpc \in [Request -> {"idle", "collecting", "metrics", "draining",
                          "over", "closed"}]
  /\ submitted \in [Request -> SUBSET Task]
  /\ consuming \in [Request -> SUBSET Task]
  /\ settled \subseteq Task
  /\ yielded \in [Task -> Nat]
  /\ stream \in [Request -> Seq([from : SUBSET Task, at : Nat,
                                 body : PrimitiveResponse])]

CollectorTypeOK == TypeOK /\ ServiceTypeOK

\* Positions of the stream of t's client that hold a response of t.
From(t) == {k \in DOMAIN stream[Owner[t]] : stream[Owner[t]][k].from = {t}}

\* t's result was cut short by an error of to_primitive.
CutShort(t) == \E k \in From(t) : stream[Owner[t]][k].body = GenericError

\* What a client has received of a manager is, at any time, a prefix of what
\* the manager returned, without gap, duplicate or reordering, whatever the
\* other managers and requests do meanwhile; an error that cuts it short is
\* the last thing the client hears of that manager.
StreamedInOrder ==
  \A t \in Task : \A j, k \in From(t) :
    LET s == stream[Owner[t]] IN
    /\ j < k => s[j].at < s[k].at
    /\ \A at \in 1 .. s[k].at : \E l \in From(t) : s[l].at = at
    /\ s[k].body = GenericError => j <= k
    /\ s[k].body # GenericError =>
         /\ s[k].body.kind = total_resources[t][s[k].at].kind
         /\ s[k].body.of = total_resources[t][s[k].at].of

\* A request that ran to its end delivered, for every manager whose listing
\* succeeded and whose result was not cut short, exactly one answer for each
\* item that manager listed: a failure of one manager costs no other manager
\* of any request an item.
EveryItemDeliveredOnce ==
  \A t \in Task :
    (/\ rpc[Owner[t]] = "over" /\ t \in submitted[Owner[t]]
     /\ fault[t] = {} /\ ~CutShort(t)) =>
      \A i \in listed[t] :
        \E k \in From(t) :
          {l \in From(t) :
             /\ stream[Owner[t]][l].body.kind \in {"CloudService", "ErrorResource"}
             /\ stream[Owner[t]][l].body.of = i} = {k}

\* What a client receives of a manager is what it returned, in its order, and
\* in the end all of it, once.
Delivered == StreamedInOrder /\ EveryItemDeliveredOnce

\* Under the same conditions the client has the region of every resource it
\* was sent, so that the inventory can file the resource.
RegionsDelivered ==
  \A t \in Task :
    (/\ rpc[Owner[t]] = "over" /\ TypeOf[t] \in Regional
     /\ fault[t] = {} /\ ~CutShort(t)) =>
      \A k \in From(t) :
        LET s == stream[Owner[t]] IN
        s[k].body.kind = "CloudService" =>
          \E l \in From(t) :
            s[l].body = RegionResponse(RegionKey(RegionOf[s[k].body.of]))

\* Neither the end of a stream nor a client that went away leaves a manager
\* thread running or queued: what touches the shared state belongs to a
\* request that is still open.
NoOrphanManagers ==
  \A r \in Request : Ended(r) => \A t \in submitted[r] : Done(t)

\* The declared code of t's type, replaced as t's request asks.
Configured(t) ==
  LET declared == InitialCode[TypeOf[t]]
  IN IF declared \in DOMAIN Mapper[t] THEN Mapper[t][declared] ELSE declared

\* The code a client is sent with a type is the type's declared code, replaced
\* as this request's service_code_mappers ask.
CodeAsConfigured ==
  \A t \in Task : \A k \in From(t) :
    LET body == stream[Owner[t]][k].body IN
    body.kind = "CloudServiceType" => body.code = Configured(t)

\* The items a client has an answer to: resources and error resources.
ItemsAnswered(t) ==
  {i \in Item : \E k \in From(t) :
     /\ stream[Owner[t]][k].body.kind \in {"CloudService", "ErrorResource"}
     /\ stream[Owner[t]][k].body.of = i}

\* How a client reads the state of a call.  A verdict is "complete" only for a
\* manager that met no exception and whose result was streamed to its end.
CallPhase ==
  [r \in Request |-> CASE rpc[r] \in {"collecting", "metrics"} -> "open"
                       [] rpc[r] = "draining" -> "leaving"
                       [] OTHER -> rpc[r]]

Activity ==
  [t \in Task |-> CASE pc[t] = "pending" -> "waiting"
                    [] pc[t] = "done" -> "finished"
                    [] OTHER -> "working"]

Answered == [t \in Task |-> ItemsAnswered(t)]

Verdict ==
  [t \in Task |->
     IF t \notin settled THEN "none"
     ELSE IF fault[t] = {} /\ yielded[t] = Len(total_resources[t])
     THEN "complete" ELSE "partial"]

Contract == INSTANCE CollectionContract WITH
  phase <- CallPhase, hired <- submitted, activity <- Activity,
  listing <- listed, answered <- Answered, verdict <- Verdict

\* collect, over its pool, futures and shared state, keeps the contract of
\* CollectionContract with every client.
KeepsContract == Contract!ContractSpec

\* Every request that got past its project look-up ends, even when managers
\* fail, a result cannot be serialised or the client goes away.
RequestsEnd == \A r \in Request : rpc[r] = "collecting" ~> Ended(r)

=============================================================================
