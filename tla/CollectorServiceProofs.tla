----------------------- MODULE CollectorServiceProofs -----------------------
(***************************************************************************)
(* Theorems about CollectorService, for every set of requests, tasks and   *)
(* items, any size of the pool and every way the threads interleave: what  *)
(* reaches a client, what a request leaves behind, and that the service    *)
(* implements CollectionContract.                                          *)
(*                                                                         *)
(* The tasks are those of GoogleCloudManager: each step of the service is  *)
(* a step of theirs or leaves them alone, so that what is proved of Spec   *)
(* holds here.  The rest of the argument is that a task that has finished  *)
(* no longer changes, and that a result is only streamed then.             *)
(***************************************************************************)
EXTENDS CollectorService, GoogleCloudManagerProofs

USE TypeAssumption, RegionAssumption, RequestAssumption
    DEF TypeAssumption, RegionAssumption, RequestAssumption

\* What collect_resources may have gathered: nothing before its first yield,
\* no type but its own, and no answers if an exception stopped it.
ResultInv(t) ==
  /\ pc[t] \in {"pending", "check_code", "look_up_code", "store_code", "add_type"}
       => total_resources[t] = <<>>
  /\ \A k \in DOMAIN total_resources[t] :
       total_resources[t][k].kind = "CloudServiceType" =>
         total_resources[t][k].of = TypeOf[t]
  /\ Done(t) /\ fault[t] # {} => NoAnswers(total_resources[t])

\* A streamed body stands for a gathered response.
Streams(body, response) ==
  /\ body.kind = response.kind /\ body.of = response.of
  /\ response.kind # "CloudServiceType" => body = response

\* The stream holds the responses 1 .. yielded[t] of t in their order, then an
\* error at most.
StreamInv(t) ==
  LET s == stream[Owner[t]] IN
  /\ \A k \in From(t) :
       /\ s[k].at \in 1 .. yielded[t] + 1 /\ s[k].at <= Len(total_resources[t])
       /\ s[k].body = GenericError <=> s[k].at = yielded[t] + 1
       /\ s[k].body # GenericError => Streams(s[k].body, total_resources[t][s[k].at])
  /\ \A at \in 1 .. yielded[t] : \E k \in From(t) : s[k].at = at
  /\ \A j, k \in From(t) : j < k => s[j].at < s[k].at

\* A result is streamed when its task has finished, and a future is settled
\* when the result is streamed to its end or cut short.
ProgressInv(t) ==
  /\ pc[t] # "pending" => t \in submitted[Owner[t]]
  /\ yielded[t] <= Len(total_resources[t])
  /\ From(t) # {} \/ yielded[t] > 0 \/ t \in settled => Done(t)
  /\ CutShort(t) => t \in settled /\ yielded[t] < Len(total_resources[t])
  /\ t \in settled => yielded[t] = Len(total_resources[t]) \/ CutShort(t)

\* The futures of a request in each phase of its generator.
RequestInv(r) ==
  /\ submitted[r] \in {{}, TasksOf(r)}
  /\ \A t \in consuming[r] : t \in submitted[r] \ settled /\ Done(t)
  /\ \A t, u \in consuming[r] : t = u
  /\ rpc[r] = "idle" => submitted[r] = {}
  /\ rpc[r] \in {"metrics", "over"} => submitted[r] \subseteq settled
  /\ rpc[r] = "closed" => \A t \in submitted[r] : Done(t)

ServiceInv ==
  /\ ServiceTypeOK
  /\ \A t \in Task : ResultInv(t) /\ StreamInv(t) /\ ProgressInv(t)
  /\ \A r \in Request : RequestInv(r)

-----------------------------------------------------------------------------
\* What the tasks do.

\* A task that has finished no longer changes.
LEMMA DoneStays ==
  ASSUME TypeOK, NEW t \in Task, Done(t), NEW u \in Task, Start(u) \/ Step(u)
  PROVE  /\ u # t /\ Done(t)'
         /\ total_resources'[t] = total_resources[t] /\ listed'[t] = listed[t]
         /\ fault'[t] = fault[t]
<1>1. u # t
  BY DEF Done, Step, Start, CheckCode, LookUpCode, StoreCode, AddType, List, ListFails,
     BuildItem, BuildFails, CheckRegion, AppendRegion, Respond, EndLoop, AddRegion,
     EndRegions, Goto
<1> QED BY <1>1, Frame DEF Done

\* Every response is of one kind, and of what that kind is about.
LEMMA ResponseKinds ==
  ASSUME NEW x \in Response
  PROVE  /\ x.kind \in {"CloudServiceType", "CloudService", "ErrorResource", "Failure", "Region"}
         /\ x.kind = "CloudServiceType" => x.of \in Type
         /\ x.kind = "CloudService" => x.of \in Item /\ x = ResourceResponse(x.of)
         /\ x.kind = "ErrorResource" => x.of \in Item
BY DEF Response, ResourceResponse

\* What is gathered by one more step: the old responses, then new ones.
LEMMA Gathering ==
  ASSUME TypeOK, NEW s \in Seq(Response), NEW q \in Seq(Response), NEW P \in SUBSET Response,
         \A k \in DOMAIN s : s[k] \in P, \A k \in DOMAIN q : q[k] \in P
  PROVE  \A k \in DOMAIN (s \o q) : (s \o q)[k] \in P
<1>1. Elements(s \o q) = Elements(s) \cup Elements(q)
  BY ElementsConcat
<1>2. \A k \in DOMAIN (s \o q) : (s \o q)[k] \in Elements(s \o q)
  BY DEF Elements
<1>3. Elements(s) \subseteq P /\ Elements(q) \subseteq P
  BY DEF Elements
<1> QED BY <1>1, <1>2, <1>3

LEMMA ResultStep ==
  ASSUME IInv, NEW t \in Task, ResultInv(t), NEW u \in Task, Start(u) \/ Step(u)
  PROVE  ResultInv(t)'
<1> DEFINE own == {x \in Response : x.kind = "CloudServiceType" => x.of = TypeOf[t]}
           early == {"pending", "check_code", "look_up_code", "store_code", "add_type"}
<1>1. TypeOK /\ GatherInv(t) /\ LoopInv(t) /\ BuiltInv(t)
  BY DEF IInv
<1>2. CASE u # t
  BY <1>1, <1>2, Frame DEF ResultInv, Done
<1>3. CASE u = t /\ total_resources'[t] = total_resources[t]
            /\ (pc'[t] \in early => pc[t] \in early)
            /\ (Done(t)' => fault'[t] = {})
  BY <1>3 DEF ResultInv
<1>4. \A k \in DOMAIN total_resources[t] : total_resources[t][k] \in own
  BY <1>1 DEF ResultInv, TypeOK
<1>5. ASSUME NEW q \in Seq(Response), \A k \in DOMAIN q : q[k] \in own,
             total_resources'[t] = total_resources[t] \o q,
             pc'[t] \notin early,
             Done(t)' /\ fault'[t] # {} => NoAnswers(total_resources'[t])
      PROVE  ResultInv(t)'
  <2>1. total_resources[t] \in Seq(Response) /\ own \in SUBSET Response
    BY <1>1 DEF TypeOK
  <2>2. \A k \in DOMAIN total_resources'[t] : total_resources'[t][k] \in own
    <3> HIDE DEF own
    <3> QED BY <1>1, <1>4, <1>5, <2>1, Gathering
  <2> QED BY <1>5, <2>2 DEF ResultInv
<1>6. CASE u = t /\ (LookUpCode(t) \/ ListFails(t))
  <2>1. CASE pc'[t] = "store_code"
    <3>1. LookUpCode(t)
      BY <1>1, <1>6, <2>1 DEF ListFails, Goto, TypeOK
    <3> QED BY <1>1, <2>1, <3>1 DEF LookUpCode, Goto, TypeOK, ResultInv, Done
  <2>2. CASE pc'[t] # "store_code"
    <3>1. pc'[t] = "done" /\ pc[t] \in {"look_up_code", "list"} /\ \E e : Raise(t, e)
      BY <1>1, <1>6, <2>2 DEF LookUpCode, ListFails, Goto, TypeOK
    <3>2. PICK e : Raise(t, e)
      BY <3>1
    <3> DEFINE q == IF Skipped(e, TypeOf[t]) THEN <<>> ELSE <<Failure(TypeOf[t])>>
    <3>3. total_resources'[t] = total_resources[t] \o q
      BY <1>1, <3>2 DEF Raise, Add, TypeOK
    <3>4. q \in Seq(Response) /\ \A k \in DOMAIN q : q[k] \in own
      <4>1. Failure(TypeOf[t]) \in own
        BY ResponseTypes DEF Failure
      <4> QED BY <4>1
    <3>5. NoAnswers(q)
      BY DEF NoAnswers, AnswersTo, Failure
    <3> HIDE DEF q
    <3>6. NoAnswers(total_resources[t])
      BY <1>1, <3>1 DEF GatherInv, Early
    <3>7. NoAnswers(total_resources'[t])
      <4>1. total_resources[t] \in Seq(Response)
        BY <1>1 DEF TypeOK
      <4>2. \A i \in Item : AnswersTo(i, total_resources[t] \o q) = AnswersTo(i, total_resources[t])
        BY <3>4, <3>5, <4>1, NoAnswersConcat
      <4> QED BY <3>3, <3>6, <4>2 DEF NoAnswers
    <3> HIDE DEF own
    <3> QED BY <1>5, <3>1, <3>3, <3>4, <3>7
  <2> QED BY <2>1, <2>2
<1>7. CASE u = t /\ AddType(t)
  <2> DEFINE q == <<TypeResponse(TypeOf[t])>>
  <2>1. /\ total_resources'[t] = total_resources[t] \o q
        /\ pc'[t] = "list"
    BY <1>1, <1>7 DEF AddType, Add, Goto, TypeOK
  <2>2. q \in Seq(Response) /\ \A k \in DOMAIN q : q[k] \in own
    <3>1. TypeResponse(TypeOf[t]) \in own
      BY ResponseTypes DEF TypeResponse
    <3> QED BY <3>1
  <2> HIDE DEF q, own
  <2> QED BY <1>5, <2>1, <2>2 DEF Done
<1>8. CASE u = t /\ EndLoop(t)
  <2> DEFINE q == resources[t] \o error_resources[t]
  <2>1. /\ total_resources'[t] = total_resources[t] \o q
        /\ pc'[t] = "regions"
    BY <1>1, <1>8 DEF EndLoop, Add, Goto, TypeOK
  <2>2. /\ resources[t] \in Seq(Response) /\ error_resources[t] \in Seq(Response)
        /\ \A k \in DOMAIN resources[t] : resources[t][k] \in own
        /\ \A k \in DOMAIN error_resources[t] : error_resources[t][k] \in own
    <3>1. resources[t] \in Seq(Response) /\ error_resources[t] \in Seq(Response)
      BY <1>1 DEF TypeOK
    <3>2. /\ \A k \in DOMAIN resources[t] :
               resources[t][k] \in Response /\ resources[t][k].kind = "CloudService"
          /\ \A k \in DOMAIN error_resources[t] :
               error_resources[t][k] \in Response /\ error_resources[t][k].kind = "ErrorResource"
      <4>1. /\ \A k \in DOMAIN resources[t] : \E i : resources[t][k] = ResourceResponse(i)
            /\ \A k \in DOMAIN error_resources[t] : \E i : error_resources[t][k] = ErrorResponse(i)
        BY <1>1 DEF BuiltInv, Built
      <4>2. /\ \A i : ResourceResponse(i).kind = "CloudService"
            /\ \A i : ErrorResponse(i).kind = "ErrorResource"
        BY DEF ResourceResponse, ErrorResponse
      <4> QED BY <3>1, <4>1, <4>2
    <3> QED BY <3>1, <3>2
  <2>3. q \in Seq(Response) /\ \A k \in DOMAIN q : q[k] \in own
    <3>1. q \in Seq(Response) /\ own \in SUBSET Response
      BY <2>2
    <3> HIDE DEF own
    <3> QED BY <1>1, <2>2, <3>1, Gathering
  <2> HIDE DEF q, own
  <2> QED BY <1>5, <2>1, <2>3 DEF Done
<1>9. CASE u = t /\ AddRegion(t)
  <2> DEFINE code == collected_region_codes[cursor[t]]
             q == IF code \in Region THEN <<RegionResponse(code)>> ELSE <<>>
  <2>1. /\ total_resources'[t] = total_resources[t] \o q
        /\ pc'[t] = "regions"
    BY <1>1, <1>9 DEF AddRegion, Add, TypeOK
  <2>2. q \in Seq(Response) /\ \A k \in DOMAIN q : q[k] \in own
    <3>1. code \in Region => RegionResponse(code) \in own
      BY ResponseTypes DEF RegionResponse
    <3> QED BY <3>1
  <2> HIDE DEF q, own
  <2> QED BY <1>5, <2>1, <2>2 DEF Done
<1>10. CASE u = t /\ ~LookUpCode(t) /\ ~ListFails(t) /\ ~AddType(t) /\ ~EndLoop(t) /\ ~AddRegion(t)
  <2>1. /\ total_resources' = total_resources /\ fault' = fault
        /\ pc'[t] \in early => pc[t] \in early
        /\ ~Done(t)
    BY <1>1, <1>10 DEF Step, Start, CheckCode, StoreCode, List, BuildItem, BuildFails,
       CheckRegion, AppendRegion, Respond, EndRegions, Goto, Done, TypeOK
  <2> QED BY <1>1, <1>3, <1>10, <2>1 DEF GatherInv
<1> QED BY <1>2, <1>6, <1>7, <1>8, <1>9, <1>10

-----------------------------------------------------------------------------
\* What the generators do.

Received == [from : SUBSET Task, at : Nat, body : PrimitiveResponse]

LEMMA PrimitiveOf ==
  ASSUME TypeOK, NEW x \in Response
  PROVE  /\ Primitive(x) \in PrimitiveResponse /\ Primitive(x) # GenericError
         /\ Streams(Primitive(x), x)
<1>1. CASE x.kind = "CloudServiceType"
  <2>1. x.of \in Type /\ service_code[x.of] \in Code
    BY <1>1, ResponseKinds DEF TypeOK
  <2>2. Primitive(x) = [kind |-> x.kind, of |-> x.of, code |-> service_code[x.of]]
    BY <1>1 DEF Primitive
  <2> QED BY <1>1, <2>1, <2>2 DEF PrimitiveResponse, GenericError, Streams
<1>2. CASE x.kind # "CloudServiceType"
  <2>1. Primitive(x) = x
    BY <1>2 DEF Primitive
  <2>2. x \in PrimitiveResponse
    BY <1>2 DEF PrimitiveResponse
  <2>3. x # GenericError
    BY ResponseKinds DEF GenericError
  <2> QED BY <2>1, <2>2, <2>3 DEF Streams
<1> QED BY <1>1, <1>2

LEMMA OtherBodies == GenericError \in PrimitiveResponse /\ Metrics \in PrimitiveResponse
BY DEF PrimitiveResponse

\* One more entry at the end of r's stream.
LEMMA Sending ==
  ASSUME ServiceTypeOK, NEW r \in Request, NEW e \in Received, Send(r, e)
  PROVE  /\ stream' \in [Request -> Seq(Received)]
         /\ \A q \in Request \ {r} : stream'[q] = stream[q]
         /\ DOMAIN stream[r] = 1 .. Len(stream[r]) /\ Len(stream[r]) \in Nat
         /\ DOMAIN stream'[r] = DOMAIN stream[r] \cup {Len(stream[r]) + 1}
         /\ \A k \in DOMAIN stream[r] : stream'[r][k] = stream[r][k]
         /\ stream'[r][Len(stream[r]) + 1] = e
<1>1. stream \in [Request -> Seq(Received)]
  BY DEF ServiceTypeOK, Received
<1>2. stream' = [stream EXCEPT ![r] = Append(stream[r], e)]
  BY DEF Send
<1>3. /\ Append(stream[r], e) \in Seq(Received)
      /\ DOMAIN stream[r] = 1 .. Len(stream[r]) /\ Len(stream[r]) \in Nat
      /\ DOMAIN Append(stream[r], e) = 1 .. Len(stream[r]) + 1
      /\ \A k \in 1 .. Len(stream[r]) : Append(stream[r], e)[k] = stream[r][k]
      /\ Append(stream[r], e)[Len(stream[r]) + 1] = e
  BY <1>1, AppendProperties, LenProperties
<1>4. stream'[r] = Append(stream[r], e)
  BY <1>1, <1>2
<1>5. 1 .. Len(stream[r]) + 1 = 1 .. Len(stream[r]) \cup {Len(stream[r]) + 1}
  BY <1>3
<1> QED BY <1>1, <1>2, <1>3, <1>4, <1>5

\* A task hears of the entry if it is from it.
LEMMA FromSending ==
  ASSUME ServiceTypeOK, NEW r \in Request, NEW e \in Received, Send(r, e), NEW t \in Task
  PROVE  /\ From(t)' = From(t) \cup
              (IF Owner[t] = r /\ e.from = {t} THEN {Len(stream[r]) + 1} ELSE {})
         /\ \A k \in From(t) : /\ stream'[Owner[t]][k] = stream[Owner[t]][k]
                               /\ k \in Nat /\ k < Len(stream[Owner[t]]) + 1
         /\ Owner[t] = r => stream'[Owner[t]][Len(stream[r]) + 1] = e
<1>1. CASE Owner[t] # r
  <2>1. stream'[Owner[t]] = stream[Owner[t]] /\ stream[Owner[t]] \in Seq(Received)
    BY <1>1, Sending DEF ServiceTypeOK, Received
  <2> QED BY <1>1, <2>1 DEF From
<1>2. CASE Owner[t] = r
  BY <1>2, Sending DEF From
<1> QED BY <1>1, <1>2

\* The other tasks do not.
LEMMA OthersUnmoved ==
  ASSUME ServiceTypeOK, NEW r \in Request, NEW e \in Received, Send(r, e),
         NEW t \in Task, e.from # {t}
  PROVE  /\ From(t)' = From(t)
         /\ \A k \in From(t) : stream'[Owner[t]][k] = stream[Owner[t]][k]
<1>1. From(t)' = From(t) \cup {}
  BY FromSending
<1> QED BY <1>1, FromSending

\* What is known of the results stays when a generator takes a step.
LEMMA ResultsKept ==
  ASSUME UNCHANGED vars, NEW t \in Task, ResultInv(t)
  PROVE  /\ ResultInv(t)' /\ Done(t)' = Done(t) /\ pc'[t] = pc[t]
         /\ total_resources'[t] = total_resources[t]
BY DEF vars, shared, loop, ResultInv, Done

\* A task of which nothing new is streamed.
LEMMA StreamKept ==
  ASSUME NEW t \in Task, StreamInv(t), ProgressInv(t),
         total_resources'[t] = total_resources[t], yielded'[t] = yielded[t],
         From(t)' = From(t),
         \A k \in From(t) : stream'[Owner[t]][k] = stream[Owner[t]][k],
         t \in settled' <=> t \in settled,
         Done(t) => Done(t)',
         pc'[t] # "pending" => t \in submitted'[Owner[t]]
  PROVE  StreamInv(t)' /\ ProgressInv(t)' /\ (CutShort(t)' <=> CutShort(t))
<1>1. CutShort(t)' <=> CutShort(t)
  BY DEF CutShort
<1>2. StreamInv(t)'
  BY DEF StreamInv
<1>3. ProgressInv(t)'
  BY <1>1 DEF ProgressInv
<1> QED BY <1>1, <1>2, <1>3

\* A task that takes a step was submitted and has not finished.
LEMMA AtWork ==
  ASSUME ServiceInv, NEW u \in Task, StartTask(u) \/ TaskStep(u)
  PROVE  u \in submitted[Owner[u]] /\ ~Done(u)
<1> USE DEF Goto, Done
<1>1. CASE StartTask(u)
  BY <1>1 DEF StartTask, Start
<1>2. CASE TaskStep(u)
  <2>1. pc[u] # "pending" /\ ~Done(u)
    BY <1>2 DEF TaskStep, Step, CheckCode, LookUpCode, StoreCode, AddType, List, ListFails,
       BuildItem, BuildFails, CheckRegion, AppendRegion, Respond, EndLoop, AddRegion,
       EndRegions
  <2> QED BY <2>1 DEF ServiceInv, ProgressInv
<1> QED BY <1>1, <1>2

LEMMA TaskKeeps ==
  ASSUME IInv, ServiceInv, NEW u \in Task, StartTask(u) \/ TaskStep(u)
  PROVE  ServiceInv'
<1>1. TypeOK /\ (Start(u) \/ Step(u)) /\ UNCHANGED service
  BY DEF IInv, StartTask, TaskStep
<1>2. UNCHANGED <<rpc, submitted, consuming, settled, yielded, stream>>
  BY <1>1 DEF service
<1>3. u \in submitted[Owner[u]]
  BY AtWork
<1>4. ASSUME NEW t \in Task PROVE Done(t) => Done(t)'
  BY <1>1, DoneStays
<1>5. ASSUME NEW t \in Task PROVE ResultInv(t)' /\ StreamInv(t)' /\ ProgressInv(t)'
  <2>1. ResultInv(t)'
    BY <1>1, ResultStep DEF ServiceInv
  <2>2. StreamInv(t) /\ ProgressInv(t)
    BY DEF ServiceInv
  <2>3. pc'[t] # "pending" => t \in submitted'[Owner[t]]
    BY <1>1, <1>2, <1>3, <2>2, Frame DEF ProgressInv
  <2>4. From(t)' = From(t)
    BY <1>2 DEF From
  <2>5. CASE Done(t)
    <3>1. total_resources'[t] = total_resources[t]
      BY <1>1, <2>5, DoneStays
    <3> QED BY <1>2, <1>4, <2>1, <2>2, <2>3, <2>4, <3>1, StreamKept
  <2>6. CASE ~Done(t)
    <3>1. From(t) = {} /\ t \notin settled /\ yielded[t] = 0
      BY <2>2, <2>6 DEF ProgressInv, ServiceInv, ServiceTypeOK
    <3>2. TypeOK'
      BY <1>1, StepType
    <3>3. Len(total_resources'[t]) \in Nat
      BY <3>2 DEF TypeOK
    <3>4. ~CutShort(t)'
      BY <2>4, <3>1 DEF CutShort
    <3>5. StreamInv(t)'
      BY <1>2, <2>4, <3>1 DEF StreamInv
    <3>6. ProgressInv(t)'
      BY <1>2, <2>3, <2>4, <3>1, <3>3, <3>4 DEF ProgressInv
    <3> QED BY <2>1, <3>5, <3>6
  <2> QED BY <2>5, <2>6
<1>6. ASSUME NEW r \in Request PROVE RequestInv(r)'
  <2>1. submitted[r] \in SUBSET Task /\ consuming[r] \in SUBSET Task /\ RequestInv(r)
    BY DEF ServiceInv, ServiceTypeOK
  <2>2. TasksOf(r)' = TasksOf(r)
    BY DEF TasksOf
  <2> QED BY <1>2, <1>4, <2>1, <2>2 DEF RequestInv
<1> QED BY <1>2, <1>5, <1>6 DEF ServiceInv, ServiceTypeOK

\* The phase of a request changes, with what it submits or a word to its client.
LEMMA PhaseKeeps ==
  ASSUME ServiceInv, UNCHANGED vars, NEW r \in Request, NEW to,
         to \in {"collecting", "metrics", "draining", "over", "closed"},
         rpc' = [rpc EXCEPT ![r] = to],
         UNCHANGED <<consuming, settled, yielded>>,
         submitted' \in [Request -> SUBSET Task],
         submitted'[r] \in {submitted[r], TasksOf(r)},
         \A q \in Request \ {r} : submitted'[q] = submitted[q],
         submitted[r] \subseteq submitted'[r],
         stream' = stream \/ \E body \in {GenericError, Metrics} : Send(r, Entry({}, 0, body)),
         to \in {"metrics", "over"} => submitted'[r] \subseteq settled,
         to = "closed" => \A t \in submitted'[r] : Done(t)
  PROVE  ServiceInv'
<1>1. ServiceTypeOK
  BY DEF ServiceInv
<1>2. ASSUME NEW t \in Task
      PROVE  From(t)' = From(t) /\ \A k \in From(t) : stream'[Owner[t]][k] = stream[Owner[t]][k]
  <2>1. CASE stream' = stream
    BY <2>1 DEF From
  <2>2. ASSUME NEW body \in {GenericError, Metrics}, Send(r, Entry({}, 0, body))
        PROVE  From(t)' = From(t) /\ \A k \in From(t) : stream'[Owner[t]][k] = stream[Owner[t]][k]
    <3>1. Entry({}, 0, body) \in Received /\ Entry({}, 0, body).from # {t}
      BY OtherBodies DEF Entry, Received
    <3> DEFINE e == Entry({}, 0, body)
    <3>2. e \in Received /\ e.from # {t} /\ Send(r, e)
      BY <2>2, <3>1
    <3> HIDE DEF e
    <3> QED BY <1>1, <3>2, OthersUnmoved
  <2>3. CASE \E body \in {GenericError, Metrics} : Send(r, Entry({}, 0, body))
    BY <2>2, <2>3
  <2> QED BY <2>1, <2>3
<1>3. ServiceTypeOK'
  <2>1. stream' \in [Request -> Seq(Received)]
    <3>1. ASSUME NEW body \in {GenericError, Metrics}, Send(r, Entry({}, 0, body))
          PROVE  stream' \in [Request -> Seq(Received)]
      <4>1. Entry({}, 0, body) \in Received
        BY OtherBodies DEF Entry, Received
      <4> QED BY <1>1, <3>1, <4>1, Sending
    <3> QED BY <1>1, <3>1 DEF ServiceTypeOK, Received
  <2> QED BY <1>1, <2>1 DEF ServiceTypeOK, Received
<1>4. ASSUME NEW t \in Task PROVE ResultInv(t)' /\ StreamInv(t)' /\ ProgressInv(t)'
  <2>1. /\ ResultInv(t)' /\ Done(t)' = Done(t) /\ pc'[t] = pc[t]
        /\ total_resources'[t] = total_resources[t]
    BY ResultsKept DEF ServiceInv
  <2>2. pc'[t] # "pending" => t \in submitted'[Owner[t]]
    BY <2>1 DEF ServiceInv, ProgressInv
  <2>3. StreamInv(t) /\ ProgressInv(t)
    BY DEF ServiceInv
  <2> QED BY <1>2, <2>1, <2>2, <2>3, StreamKept
<1>5. ASSUME NEW q \in Request PROVE RequestInv(q)'
  <2>1. submitted[q] \in SUBSET Task /\ consuming[q] \in SUBSET Task
    BY <1>1 DEF ServiceTypeOK
  <2>2. \A t \in Task : Done(t)' = Done(t)
    BY ResultsKept DEF ServiceInv
  <2>3. rpc'[q] = IF q = r THEN to ELSE rpc[q]
    BY <1>1 DEF ServiceTypeOK
  <2>4. RequestInv(q)
    BY DEF ServiceInv
  <2>5. TasksOf(q)' = TasksOf(q) /\ TasksOf(q) \in SUBSET Task
    BY DEF TasksOf
  <2>6. CASE q # r
    BY <2>1, <2>2, <2>3, <2>4, <2>5, <2>6 DEF RequestInv
  <2>7. CASE q = r
    BY <2>1, <2>2, <2>3, <2>4, <2>5, <2>7 DEF RequestInv
  <2> QED BY <2>6, <2>7
<1> QED BY <1>3, <1>4, <1>5 DEF ServiceInv

LEMMA PhaseSteps ==
  ASSUME ServiceInv, NEW r \in Request,
         \/ Reject(r) \/ Submit(r) \/ BadTargets(r) \/ Cancel(r)
         \/ LeavePool(r) \/ SendMetrics(r) \/ EndDrain(r)
  PROVE  ServiceInv'
<1> USE DEF Phase
<1>1. /\ submitted \in [Request -> SUBSET Task] /\ TasksOf(r) \in SUBSET Task
      /\ RequestInv(r)
  BY DEF ServiceInv, ServiceTypeOK, TasksOf
<1>2. settled \subseteq Task /\ \A t \in settled : Done(t)
  BY DEF ServiceInv, ServiceTypeOK, ProgressInv
<1>3. CASE Reject(r)
  BY <1>1, <1>3, PhaseKeeps DEF Reject, RequestInv
<1>4. CASE Submit(r)
  BY <1>1, <1>4, PhaseKeeps DEF Submit, RequestInv
<1>5. CASE BadTargets(r)
  BY <1>1, <1>5, PhaseKeeps DEF BadTargets
<1>6. CASE LeavePool(r)
  BY <1>1, <1>6, PhaseKeeps DEF LeavePool
<1>7. CASE SendMetrics(r)
  BY <1>1, <1>7, PhaseKeeps DEF SendMetrics, RequestInv
<1>8. CASE EndDrain(r)
  BY <1>1, <1>8, PhaseKeeps DEF EndDrain
<1>9. CASE Cancel(r)
  BY <1>1, <1>2, <1>9, PhaseKeeps DEF Cancel, RequestInv
<1> QED BY <1>3, <1>4, <1>5, <1>6, <1>7, <1>8, <1>9

\* What a step that streams t's result has to leave in place, besides t.
LEMMA ConsumerKeeps ==
  ASSUME ServiceInv, NEW r \in Request, NEW t \in Task, rpc[r] = "collecting",
         UNCHANGED <<vars, rpc, submitted>>,
         ServiceTypeOK', StreamInv(t)', ProgressInv(t)',
         Owner[t] = r,
         \/ consuming'[r] = {}
         \/ consuming'[r] = {t} /\ Done(t) /\ t \in submitted[r] \ settled',
         \A q \in Request \ {r} : consuming'[q] = consuming[q],
         settled' \in {settled, settled \cup {t}},
         \A u \in Task \ {t} :
           /\ yielded'[u] = yielded[u]
           /\ From(u)' = From(u)
           /\ \A k \in From(u) : stream'[Owner[u]][k] = stream[Owner[u]][k]
  PROVE  ServiceInv'
<1>1. ServiceTypeOK
  BY DEF ServiceInv
<1>2. ASSUME NEW u \in Task PROVE ResultInv(u)' /\ StreamInv(u)' /\ ProgressInv(u)'
  <2>1. /\ ResultInv(u)' /\ Done(u)' = Done(u) /\ pc'[u] = pc[u]
        /\ total_resources'[u] = total_resources[u]
    BY ResultsKept DEF ServiceInv
  <2>2. CASE u # t
    <3>1. StreamInv(u) /\ ProgressInv(u) /\ (pc'[u] # "pending" => u \in submitted'[Owner[u]])
      BY <2>1 DEF ServiceInv, ProgressInv
    <3> QED BY <2>1, <2>2, <3>1, StreamKept
  <2> QED BY <2>1, <2>2
<1>3. ASSUME NEW q \in Request PROVE RequestInv(q)'
  <2>1. submitted[q] \in SUBSET Task /\ consuming[q] \in SUBSET Task /\ RequestInv(q)
    BY <1>1 DEF ServiceTypeOK, ServiceInv
  <2>2. \A u \in Task : Done(u)' = Done(u)
    BY ResultsKept DEF ServiceInv
  <2>3. TasksOf(q)' = TasksOf(q) /\ TasksOf(q) \in SUBSET Task
    BY DEF TasksOf
  <2>4. CASE q # r
    <3>1. \A u \in consuming[q] : u \in submitted[q] /\ u # t
      <4>1. \A u \in submitted[q] : Owner[u] = q
        BY <2>1 DEF RequestInv, TasksOf
      <4> QED BY <2>1, <2>4, <4>1 DEF RequestInv
    <3> QED BY <2>1, <2>2, <2>3, <2>4, <3>1 DEF RequestInv
  <2>5. CASE q = r
    BY <2>1, <2>2, <2>3, <2>5 DEF RequestInv
  <2> QED BY <2>4, <2>5
<1> QED BY <1>2, <1>3 DEF ServiceInv

\* The future whose result is streamed.
LEMMA Consumed ==
  ASSUME ServiceInv, NEW r \in Request, NEW t \in consuming[r]
  PROVE  /\ t \in Task /\ Owner[t] = r /\ consuming[r] = {t}
         /\ Done(t) /\ t \in submitted[r] /\ t \notin settled
<1>1. consuming[r] \in SUBSET Task /\ submitted[r] \in SUBSET Task /\ RequestInv(r)
  BY DEF ServiceInv, ServiceTypeOK
<1> QED BY <1>1 DEF RequestInv, TasksOf

LEMMA NextFutureKeeps ==
  ASSUME ServiceInv, NEW r \in Request, NextFuture(r)
  PROVE  ServiceInv'
<1>1. ServiceTypeOK /\ UNCHANGED <<vars, rpc, submitted, settled, yielded, stream>>
  BY DEF ServiceInv, NextFuture
<1>2. PICK t \in submitted[r] \ settled :
        Done(t) /\ consuming' = [consuming EXCEPT ![r] = {t}]
  BY DEF NextFuture
<1>3. t \in Task /\ Owner[t] = r
  <2>1. submitted[r] \in {{}, TasksOf(r)}
    BY DEF ServiceInv, RequestInv
  <2> QED BY <2>1 DEF TasksOf
<1>4. ServiceTypeOK' /\ consuming'[r] = {t}
      /\ \A q \in Request \ {r} : consuming'[q] = consuming[q]
  BY <1>1, <1>2, <1>3 DEF ServiceTypeOK
<1>5. ASSUME NEW u \in Task
      PROVE  From(u)' = From(u) /\ stream'[Owner[u]] = stream[Owner[u]] /\ yielded'[u] = yielded[u]
  BY <1>1 DEF From
<1>6. StreamInv(t)' /\ ProgressInv(t)'
  <2>1. /\ Done(t)' = Done(t) /\ pc'[t] = pc[t] /\ total_resources'[t] = total_resources[t]
        /\ StreamInv(t) /\ ProgressInv(t)
    BY <1>1, <1>3, ResultsKept DEF ServiceInv
  <2>2. pc'[t] # "pending" => t \in submitted'[Owner[t]]
    BY <1>1, <2>1 DEF ProgressInv
  <2> QED BY <1>1, <1>3, <1>5, <2>1, <2>2, StreamKept
<1>7. rpc[r] = "collecting"
  BY DEF NextFuture
<1>8. /\ UNCHANGED <<vars, rpc, submitted>> /\ t \in submitted[r] \ settled'
      /\ settled' \in {settled, settled \cup {t}}
  BY <1>1, <1>2
<1> QED BY <1>2, <1>3, <1>4, <1>5, <1>6, <1>7, <1>8, ConsumerKeeps

LEMMA YieldKeeps ==
  ASSUME IInv, ServiceInv, NEW r \in Request, Yield(r)
  PROVE  ServiceInv'
<1>1. TypeOK /\ ServiceTypeOK /\ rpc[r] = "collecting"
      /\ UNCHANGED <<vars, rpc, submitted, consuming, settled>>
  BY DEF IInv, ServiceInv, Yield
<1> DEFINE at(t) == yielded[t] + 1
           e(t) == Entry({t}, at(t), Primitive(total_resources[t][at(t)]))
<1>2. PICK t \in consuming[r] :
        /\ at(t) <= Len(total_resources[t])
        /\ Send(r, e(t))
        /\ yielded' = [yielded EXCEPT ![t] = at(t)]
  BY DEF Yield
<1>3. /\ t \in Task /\ Owner[t] = r /\ consuming[r] = {t}
      /\ Done(t) /\ t \in submitted[r] /\ t \notin settled
  BY Consumed
<1>4. StreamInv(t) /\ ProgressInv(t) /\ yielded[t] \in Nat /\ at(t) \in Nat
  BY <1>1, <1>3 DEF ServiceInv, ServiceTypeOK
<1> DEFINE x == total_resources[t][at(t)]
           n == Len(stream[r]) + 1
<1>5. total_resources[t] \in Seq(Response) /\ Len(total_resources[t]) \in Nat /\ x \in Response
  BY <1>1, <1>2, <1>3, <1>4 DEF TypeOK
<1>6. /\ Primitive(x) \in PrimitiveResponse /\ Primitive(x) # GenericError
      /\ Streams(Primitive(x), x)
  BY <1>1, <1>5, PrimitiveOf
<1>7. /\ e(t) \in Received /\ e(t).from = {t} /\ e(t).at = at(t) /\ e(t).body = Primitive(x)
  BY <1>3, <1>4, <1>6 DEF Entry, Received
<1>8. /\ total_resources' = total_resources /\ Done(t)' = Done(t)
      /\ pc' = pc /\ settled' = settled /\ submitted' = submitted /\ consuming' = consuming
  BY <1>1 DEF vars, Done
<1>9. yielded'[t] = at(t) /\ \A u \in Task \ {t} : yielded'[u] = yielded[u]
  BY <1>2, <1>3, <1>1 DEF ServiceTypeOK
<1> HIDE DEF e, x
<1>10. ServiceTypeOK'
  <2>1. stream' \in [Request -> Seq(Received)]
    BY <1>1, <1>2, <1>7, Sending
  <2>2. yielded' \in [Task -> Nat]
    BY <1>1, <1>2, <1>4 DEF ServiceTypeOK
  <2> QED BY <1>1, <2>1, <2>2 DEF ServiceTypeOK, Received
<1>11. ASSUME NEW u \in Task \ {t}
       PROVE  /\ From(u)' = From(u)
              /\ \A k \in From(u) : stream'[Owner[u]][k] = stream[Owner[u]][k]
  <2>1. e(t).from # {u}
    BY <1>7
  <2> QED BY <1>1, <1>2, <1>7, <2>1, OthersUnmoved
<1>12. /\ From(t)' = From(t) \cup {n} /\ stream'[r][n] = e(t)
       /\ \A k \in From(t) : stream'[r][k] = stream[r][k] /\ k < n
       /\ From(t) \in SUBSET Nat /\ n \in Nat
  <2>1. Len(stream[r]) \in Nat
    BY <1>1 DEF ServiceTypeOK
  <2> QED BY <1>1, <1>2, <1>3, <1>7, <2>1, FromSending
<1> HIDE DEF n
<1>13. ~CutShort(t) /\ \A k \in From(t) : stream[r][k].body # GenericError
  BY <1>3, <1>4 DEF ProgressInv, CutShort
<1>14. ASSUME NEW k \in From(t) PROVE stream[r][k].at \in 1 .. yielded[t]
  <2>1. stream[r][k].at \in 1 .. yielded[t] + 1 /\ stream[r][k].at # yielded[t] + 1
    BY <1>3, <1>4, <1>13 DEF StreamInv
  <2> QED BY <1>4, <2>1
<1>15. StreamInv(t)'
  <2>1. ASSUME NEW k \in From(t)'
        PROVE  LET s == stream'[r] IN
               /\ s[k].at \in 1 .. at(t) /\ s[k].at <= Len(total_resources[t])
               /\ s[k].body # GenericError /\ Streams(s[k].body, total_resources[t][s[k].at])
    <3>1. CASE k = n
      BY <1>2, <1>4, <1>6, <1>7, <1>12, <3>1 DEF x
    <3>2. CASE k # n
      <4>1. k \in From(t) /\ stream'[r][k] = stream[r][k]
        BY <1>12, <3>2, <2>1
      <4> QED BY <1>3, <1>4, <1>13, <1>14, <4>1 DEF StreamInv
    <3> QED BY <3>1, <3>2
  <2>2. \A j \in 1 .. at(t) : \E k \in From(t)' : stream'[r][k].at = j
    <3>1. \A j \in 1 .. yielded[t] : \E k \in From(t) : stream[r][k].at = j
      BY <1>3, <1>4 DEF StreamInv
    <3>2. \A j \in 1 .. at(t) : j \in 1 .. yielded[t] \/ j = at(t)
      BY <1>4
    <3> QED BY <1>7, <1>12, <3>1, <3>2
  <2>3. \A j, k \in From(t)' : j < k => stream'[r][j].at < stream'[r][k].at
    <3>1. \A j, k \in From(t) : j < k => stream[r][j].at < stream[r][k].at
      BY <1>3, <1>4 DEF StreamInv
    <3> QED BY <1>4, <1>7, <1>12, <1>14, <3>1
  <2>4. \A k \in From(t)' :
          /\ stream'[r][k].at \in 1 .. at(t) + 1 /\ stream'[r][k].at # at(t) + 1
          /\ stream'[r][k].at <= Len(total_resources[t])
          /\ stream'[r][k].body # GenericError
          /\ Streams(stream'[r][k].body, total_resources[t][stream'[r][k].at])
    BY <1>4, <2>1
  <2> HIDE DEF at
  <2>5. Owner[t] = r /\ yielded'[t] = at(t) /\ total_resources'[t] = total_resources[t]
    BY <1>3, <1>8, <1>9
  <2> QED BY <2>2, <2>3, <2>4, <2>5 DEF StreamInv
<1>16. ProgressInv(t)'
  <2>1. ~CutShort(t)'
    BY <1>3, <1>6, <1>7, <1>12, <1>13 DEF CutShort
  <2> QED BY <1>2, <1>3, <1>4, <1>8, <1>9, <2>1 DEF ProgressInv
<1>17. consuming'[r] = {t} /\ t \in submitted[r] \ settled'
  BY <1>3, <1>8
<1> QED BY <1>1, <1>3, <1>8, <1>9, <1>10, <1>11, <1>15, <1>16, <1>17, ConsumerKeeps

LEMMA YieldFailsKeeps ==
  ASSUME IInv, ServiceInv, NEW r \in Request, YieldFails(r)
  PROVE  ServiceInv'
<1>1. TypeOK /\ ServiceTypeOK /\ rpc[r] = "collecting"
      /\ UNCHANGED <<vars, rpc, submitted, yielded>>
  BY DEF IInv, ServiceInv, YieldFails
<1>c. consuming' = [consuming EXCEPT ![r] = {}]
  BY DEF YieldFails
<1> DEFINE at(t) == yielded[t] + 1
           e(t) == Entry({t}, at(t), GenericError)
           n == Len(stream[r]) + 1
<1>2. PICK t \in consuming[r] :
        /\ yielded[t] < Len(total_resources[t])
        /\ Send(r, e(t))
        /\ settled' = settled \cup {t}
  BY DEF YieldFails
<1>3. /\ t \in Task /\ Owner[t] = r /\ consuming[r] = {t}
      /\ Done(t) /\ t \in submitted[r] /\ t \notin settled
  BY Consumed
<1>4. StreamInv(t) /\ ProgressInv(t) /\ yielded[t] \in Nat /\ at(t) \in Nat
      /\ Len(total_resources[t]) \in Nat
  BY <1>1, <1>3 DEF ServiceInv, ServiceTypeOK, TypeOK
<1>5. e(t) \in Received /\ e(t).from = {t} /\ e(t).at = at(t) /\ e(t).body = GenericError
  BY <1>3, <1>4, OtherBodies DEF Entry, Received
<1>6. /\ total_resources' = total_resources /\ Done(t)' = Done(t)
      /\ pc' = pc /\ submitted' = submitted /\ yielded' = yielded
  BY <1>1 DEF vars, Done
<1> HIDE DEF e
<1>7. ServiceTypeOK' /\ consuming'[r] = {} /\ \A q \in Request \ {r} : consuming'[q] = consuming[q]
  <2>1. stream' \in [Request -> Seq(Received)]
    BY <1>1, <1>2, <1>5, Sending
  <2> QED BY <1>1, <1>c, <1>2, <1>3, <2>1 DEF ServiceTypeOK, Received
<1>8. ASSUME NEW u \in Task \ {t}
      PROVE  /\ From(u)' = From(u)
             /\ \A k \in From(u) : stream'[Owner[u]][k] = stream[Owner[u]][k]
  <2>1. e(t).from # {u}
    BY <1>5
  <2> QED BY <1>1, <1>2, <1>5, <2>1, OthersUnmoved
<1>9. /\ From(t)' = From(t) \cup {n} /\ stream'[r][n] = e(t)
      /\ \A k \in From(t) : stream'[r][k] = stream[r][k] /\ k < n
      /\ From(t) \in SUBSET Nat /\ n \in Nat
  <2>1. Len(stream[r]) \in Nat /\ ServiceTypeOK /\ Send(r, e(t))
    BY <1>1, <1>2, <1>5, Sending
  <2> QED BY <1>3, <1>5, <2>1, FromSending
<1> HIDE DEF n
<1>10. \A k \in From(t) : stream[r][k].body # GenericError
  BY <1>3, <1>4 DEF ProgressInv, CutShort
<1>11. ASSUME NEW k \in From(t) PROVE stream[r][k].at \in 1 .. yielded[t]
  <2>1. stream[r][k].at \in 1 .. yielded[t] + 1 /\ stream[r][k].at # yielded[t] + 1
    BY <1>3, <1>4, <1>10 DEF StreamInv
  <2> QED BY <1>4, <2>1
<1>12. StreamInv(t)'
  <2>1. ASSUME NEW k \in From(t)'
        PROVE  /\ stream'[r][k].at \in 1 .. at(t)
               /\ stream'[r][k].at <= Len(total_resources[t])
               /\ stream'[r][k].body = GenericError <=> stream'[r][k].at = at(t)
               /\ stream'[r][k].body # GenericError =>
                    Streams(stream'[r][k].body, total_resources[t][stream'[r][k].at])
    <3>1. CASE k = n
      BY <1>2, <1>4, <1>5, <1>9, <3>1
    <3>2. CASE k # n
      <4>1. k \in From(t) /\ stream'[r][k] = stream[r][k]
        BY <1>9, <3>2, <2>1
      <4>2. stream[r][k].at # at(t) /\ stream[r][k].at \in 1 .. at(t)
        BY <1>4, <1>11, <4>1
      <4> QED BY <1>3, <1>4, <1>10, <4>1, <4>2 DEF StreamInv
    <3> QED BY <3>1, <3>2
  <2>2. \A j \in 1 .. yielded[t] : \E k \in From(t)' : stream'[r][k].at = j
    <3>1. \A j \in 1 .. yielded[t] : \E k \in From(t) : stream[r][k].at = j
      BY <1>3, <1>4 DEF StreamInv
    <3> QED BY <1>9, <3>1
  <2>3. \A j, k \in From(t)' : j < k => stream'[r][j].at < stream'[r][k].at
    <3>1. \A j, k \in From(t) : j < k => stream[r][j].at < stream[r][k].at
      BY <1>3, <1>4 DEF StreamInv
    <3>2. \A j \in From(t) : stream'[r][j].at < stream'[r][n].at /\ j < n
      BY <1>4, <1>5, <1>9, <1>11
    <3> QED BY <1>9, <3>1, <3>2
  <2>4. Owner[t] = r /\ yielded'[t] = yielded[t] /\ total_resources'[t] = total_resources[t]
    BY <1>3, <1>6
  <2> QED BY <2>1, <2>2, <2>3, <2>4 DEF StreamInv
<1>13. ProgressInv(t)'
  <2>1. CutShort(t)'
    BY <1>3, <1>5, <1>9 DEF CutShort
  <2>2. t \in settled'
    BY <1>2
  <2> QED BY <1>2, <1>3, <1>4, <1>6, <2>1, <2>2 DEF ProgressInv
<1>14. \A u \in Task \ {t} : yielded'[u] = yielded[u]
  BY <1>6
<1>15. UNCHANGED <<vars, rpc, submitted>> /\ settled' \in {settled, settled \cup {t}}
  BY <1>1, <1>2
<1>16. rpc[r] = "collecting"
  BY <1>1
<1> QED BY <1>3, <1>7, <1>8, <1>12, <1>13, <1>14, <1>15, <1>16, ConsumerKeeps

LEMMA EndFutureKeeps ==
  ASSUME IInv, ServiceInv, NEW r \in Request, EndFuture(r)
  PROVE  ServiceInv'
<1>1. TypeOK /\ ServiceTypeOK /\ rpc[r] = "collecting"
      /\ UNCHANGED <<vars, rpc, submitted, yielded, stream>>
  BY DEF IInv, ServiceInv, EndFuture
<1>c. consuming' = [consuming EXCEPT ![r] = {}]
  BY DEF EndFuture
<1>2. PICK t \in consuming[r] :
        yielded[t] = Len(total_resources[t]) /\ settled' = settled \cup {t}
  BY DEF EndFuture
<1>3. /\ t \in Task /\ Owner[t] = r /\ consuming[r] = {t}
      /\ Done(t) /\ t \in submitted[r] /\ t \notin settled
  BY Consumed
<1>4. StreamInv(t) /\ ProgressInv(t) /\ yielded[t] \in Nat /\ ~CutShort(t)
  BY <1>1, <1>3 DEF ServiceInv, ServiceTypeOK, ProgressInv
<1>5. ServiceTypeOK' /\ consuming'[r] = {} /\ \A q \in Request \ {r} : consuming'[q] = consuming[q]
  BY <1>1, <1>c, <1>2, <1>3 DEF ServiceTypeOK
<1>6. ASSUME NEW u \in Task
      PROVE  From(u)' = From(u) /\ stream'[Owner[u]] = stream[Owner[u]] /\ yielded'[u] = yielded[u]
  BY <1>1 DEF From
<1>7. /\ total_resources' = total_resources /\ Done(t)' = Done(t)
      /\ pc' = pc /\ submitted' = submitted /\ stream' = stream /\ yielded' = yielded
  BY <1>1 DEF vars, Done
<1>a. From(t)' = From(t)
  BY <1>3, <1>6
<1>8. StreamInv(t)'
  BY <1>4, <1>a, <1>7 DEF StreamInv
<1>9. ProgressInv(t)'
  <2>1. ~CutShort(t)'
    BY <1>4, <1>a, <1>7 DEF CutShort
  <2> QED BY <1>2, <1>3, <1>4, <1>a, <1>7, <2>1 DEF ProgressInv
<1>10. UNCHANGED <<vars, rpc, submitted>> /\ settled' \in {settled, settled \cup {t}}
  BY <1>1, <1>2
<1>11. rpc[r] = "collecting"
  BY <1>1
<1> QED BY <1>3, <1>5, <1>6, <1>8, <1>9, <1>10, <1>11, ConsumerKeeps

-----------------------------------------------------------------------------
\* The invariant of the service.

LEMMA InitServiceInv == CollectorInit => ServiceInv
<1> SUFFICES ASSUME CollectorInit PROVE ServiceInv
  OBVIOUS
<1> USE DEF CollectorInit, Init
<1>1. ServiceTypeOK
  BY DEF ServiceTypeOK
<1>2. ASSUME NEW t \in Task PROVE ResultInv(t) /\ StreamInv(t) /\ ProgressInv(t)
  <2>1. From(t) = {} /\ ~CutShort(t)
    BY DEF From, CutShort
  <2> QED BY <2>1 DEF ResultInv, StreamInv, ProgressInv, Done
<1>3. ASSUME NEW r \in Request PROVE RequestInv(r)
  BY DEF RequestInv
<1> QED BY <1>1, <1>2, <1>3 DEF ServiceInv

\* Each step of the service is a step of one task or leaves the tasks alone.
LEMMA TasksStep == CollectorNext => [Next]_vars
<1> SUFFICES ASSUME CollectorNext PROVE [Next]_vars
  OBVIOUS
<1>1. ASSUME NEW t \in Task, StartTask(t) \/ TaskStep(t) PROVE Next
  BY <1>1 DEF StartTask, TaskStep, Next
<1>2. ASSUME NEW r \in Request,
             \/ Reject(r) \/ Submit(r) \/ BadTargets(r) \/ Cancel(r) \/ Generator(r)
      PROVE  UNCHANGED vars
  BY <1>2 DEF Reject, Submit, BadTargets, Cancel, Generator, NextFuture, Yield, YieldFails,
     EndFuture, LeavePool, SendMetrics, EndDrain
<1> QED BY <1>1, <1>2 DEF CollectorNext

LEMMA StepServiceInv == IInv /\ ServiceInv /\ [CollectorNext]_allVars => ServiceInv'
<1> SUFFICES ASSUME IInv, ServiceInv, [CollectorNext]_allVars PROVE ServiceInv'
  OBVIOUS
<1>1. CASE UNCHANGED allVars
  <2>1. UNCHANGED <<vars, rpc, submitted, consuming, settled, yielded, stream>>
    BY <1>1 DEF allVars, service
  <2>2. ServiceTypeOK'
    BY <2>1 DEF ServiceInv, ServiceTypeOK
  <2>3. ASSUME NEW t \in Task PROVE ResultInv(t)' /\ StreamInv(t)' /\ ProgressInv(t)'
    <3>1. /\ ResultInv(t)' /\ Done(t)' = Done(t) /\ pc'[t] = pc[t]
          /\ total_resources'[t] = total_resources[t]
      BY <2>1, ResultsKept DEF ServiceInv
    <3>2. From(t)' = From(t)
      BY <2>1 DEF From
    <3>3. StreamInv(t) /\ ProgressInv(t) /\ (pc'[t] # "pending" => t \in submitted'[Owner[t]])
      BY <2>1, <3>1 DEF ServiceInv, ProgressInv
    <3> QED BY <2>1, <3>1, <3>2, <3>3, StreamKept
  <2>4. ASSUME NEW r \in Request PROVE RequestInv(r)'
    <3>1. submitted[r] \in SUBSET Task /\ consuming[r] \in SUBSET Task /\ RequestInv(r)
      BY DEF ServiceInv, ServiceTypeOK
    <3>2. TasksOf(r)' = TasksOf(r) /\ \A t \in Task : Done(t)' = Done(t)
      BY <2>1, ResultsKept DEF TasksOf, ServiceInv
    <3> QED BY <2>1, <3>1, <3>2 DEF RequestInv
  <2> QED BY <2>2, <2>3, <2>4 DEF ServiceInv
<1>2. ASSUME NEW t \in Task, StartTask(t) \/ TaskStep(t) PROVE ServiceInv'
  BY <1>2, TaskKeeps
<1>3. ASSUME NEW r \in Request,
             \/ Reject(r) \/ Submit(r) \/ BadTargets(r) \/ Cancel(r) \/ Generator(r)
      PROVE  ServiceInv'
  BY <1>3, PhaseSteps, NextFutureKeeps, YieldKeeps, YieldFailsKeeps, EndFutureKeeps DEF Generator
<1> QED BY <1>1, <1>2, <1>3 DEF CollectorNext

\* What holds of the tasks by themselves holds of them in the service, and the
\* service keeps its own invariant with it.
THEOREM ServiceInvariance == CollectorSpec => [](IInv /\ ServiceInv)
<1>1. CollectorInit => Init
  BY DEF CollectorInit
<1>2. IInv /\ ServiceInv /\ [CollectorNext]_allVars => IInv' /\ ServiceInv'
  <2>1. UNCHANGED allVars => UNCHANGED vars
    BY DEF allVars
  <2>2. [CollectorNext]_allVars => [Next]_vars
    BY <2>1, TasksStep
  <2> QED BY <2>2, StepIInv, StepServiceInv
<1> QED BY <1>1, <1>2, InitIInv, InitServiceInv, PTL DEF CollectorSpec

\* The part of the invariant that concerns one task.
LEMMA OfTask ==
  ASSUME IInv, ServiceInv, NEW t \in Task
  PROVE  /\ ResultInv(t) /\ StreamInv(t) /\ ProgressInv(t) /\ RequestInv(Owner[t])
         /\ total_resources[t] \in Seq(Response) /\ listed[t] \in SUBSET Item
         /\ DOMAIN total_resources[t] = 1 .. Len(total_resources[t])
         /\ Len(total_resources[t]) \in Nat /\ yielded[t] \in Nat
         /\ From(t) \in SUBSET Nat /\ stream[Owner[t]] \in Seq(Received)
<1>1. TypeOK /\ ServiceTypeOK
  BY DEF IInv, ServiceInv
<1>2. stream[Owner[t]] \in Seq(Received)
  BY <1>1 DEF ServiceTypeOK, Received
<1>3. total_resources[t] \in Seq(Response) /\ listed[t] \in SUBSET Item
  BY <1>1 DEF TypeOK
<1>4. From(t) \in SUBSET Nat
  BY <1>2 DEF From
<1> QED BY <1>1, <1>2, <1>3, <1>4 DEF ServiceInv, ServiceTypeOK

\* A result that was streamed to its end without an error is at the client.
LEMMA StreamedWhole ==
  ASSUME IInv, ServiceInv, NEW t \in Task,
         rpc[Owner[t]] = "over", t \in submitted[Owner[t]], ~CutShort(t)
  PROVE  /\ Done(t)
         /\ \A p \in DOMAIN total_resources[t] :
              \E k \in From(t) : stream[Owner[t]][k].at = p
         /\ \A k \in From(t) :
              /\ stream[Owner[t]][k].at \in DOMAIN total_resources[t]
              /\ Streams(stream[Owner[t]][k].body, total_resources[t][stream[Owner[t]][k].at])
<1>1. /\ StreamInv(t) /\ ProgressInv(t) /\ RequestInv(Owner[t])
      /\ DOMAIN total_resources[t] = 1 .. Len(total_resources[t])
      /\ Len(total_resources[t]) \in Nat
  BY OfTask
<1>2. t \in settled
  BY <1>1 DEF RequestInv
<1>3. Done(t) /\ yielded[t] = Len(total_resources[t])
  BY <1>1, <1>2 DEF ProgressInv
<1>4. \A p \in DOMAIN total_resources[t] :
        \E k \in From(t) : stream[Owner[t]][k].at = p
  BY <1>1, <1>3 DEF StreamInv
<1>5. ASSUME NEW k \in From(t)
      PROVE  /\ stream[Owner[t]][k].at \in DOMAIN total_resources[t]
             /\ Streams(stream[Owner[t]][k].body, total_resources[t][stream[Owner[t]][k].at])
  <2>1. stream[Owner[t]][k].body # GenericError
    BY DEF CutShort
  <2>2. stream[Owner[t]][k].at \in 1 .. yielded[t] + 1 /\ stream[Owner[t]][k].at <= yielded[t]
    BY <1>1, <1>3 DEF StreamInv
  <2> QED BY <1>1, <1>3, <2>1, <2>2 DEF StreamInv
<1> QED BY <1>3, <1>4, <1>5

LEMMA InOrder == IInv /\ ServiceInv => StreamedInOrder
<1> SUFFICES ASSUME IInv, ServiceInv, NEW t \in Task, NEW j \in From(t), NEW k \in From(t)
             PROVE  LET s == stream[Owner[t]] IN
                    /\ j < k => s[j].at < s[k].at
                    /\ \A at \in 1 .. s[k].at : \E l \in From(t) : s[l].at = at
                    /\ s[k].body = GenericError => j <= k
                    /\ s[k].body # GenericError =>
                         /\ s[k].body.kind = total_resources[t][s[k].at].kind
                         /\ s[k].body.of = total_resources[t][s[k].at].of
  BY DEF StreamedInOrder
<1> DEFINE s == stream[Owner[t]]
<1>1. StreamInv(t) /\ yielded[t] \in Nat /\ j \in Nat /\ k \in Nat
  BY OfTask
<1>2. \A a, b \in From(t) : a < b => s[a].at < s[b].at
  BY <1>1 DEF StreamInv
<1>3. s[k].at \in 1 .. yielded[t] + 1 /\ s[j].at \in 1 .. yielded[t] + 1
  BY <1>1 DEF StreamInv
<1>4. ASSUME NEW at \in 1 .. s[k].at PROVE \E l \in From(t) : s[l].at = at
  <2>1. at = s[k].at \/ at \in 1 .. yielded[t]
    BY <1>1, <1>3
  <2> QED BY <1>1, <2>1 DEF StreamInv
<1>5. ASSUME s[k].body = GenericError PROVE j <= k
  <2>1. s[k].at = yielded[t] + 1
    BY <1>1, <1>5 DEF StreamInv
  <2>2. ~(s[k].at < s[j].at)
    BY <1>1, <1>3, <2>1
  <2> QED BY <1>1, <1>2, <2>2
<1>6. s[k].body # GenericError => Streams(s[k].body, total_resources[t][s[k].at])
  BY <1>1 DEF StreamInv
<1> QED BY <1>2, <1>4, <1>5, <1>6 DEF Streams

LEMMA DeliveredOnce == IInv /\ ServiceInv => EveryItemDeliveredOnce
<1> DEFINE Answers(t, i, k) ==
      /\ stream[Owner[t]][k].body.kind \in {"CloudService", "ErrorResource"}
      /\ stream[Owner[t]][k].body.of = i
<1> SUFFICES ASSUME IInv, ServiceInv, NEW t \in Task,
                    rpc[Owner[t]] = "over", t \in submitted[Owner[t]],
                    fault[t] = {}, ~CutShort(t), NEW i \in listed[t]
             PROVE  \E k \in From(t) : {l \in From(t) : Answers(t, i, l)} = {k}
  BY DEF EveryItemDeliveredOnce
<1> DEFINE s == stream[Owner[t]]
           total == total_resources[t]
<1>1. i \in Item /\ StreamInv(t) /\ From(t) \in SUBSET Nat
  BY OfTask
<1>2. /\ \A p \in DOMAIN total : \E k \in From(t) : s[k].at = p
      /\ \A k \in From(t) : s[k].at \in DOMAIN total /\ Streams(s[k].body, total[s[k].at])
      /\ Done(t)
  BY StreamedWhole
<1>3. PICK p \in DOMAIN total : AnswersTo(i, total) = {p}
  BY <1>1, <1>2 DEF IInv, GatherInv, Gathered, OneAnswerEach
<1>4. PICK k \in From(t) : s[k].at = p
  BY <1>2
<1>5. ASSUME NEW l \in From(t) PROVE Answers(t, i, l) <=> s[l].at = p
  <2>1. Answers(t, i, l) <=> s[l].at \in AnswersTo(i, total)
    BY <1>2 DEF AnswersTo, Streams
  <2> QED BY <1>3, <2>1
<1>6. \A l \in From(t) : s[l].at = p => l = k
  <2>1. \A a, b \in From(t) : a < b => s[a].at < s[b].at
    BY <1>1 DEF StreamInv
  <2>2. p \in Nat
    BY <1>1, <1>3, OfTask
  <2>3. ASSUME NEW l \in From(t), s[l].at = p PROVE l = k
    <3>1. ~(l < k) /\ ~(k < l)
      BY <1>4, <2>1, <2>2, <2>3
    <3> QED BY <1>1, <3>1
  <2> QED BY <2>3
<1> HIDE DEF s, Answers
<1> QED BY <1>4, <1>5, <1>6

LEMMA OwnRegions == IInv /\ ServiceInv => RegionsDelivered
<1> SUFFICES ASSUME IInv, ServiceInv, NEW t \in Task,
                    rpc[Owner[t]] = "over", TypeOf[t] \in Regional,
                    fault[t] = {}, ~CutShort(t), NEW k \in From(t),
                    stream[Owner[t]][k].body.kind = "CloudService"
             PROVE  \E l \in From(t) :
                      stream[Owner[t]][l].body =
                        RegionResponse(RegionKey(RegionOf[stream[Owner[t]][k].body.of]))
  BY DEF RegionsDelivered
<1> DEFINE s == stream[Owner[t]]
           total == total_resources[t]
<1>1. t \in submitted[Owner[t]]
  BY OfTask DEF ProgressInv, Done
<1>2. /\ \A p \in DOMAIN total : \E l \in From(t) : s[l].at = p
      /\ \A l \in From(t) : s[l].at \in DOMAIN total /\ Streams(s[l].body, total[s[l].at])
      /\ Done(t)
  BY <1>1, StreamedWhole
<1>3. PICK i \in Item : s[k].body = ResourceResponse(i) /\ total[s[k].at] = ResourceResponse(i)
  <2>1. total[s[k].at] = s[k].body /\ total[s[k].at] \in Response
    <3>1. Streams(s[k].body, total[s[k].at]) /\ s[k].at \in DOMAIN total
      BY <1>2
    <3>2. total \in Seq(Response)
      BY OfTask
    <3> QED BY <3>1, <3>2 DEF Streams
  <2> QED BY <2>1, ResponseKinds
<1>4. RegionResponse(RegionKey(RegionOf[i])) \in Elements(total)
  <2>1. ResourceResponse(i) \in Elements(total)
    BY <1>2, <1>3 DEF Elements
  <2> QED BY <1>2, <2>1 DEF IInv, RegionInv
<1>5. PICK p \in DOMAIN total : total[p] = RegionResponse(RegionKey(RegionOf[i]))
  BY <1>4 DEF Elements
<1>6. PICK l \in From(t) : s[l].at = p
  BY <1>2
<1>7. s[l].body = total[p]
  BY <1>2, <1>5, <1>6 DEF Streams, RegionResponse
<1>8. s[k].body.of = i
  BY <1>3 DEF ResourceResponse
<1> QED BY <1>5, <1>7, <1>8

LEMMA NothingLeftRunning == IInv /\ ServiceInv => NoOrphanManagers
<1> SUFFICES ASSUME IInv, ServiceInv, NEW r \in Request, Ended(r), NEW t \in submitted[r]
             PROVE  Done(t)
  BY DEF NoOrphanManagers
<1>1. RequestInv(r) /\ t \in Task
  BY DEF ServiceInv, ServiceTypeOK
<1>2. ProgressInv(t)
  BY <1>1 DEF ServiceInv
<1> QED BY <1>1, <1>2 DEF RequestInv, ProgressInv, Ended

-----------------------------------------------------------------------------
\* Every variable of the service stays in its domain: a stream only ever holds
\* responses in the form to_primitive gives them, errors and metrics.
THEOREM ServiceTypeCorrect == CollectorSpec => []CollectorTypeOK
<1>1. IInv /\ ServiceInv => CollectorTypeOK
  BY DEF IInv, ServiceInv, CollectorTypeOK
<1> QED BY <1>1, ServiceInvariance, PTL

\* A client hears of a manager what collect_resources returned, in its order
\* and without a gap, and of every item the manager listed exactly once if its
\* request came to the end and neither the manager nor to_primitive failed.
THEOREM DeliveredInOrderAndOnce == CollectorSpec => []Delivered
<1>1. IInv /\ ServiceInv => Delivered
  BY InOrder, DeliveredOnce DEF Delivered
<1> QED BY <1>1, ServiceInvariance, PTL

\* The client has the region of each resource it was sent, although the list
\* that collect_region walks is shared by the threads of all requests.
THEOREM RegionsReachClient == CollectorSpec => []RegionsDelivered
<1>1. IInv /\ ServiceInv => RegionsDelivered
  BY OwnRegions
<1> QED BY <1>1, ServiceInvariance, PTL

\* No thread of a request outlives its stream, whether it ran to its end or
\* its client went away.
THEOREM ThreadsEndWithStream == CollectorSpec => []NoOrphanManagers
<1>1. IInv /\ ServiceInv => NoOrphanManagers
  BY NothingLeftRunning
<1> QED BY <1>1, ServiceInvariance, PTL

-----------------------------------------------------------------------------
\* The codes a client is sent.

\* Calls that share a type object want it to have the same code, and leave it
\* alone once it has that code.  A type that only one call uses may be mapped
\* in any way.
MappersAgree ==
  \A t, u \in Task : t # u /\ TypeOf[t] = TypeOf[u] =>
    /\ Configured(t) = Configured(u)
    /\ Configured(t) \in DOMAIN Mapper[t] => Mapper[t][Configured(t)] = Configured(t)

\* t has not yet mapped the code of its type.
Mapping(t) == pc[t] \in {"pending", "check_code", "look_up_code", "store_code"}

\* A type object has its declared code or the one it is to have, and the
\* latter as soon as one of its calls has mapped it.
CodedInv(t) ==
  /\ service_code[TypeOf[t]] \in {InitialCode[TypeOf[t]], Configured(t)}
  /\ Mapping(t) => \/ service_code[TypeOf[t]] = InitialCode[TypeOf[t]]
                   \/ \E u \in Task \ {t} : TypeOf[u] = TypeOf[t]
  /\ pc[t] = "store_code" => mapped_code[t] = Configured(t)
  /\ ~Mapping(t) => service_code[TypeOf[t]] = Configured(t)
  /\ \A k \in From(t) :
       stream[Owner[t]][k].body.kind = "CloudServiceType" =>
         stream[Owner[t]][k].body.code = Configured(t)

\* What a step of a generator adds to a stream.
LEMMA Streamed ==
  ASSUME IInv, ServiceInv, NEW r \in Request,
         \/ Reject(r) \/ Submit(r) \/ BadTargets(r) \/ Cancel(r) \/ Generator(r),
         NEW t \in Task, NEW k \in From(t)'
  PROVE  \/ k \in From(t) /\ stream'[Owner[t]][k] = stream[Owner[t]][k]
         \/ stream'[Owner[t]][k].body = GenericError
         \/ Done(t) /\ \E p \in DOMAIN total_resources[t] :
              stream'[Owner[t]][k].body = Primitive(total_resources[t][p])
<1>1. TypeOK /\ ServiceTypeOK
  BY DEF IInv, ServiceInv
<1>2. CASE stream' = stream
  BY <1>2 DEF From
<1>3. ASSUME NEW e \in Received, Send(r, e), e.from = {t} => e.body = GenericError
      PROVE  \/ k \in From(t) /\ stream'[Owner[t]][k] = stream[Owner[t]][k]
             \/ stream'[Owner[t]][k].body = GenericError
  <2>1. CASE e.from = {t} /\ Owner[t] = r /\ k = Len(stream[r]) + 1
    BY <1>1, <1>3, <2>1, FromSending
  <2>2. CASE ~(e.from = {t} /\ Owner[t] = r /\ k = Len(stream[r]) + 1)
    <3>1. k \in From(t)
      BY <1>1, <1>3, <2>2, FromSending
    <3> QED BY <1>1, <1>3, <3>1, FromSending
  <2> QED BY <2>1, <2>2
<1>4. CASE BadTargets(r) \/ SendMetrics(r)
  <2>1. PICK body \in {GenericError, Metrics} : Send(r, Entry({}, 0, body))
    BY <1>4 DEF BadTargets, SendMetrics
  <2>2. Entry({}, 0, body) \in Received /\ Entry({}, 0, body).from = {}
    BY OtherBodies DEF Entry, Received
  <2>3. {} # {t}
    OBVIOUS
  <2> QED BY <1>3, <2>1, <2>2, <2>3
<1>5. CASE YieldFails(r)
  <2>1. PICK u \in consuming[r] : Send(r, Entry({u}, yielded[u] + 1, GenericError))
    BY <1>5 DEF YieldFails
  <2>2. u \in Task /\ yielded[u] \in Nat
    BY <1>1, <2>1 DEF ServiceTypeOK
  <2>3. /\ Entry({u}, yielded[u] + 1, GenericError) \in Received
        /\ Entry({u}, yielded[u] + 1, GenericError).body = GenericError
    BY <2>2, OtherBodies DEF Entry, Received
  <2> QED BY <1>3, <2>1, <2>3
<1>6. CASE Yield(r)
  <2>1. PICK u \in consuming[r] :
          /\ yielded[u] + 1 <= Len(total_resources[u])
          /\ Send(r, Entry({u}, yielded[u] + 1, Primitive(total_resources[u][yielded[u] + 1])))
    BY <1>6 DEF Yield
  <2>2. u \in Task /\ Owner[u] = r /\ Done(u) /\ yielded[u] \in Nat
    BY <1>1, <2>1, Consumed DEF ServiceTypeOK
  <2> DEFINE p == yielded[u] + 1
             e == Entry({u}, p, Primitive(total_resources[u][p]))
  <2>3. p \in DOMAIN total_resources[u] /\ total_resources[u][p] \in Response /\ p \in Nat
    BY <1>1, <2>1, <2>2, OfTask
  <2>4. e \in Received /\ e.from = {u} /\ e.body = Primitive(total_resources[u][p])
    BY <1>1, <2>2, <2>3, PrimitiveOf DEF Entry, Received
  <2>5. Send(r, e)
    BY <2>1
  <2> HIDE DEF e, p
  <2>6. CASE u # t
    <3>1. e.from # {t}
      BY <2>4, <2>6
    <3> QED BY <1>3, <2>4, <2>5, <3>1
  <2>7. CASE u = t
    <3>1. k \in From(t) \/ k = Len(stream[r]) + 1
      BY <1>1, <2>4, <2>5, FromSending
    <3>2. CASE k \in From(t)
      BY <1>1, <2>4, <2>5, <3>2, FromSending
    <3>3. CASE k = Len(stream[r]) + 1
      <4>1. stream'[Owner[t]][k] = e
        BY <1>1, <2>2, <2>4, <2>5, <2>7, <3>3, FromSending
      <4> QED BY <2>2, <2>3, <2>4, <2>7, <4>1
    <3> QED BY <3>1, <3>2, <3>3
  <2> QED BY <2>6, <2>7
<1>7. CASE \/ Reject(r) \/ Submit(r) \/ Cancel(r) \/ NextFuture(r) \/ EndFuture(r)
           \/ LeavePool(r) \/ EndDrain(r)
  BY <1>2, <1>7 DEF Reject, Submit, Cancel, NextFuture, EndFuture, LeavePool, EndDrain
<1> QED BY <1>4, <1>5, <1>6, <1>7 DEF Generator

\* A task changes the code of no type but its own.
LEMMA CodeFrame ==
  ASSUME TypeOK, NEW u \in Task, Start(u) \/ Step(u)
  PROVE  \/ service_code' = service_code
         \/ /\ pc[u] = "store_code" /\ pc'[u] = "add_type"
            /\ service_code'[TypeOf[u]] = mapped_code[u]
            /\ \A ty \in Type \ {TypeOf[u]} : service_code'[ty] = service_code[ty]
<1>1. CASE StoreCode(u)
  BY <1>1 DEF StoreCode, Goto, TypeOK
<1>2. CASE ~StoreCode(u)
  BY <1>2 DEF Step, Start, CheckCode, LookUpCode, AddType, List, ListFails, BuildItem,
     BuildFails, CheckRegion, AppendRegion, Respond, EndLoop, AddRegion, EndRegions, shared
<1> QED BY <1>1, <1>2

LEMMA CodedTaskStep ==
  ASSUME MappersAgree, IInv, ServiceInv, \A t \in Task : CodedInv(t),
         NEW u \in Task, StartTask(u) \/ TaskStep(u), NEW t \in Task
  PROVE  CodedInv(t)'
<1>1. TypeOK /\ (Start(u) \/ Step(u)) /\ stream' = stream
  BY DEF IInv, StartTask, TaskStep, service
<1>2. CodedInv(t) /\ CodedInv(u)
  OBVIOUS
<1> DEFINE code == service_code[TypeOf[t]]
<1>3. Configured(t)' = Configured(t)
  BY DEF Configured
<1>4. \A k \in From(t)' :
        stream'[Owner[t]][k].body.kind = "CloudServiceType" =>
          stream'[Owner[t]][k].body.code = Configured(t)
  BY <1>1, <1>2 DEF CodedInv, From
<1>5. CASE u # t
  <2>1. pc'[t] = pc[t] /\ mapped_code'[t] = mapped_code[t]
    BY <1>1, <1>5, Frame
  <2>2. \/ service_code'[TypeOf[t]] = code
        \/ service_code'[TypeOf[t]] = Configured(t) /\ TypeOf[u] = TypeOf[t]
    <3>1. TypeOf[u] = TypeOf[t] => Configured(u) = Configured(t)
      BY <1>5 DEF MappersAgree
    <3> QED BY <1>1, <1>2, <3>1, CodeFrame DEF CodedInv
  <2> QED BY <1>2, <1>4, <1>5, <2>1, <2>2 DEF CodedInv, Mapping
<1>6. CASE u = t
  <2>1. CASE service_code' # service_code
    <3>1. /\ pc[t] = "store_code" /\ pc'[t] = "add_type"
          /\ service_code'[TypeOf[t]] = mapped_code[t]
      BY <1>1, <1>6, <2>1, CodeFrame
    <3> QED BY <1>2, <1>4, <3>1 DEF CodedInv, Mapping
  <2>2. CASE service_code' = service_code
    <3>1. CASE StoreCode(t)
      <4>1. pc[t] = "store_code" /\ service_code'[TypeOf[t]] = mapped_code[t] /\ pc'[t] = "add_type"
        BY <1>1, <3>1 DEF StoreCode, Goto, TypeOK
      <4> QED BY <1>2, <1>4, <4>1 DEF CodedInv, Mapping
    <3>2. CASE LookUpCode(t)
      <4>1. pc[t] = "look_up_code" /\ Mapping(t)
        BY <3>2 DEF LookUpCode, Goto, Mapping
      <4>2. CASE code \in DOMAIN Mapper[t]
        <5>1. pc'[t] = "store_code" /\ mapped_code'[t] = Mapper[t][code]
          BY <1>1, <3>2, <4>2 DEF LookUpCode, Goto, TypeOK
        <5>2. Mapper[t][code] = Configured(t)
          <6>1. CASE code = InitialCode[TypeOf[t]]
            BY <4>2, <6>1 DEF Configured
          <6>2. CASE code # InitialCode[TypeOf[t]]
            <7>1. code = Configured(t) /\ \E v \in Task \ {t} : TypeOf[v] = TypeOf[t]
              BY <1>2, <4>1, <6>2 DEF CodedInv
            <7> QED BY <4>2, <7>1 DEF MappersAgree
          <6> QED BY <6>1, <6>2
        <5> QED BY <1>2, <1>4, <2>2, <4>1, <5>1, <5>2 DEF CodedInv, Mapping
      <4>3. CASE code \notin DOMAIN Mapper[t]
        <5>1. pc'[t] = "done"
          BY <1>1, <3>2, <4>3 DEF LookUpCode, Goto, TypeOK
        <5>2. code = Configured(t)
          BY <1>2, <4>3 DEF CodedInv, Configured
        <5> QED BY <1>2, <1>4, <2>2, <5>1, <5>2 DEF CodedInv, Mapping
      <4> QED BY <4>2, <4>3
    <3>3. CASE CheckCode(t)
      <4>1. /\ Mapping(t) /\ pc[t] = "check_code"
            /\ pc'[t] = IF code \in DOMAIN Mapper[t] THEN "look_up_code" ELSE "add_type"
        BY <1>1, <3>3 DEF CheckCode, Goto, TypeOK, Mapping
      <4>2. code \notin DOMAIN Mapper[t] => code = Configured(t)
        BY <1>2 DEF CodedInv, Configured
      <4> QED BY <1>2, <1>4, <2>2, <4>1, <4>2 DEF CodedInv, Mapping
    <3>4. CASE ~StoreCode(t) /\ ~LookUpCode(t) /\ ~CheckCode(t)
      <4>1. /\ pc'[t] # "store_code"
            /\ Mapping(t)' <=> Mapping(t)
        BY <1>1, <1>6, <3>4 DEF Step, Start, AddType, List, ListFails, BuildItem,
           BuildFails, CheckRegion, AppendRegion, Respond, EndLoop, AddRegion, EndRegions,
           Goto, Mapping, TypeOK
      <4> QED BY <1>2, <1>4, <2>2, <4>1 DEF CodedInv
    <3> QED BY <3>1, <3>2, <3>3, <3>4
  <2> QED BY <2>1, <2>2
<1> QED BY <1>5, <1>6

LEMMA CodedServiceStep ==
  ASSUME IInv, ServiceInv, NEW r \in Request,
         \/ Reject(r) \/ Submit(r) \/ BadTargets(r) \/ Cancel(r) \/ Generator(r),
         NEW t \in Task, CodedInv(t)
  PROVE  CodedInv(t)'
<1>1. UNCHANGED vars
  BY DEF Reject, Submit, BadTargets, Cancel, Generator, NextFuture, Yield, YieldFails,
     EndFuture, LeavePool, SendMetrics, EndDrain
<1>2. /\ service_code' = service_code /\ pc' = pc /\ mapped_code' = mapped_code
      /\ Configured(t)' = Configured(t)
  BY <1>1 DEF vars, shared, Configured
<1>3. ASSUME NEW k \in From(t)', stream'[Owner[t]][k].body.kind = "CloudServiceType"
      PROVE  stream'[Owner[t]][k].body.code = Configured(t)
  <2>1. CASE k \in From(t) /\ stream'[Owner[t]][k] = stream[Owner[t]][k]
    BY <1>3, <2>1 DEF CodedInv
  <2>2. stream'[Owner[t]][k].body # GenericError
    BY <1>3 DEF GenericError
  <2>3. CASE Done(t) /\ \E p \in DOMAIN total_resources[t] :
               stream'[Owner[t]][k].body = Primitive(total_resources[t][p])
    <3>1. PICK p \in DOMAIN total_resources[t] :
            stream'[Owner[t]][k].body = Primitive(total_resources[t][p])
      BY <2>3
    <3> DEFINE x == total_resources[t][p]
    <3>2. x.kind = "CloudServiceType"
      <4>1. x.kind # "CloudServiceType" => Primitive(x) = x
        BY DEF Primitive
      <4> QED BY <1>3, <3>1, <4>1
    <3>3. x.of = TypeOf[t]
      BY <3>2, OfTask DEF ResultInv
    <3>4. Primitive(x).code = service_code[TypeOf[t]]
      BY <3>2, <3>3 DEF Primitive
    <3>5. service_code[TypeOf[t]] = Configured(t)
      BY <2>3 DEF CodedInv, Mapping, Done
    <3> QED BY <3>1, <3>4, <3>5
  <2> QED BY <2>1, <2>2, <2>3, Streamed
<1> QED BY <1>2, <1>3 DEF CodedInv, Mapping

\* As long as the calls that share a type agree on its code, no interleaving of
\* their look-ups and stores in the shared type object, nor its being read only
\* when it is streamed, gives a client another code than the one its request
\* configured.  (Without that assumption it fails: run collector_leak.)
THEOREM CodesAsConfigured ==
  ASSUME MappersAgree
  PROVE  CollectorSpec => []CodeAsConfigured
<1> DEFINE Coded == \A t \in Task : CodedInv(t)
<1>1. CollectorInit => Coded
  BY DEF CollectorInit, Init, CodedInv, Mapping, From
<1>2. IInv /\ ServiceInv /\ Coded /\ [CollectorNext]_allVars => Coded'
  <2> SUFFICES ASSUME IInv, ServiceInv, Coded, [CollectorNext]_allVars PROVE Coded'
    OBVIOUS
  <2>1. CASE UNCHANGED allVars
    BY <2>1 DEF CodedInv, Mapping, Configured, From, allVars, vars, shared, service
  <2>2. ASSUME NEW u \in Task, StartTask(u) \/ TaskStep(u) PROVE Coded'
    BY <2>2, CodedTaskStep
  <2>3. ASSUME NEW r \in Request,
               \/ Reject(r) \/ Submit(r) \/ BadTargets(r) \/ Cancel(r) \/ Generator(r)
        PROVE  Coded'
    BY <2>3, CodedServiceStep
  <2> QED BY <2>1, <2>2, <2>3 DEF CollectorNext
<1>3. Coded => CodeAsConfigured
  BY DEF CodedInv, CodeAsConfigured
<1> HIDE DEF Coded
<1> QED BY <1>1, <1>2, <1>3, ServiceInvariance, PTL DEF CollectorSpec

-----------------------------------------------------------------------------
\* The service implements CollectionContract.

USE DEF Contract!Staff, Contract!Idle

\* What a client knows of a manager only changes with what it is sent of it.
LEMMA AnswersStay ==
  ASSUME NEW t \in Task, From(t)' = From(t),
         \A k \in From(t) : stream'[Owner[t]][k] = stream[Owner[t]][k]
  PROVE  ItemsAnswered(t)' = ItemsAnswered(t)
BY DEF ItemsAnswered

\* Two ways to stand still.
LEMMA SameTasks ==
  ASSUME UNCHANGED vars
  PROVE  Activity' = Activity /\ listed' = listed
BY DEF Activity, vars, loop

LEMMA SameVerdicts ==
  ASSUME UNCHANGED <<vars, settled, yielded>>
  PROVE  Verdict' = Verdict
BY DEF Verdict, vars

LEMMA SameAnswers ==
  ASSUME stream' = stream
  PROVE  Answered' = Answered
BY DEF Answered, ItemsAnswered, From

\* The items a finished manager gathered answers to are the ones it listed.
LEMMA GatheredAnswers ==
  ASSUME IInv, ServiceInv, NEW t \in Task, Done(t), NEW p \in DOMAIN total_resources[t],
         total_resources[t][p].kind \in {"CloudService", "ErrorResource"}
  PROVE  LET i == total_resources[t][p].of IN
         i \in listed[t] /\ AnswersTo(i, total_resources[t]) = {p}
<1> DEFINE total == total_resources[t]
           i == total[p].of
<1>1. i \in Item
  <2>1. total[p] \in Response
    BY OfTask
  <2> QED BY <2>1, ResponseKinds
<1>2. p \in AnswersTo(i, total)
  BY DEF AnswersTo
<1>3. fault[t] = {}
  <2>1. fault[t] # {} => NoAnswers(total)
    BY OfTask DEF ResultInv
  <2> QED BY <1>1, <1>2, <2>1 DEF NoAnswers
<1>4. OneAnswerEach(listed[t], total)
  BY <1>3 DEF IInv, GatherInv, Gathered
<1> HIDE DEF i, total
<1>5. i \in listed[t] /\ AnswersTo(i, total) = {p}
  BY <1>1, <1>2, <1>4 DEF OneAnswerEach
<1> QED BY <1>5 DEF i, total

\* The client has the answers streamed so far, up to an error.
LEMMA AnswersStreamed ==
  ASSUME IInv, ServiceInv, NEW t \in Task, NEW i \in ItemsAnswered(t)
  PROVE  \E p \in 1 .. yielded[t] :
           /\ p \in DOMAIN total_resources[t]
           /\ total_resources[t][p].kind \in {"CloudService", "ErrorResource"}
           /\ total_resources[t][p].of = i
<1> DEFINE s == stream[Owner[t]]
<1>1. PICK k \in From(t) : /\ s[k].body.kind \in {"CloudService", "ErrorResource"}
                           /\ s[k].body.of = i
  BY DEF ItemsAnswered
<1>2. s[k].body # GenericError
  BY <1>1 DEF GenericError
<1>3. /\ StreamInv(t) /\ yielded[t] \in Nat /\ Len(total_resources[t]) \in Nat
      /\ DOMAIN total_resources[t] = 1 .. Len(total_resources[t])
  BY OfTask
<1>4. /\ s[k].at \in 1 .. yielded[t] + 1 /\ s[k].at <= Len(total_resources[t])
      /\ s[k].at # yielded[t] + 1
      /\ Streams(s[k].body, total_resources[t][s[k].at])
  BY <1>2, <1>3 DEF StreamInv
<1>5. s[k].at \in 1 .. yielded[t] /\ s[k].at \in DOMAIN total_resources[t]
  BY <1>3, <1>4
<1> QED BY <1>1, <1>4, <1>5 DEF Streams

\* The tasks of a request that hold threads belong to an open call.
LEMMA OpenForTask ==
  ASSUME ServiceInv, NEW t \in Task, t \in submitted[Owner[t]], ~Done(t)
  PROVE  CallPhase[Owner[t]] \in {"open", "leaving"}
<1>1. /\ RequestInv(Owner[t]) /\ ProgressInv(t)
      /\ rpc[Owner[t]] \in {"idle", "collecting", "metrics", "draining", "over", "closed"}
  BY DEF ServiceInv, ServiceTypeOK
<1>2. rpc[Owner[t]] \in {"collecting", "metrics", "draining"}
  BY <1>1 DEF RequestInv, ProgressInv
<1> QED BY <1>2 DEF CallPhase

LEMMA TaskImplements ==
  ASSUME IInv, ServiceInv, NEW u \in Task, StartTask(u) \/ TaskStep(u)
  PROVE  [Contract!ContractNext]_(Contract!contract)
<1>1. TypeOK /\ (Start(u) \/ Step(u)) /\ LoopInv(u) /\ ServiceTypeOK
      /\ UNCHANGED <<rpc, submitted, consuming, settled, yielded, stream>>
  BY DEF IInv, ServiceInv, StartTask, TaskStep, service
<1>2. CallPhase' = CallPhase /\ submitted' = submitted /\ Answered' = Answered
  BY <1>1, SameAnswers DEF CallPhase
<1>3. Verdict' = Verdict
  <2>1. ASSUME NEW t \in Task, t \in settled
        PROVE  fault'[t] = fault[t] /\ total_resources'[t] = total_resources[t]
    BY <1>1, <2>1, OfTask, DoneStays DEF ProgressInv
  <2> QED BY <1>1, <2>1 DEF Verdict
<1>4. \A t \in Task \ {u} : pc'[t] = pc[t] /\ listed'[t] = listed[t]
  BY <1>1, Frame
<1>5. u \in submitted[Owner[u]] /\ ~Done(u)
  BY AtWork
<1>7. CASE Start(u)
  <2>1. pc[u] = "pending" /\ pc'[u] = "check_code" /\ listed' = listed
    BY <1>1, <1>7 DEF Start, Goto, TypeOK, loop
  <2>2. Activity[u] = "waiting" /\ Activity' = [Activity EXCEPT ![u] = "working"]
    BY <1>4, <2>1 DEF Activity
  <2>3. CallPhase[Owner[u]] \in {"open", "leaving"}
    BY <1>5, OpenForTask
  <2>4. Contract!Begin(u)
    BY <1>2, <1>3, <1>5, <2>1, <2>2, <2>3 DEF Contract!Begin
  <2> QED BY <2>4 DEF Contract!ContractNext
<1>8. CASE List(u)
  <2>1. pc[u] = "list" /\ pc'[u] = "loop"
          /\ \E S \in SUBSET Item : listed' = [listed EXCEPT ![u] = S]
    BY <1>1, <1>8 DEF List, Goto, TypeOK
  <2>2. listed[u] = {} /\ Activity[u] = "working" /\ Activity' = Activity
    BY <1>1, <1>4, <2>1 DEF Activity, LoopInv, Early
  <2>3. Contract!Discover(u)
    BY <1>2, <1>3, <2>1, <2>2 DEF Contract!Discover
  <2> QED BY <2>3 DEF Contract!ContractNext
<1>9. CASE ~Start(u) /\ ~List(u)
  <2>1. /\ listed' = listed /\ pc[u] # "pending" /\ pc'[u] # "pending"
    BY <1>1, <1>9 DEF Step, CheckCode, LookUpCode, StoreCode, AddType, ListFails, BuildItem,
       BuildFails, CheckRegion, AppendRegion, Respond, EndLoop, AddRegion, EndRegions, Goto,
       loop, TypeOK
  <2>2. Activity[u] = "working"
    BY <1>5, <2>1 DEF Activity, Done
  <2>3. CASE pc'[u] = "done"
    <3>1. Activity' = [Activity EXCEPT ![u] = "finished"]
      BY <1>4, <2>3 DEF Activity
    <3>2. Contract!Finish(u)
      BY <1>2, <1>3, <2>1, <2>2, <3>1 DEF Contract!Finish
    <3> QED BY <3>2 DEF Contract!ContractNext
  <2>4. CASE pc'[u] # "done"
    <3>1. Activity' = Activity
      BY <1>4, <1>5, <2>1, <2>4 DEF Activity, Done
    <3> QED BY <1>2, <1>3, <2>1, <3>1 DEF Contract!contract
  <2> QED BY <2>3, <2>4
<1> QED BY <1>7, <1>8, <1>9

LEMMA InitImplements == CollectorInit => Contract!ContractInit
<1> SUFFICES ASSUME CollectorInit PROVE Contract!ContractInit
  OBVIOUS
<1> USE DEF CollectorInit, Init
<1>1. CallPhase = [r \in Request |-> "idle"]
  BY DEF CallPhase
<1>2. Activity = [t \in Task |-> "waiting"]
  BY DEF Activity
<1>3. Answered = [t \in Task |-> {}]
  BY DEF Answered, ItemsAnswered, From
<1>4. Verdict = [t \in Task |-> "none"]
  BY DEF Verdict
<1> QED BY <1>1, <1>2, <1>3, <1>4 DEF Contract!ContractInit

\* The generator changes its phase.
LEMMA PhaseMaps ==
  ASSUME ServiceTypeOK, NEW r \in Request, NEW from, NEW to, Phase(r, from, to)
  PROVE  /\ CallPhase[r] = CASE from \in {"collecting", "metrics"} -> "open"
                             [] from = "draining" -> "leaving"
                             [] OTHER -> from
         /\ CallPhase' = [CallPhase EXCEPT ![r] =
                            CASE to \in {"collecting", "metrics"} -> "open"
                              [] to = "draining" -> "leaving"
                              [] OTHER -> to]
<1>1. rpc[r] = from /\ \A q \in Request : rpc'[q] = IF q = r THEN to ELSE rpc[q]
  BY DEF Phase, ServiceTypeOK
<1> QED BY <1>1 DEF CallPhase

\* A word to the client that is of no manager answers no item.
LEMMA WordAnswersNothing ==
  ASSUME ServiceTypeOK, NEW r \in Request, NEW body \in {GenericError, Metrics},
         Send(r, Entry({}, 0, body))
  PROVE  Answered' = Answered
<1>1. Entry({}, 0, body) \in Received /\ Entry({}, 0, body).from = {}
  BY OtherBodies DEF Entry, Received
<1> DEFINE e == Entry({}, 0, body)
<1>2. e \in Received /\ e.from = {} /\ Send(r, e)
  BY <1>1
<1> HIDE DEF e
<1>3. ASSUME NEW t \in Task PROVE ItemsAnswered(t)' = ItemsAnswered(t)
  <2>1. {} # {t}
    OBVIOUS
  <2> QED BY <1>2, <2>1, OthersUnmoved, AnswersStay
<1> QED BY <1>3 DEF Answered

LEMMA PhaseImplements ==
  ASSUME IInv, ServiceInv, NEW r \in Request,
         \/ Reject(r) \/ Submit(r) \/ BadTargets(r) \/ Cancel(r)
         \/ LeavePool(r) \/ SendMetrics(r) \/ EndDrain(r)
  PROVE  [Contract!ContractNext]_(Contract!contract)
<1>1. ServiceTypeOK /\ RequestInv(r) /\ submitted \in [Request -> SUBSET Task]
  BY DEF ServiceInv, ServiceTypeOK
<1>2. UNCHANGED <<vars, consuming, settled, yielded>>
  BY DEF Reject, Submit, BadTargets, Cancel, LeavePool, SendMetrics, EndDrain
<1>3. Activity' = Activity /\ listed' = listed /\ Verdict' = Verdict
  BY <1>2, SameTasks, SameVerdicts
<1>4. Answered' = Answered
  <2>1. CASE BadTargets(r) \/ SendMetrics(r)
    BY <1>1, <2>1, WordAnswersNothing DEF BadTargets, SendMetrics
  <2>2. CASE Reject(r) \/ Submit(r) \/ Cancel(r) \/ LeavePool(r) \/ EndDrain(r)
    BY <2>2, SameAnswers DEF Reject, Submit, Cancel, LeavePool, EndDrain
  <2> QED BY <2>1, <2>2
<1>5. ASSUME NEW t \in submitted[r], t \in settled \/ Done(t)
      PROVE  Activity[t] = "finished" /\ (t \in settled => Verdict[t] # "none")
  <2>1. t \in Task /\ Done(t)
    BY <1>1, <1>5, OfTask DEF ProgressInv
  <2> QED BY <2>1 DEF Activity, Verdict, Done
<1>6. CASE Reject(r)
  <2>1. CallPhase[r] = "idle" /\ CallPhase' = [CallPhase EXCEPT ![r] = "over"]
    BY <1>1, <1>6, PhaseMaps DEF Reject
  <2>2. submitted' = submitted
    BY <1>6 DEF Reject
  <2>3. Contract!Refuse(r)
    BY <1>3, <1>4, <2>1, <2>2 DEF Contract!Refuse
  <2> QED BY <2>3 DEF Contract!ContractNext
<1>7. CASE Submit(r) \/ BadTargets(r)
  <2>1. CallPhase[r] = "idle" /\ CallPhase' = [CallPhase EXCEPT ![r] = "open"]
    BY <1>1, <1>7, PhaseMaps DEF Submit, BadTargets
  <2>2. \E H \in {{}, TasksOf(r)} : submitted' = [submitted EXCEPT ![r] = H]
    <3>1. CASE Submit(r)
      BY <3>1 DEF Submit
    <3>2. CASE BadTargets(r)
      <4>1. submitted[r] = {} /\ submitted' = submitted
        BY <1>1, <3>2 DEF BadTargets, Phase, RequestInv
      <4> QED BY <1>1, <4>1
    <3> QED BY <1>7, <3>1, <3>2
  <2>3. Contract!Open(r)
    BY <1>3, <1>4, <2>1, <2>2 DEF Contract!Open, TasksOf
  <2> QED BY <2>3 DEF Contract!ContractNext
<1>8. CASE Cancel(r)
  <2>1. submitted' = submitted
    BY <1>8 DEF Cancel
  <2>2. CASE Phase(r, "collecting", "draining")
    <3>1. CallPhase[r] = "open" /\ CallPhase' = [CallPhase EXCEPT ![r] = "leaving"]
      BY <1>1, <2>2, PhaseMaps
    <3>2. Contract!Leave(r)
      BY <1>3, <1>4, <2>1, <3>1 DEF Contract!Leave
    <3> QED BY <3>2 DEF Contract!ContractNext
  <2>3. CASE Phase(r, "metrics", "closed")
    <3>1. CallPhase[r] = "open" /\ CallPhase' = [CallPhase EXCEPT ![r] = "closed"]
      BY <1>1, <2>3, PhaseMaps
    <3>2. submitted[r] \subseteq settled
      BY <1>1, <2>3 DEF Phase, RequestInv
    <3>3. Contract!Close(r)
      BY <1>3, <1>4, <1>5, <2>1, <3>1, <3>2 DEF Contract!Close
    <3> QED BY <3>3 DEF Contract!ContractNext
  <2> QED BY <1>8, <2>2, <2>3 DEF Cancel
<1>9. CASE LeavePool(r)
  <2>1. CallPhase[r] = "open" /\ CallPhase' = [CallPhase EXCEPT ![r] = "open"]
    BY <1>1, <1>9, PhaseMaps DEF LeavePool
  <2>2. CallPhase' = CallPhase
    BY <2>1 DEF CallPhase
  <2>3. submitted' = submitted
    BY <1>9 DEF LeavePool
  <2> QED BY <1>3, <1>4, <2>2, <2>3 DEF Contract!contract
<1>10. CASE SendMetrics(r)
  <2>1. CallPhase[r] = "open" /\ CallPhase' = [CallPhase EXCEPT ![r] = "over"]
    BY <1>1, <1>10, PhaseMaps DEF SendMetrics
  <2>2. submitted' = submitted
    BY <1>10 DEF SendMetrics
  <2>3. submitted[r] \subseteq settled
    BY <1>1, <1>10 DEF SendMetrics, Phase, RequestInv
  <2>4. Contract!End(r)
    BY <1>3, <1>4, <1>5, <2>1, <2>2, <2>3 DEF Contract!End
  <2> QED BY <2>4 DEF Contract!ContractNext
<1>11. CASE EndDrain(r)
  <2>1. CallPhase[r] = "leaving" /\ CallPhase' = [CallPhase EXCEPT ![r] = "closed"]
    BY <1>1, <1>11, PhaseMaps DEF EndDrain
  <2>2. submitted' = submitted /\ \A t \in submitted[r] : Done(t)
    BY <1>11 DEF EndDrain
  <2>3. Contract!Close(r)
    BY <1>3, <1>4, <1>5, <2>1, <2>2 DEF Contract!Close
  <2> QED BY <2>3 DEF Contract!ContractNext
<1> QED BY <1>6, <1>7, <1>8, <1>9, <1>10, <1>11

\* What is streamed changes what a client knows of the one manager it is from.
LEMMA StreamingAnswers ==
  ASSUME ServiceTypeOK, NEW r \in Request, NEW t \in Task, NEW e \in Received,
         Owner[t] = r, e.from = {t}, Send(r, e)
  PROVE  Answered' =
           [Answered EXCEPT ![t] = Answered[t] \cup
              {i \in Item : /\ e.body.kind \in {"CloudService", "ErrorResource"}
                            /\ e.body.of = i}]
<1> DEFINE n == Len(stream[r]) + 1
<1>1. ASSUME NEW u \in Task, u # t PROVE ItemsAnswered(u)' = ItemsAnswered(u)
  <2>1. e.from # {u}
    BY <1>1
  <2> QED BY <2>1, OthersUnmoved, AnswersStay
<1>2. From(t)' = From(t) \cup {n} /\ stream'[r][n] = e
      /\ \A k \in From(t) : stream'[r][k] = stream[r][k]
  BY FromSending
<1> HIDE DEF n
<1>3. ItemsAnswered(t)' = ItemsAnswered(t) \cup
        {i \in Item : /\ e.body.kind \in {"CloudService", "ErrorResource"}
                      /\ e.body.of = i}
  BY <1>2 DEF ItemsAnswered
<1> QED BY <1>1, <1>3 DEF Answered

LEMMA YieldImplements ==
  ASSUME IInv, ServiceInv, NEW r \in Request, Yield(r)
  PROVE  [Contract!ContractNext]_(Contract!contract)
<1>1. /\ TypeOK /\ ServiceTypeOK /\ rpc[r] = "collecting"
      /\ UNCHANGED <<vars, rpc, submitted, consuming, settled>>
  BY DEF IInv, ServiceInv, Yield
<1>2. PICK t \in consuming[r] :
        /\ yielded[t] + 1 <= Len(total_resources[t])
        /\ Send(r, Entry({t}, yielded[t] + 1, Primitive(total_resources[t][yielded[t] + 1])))
        /\ yielded' = [yielded EXCEPT ![t] = yielded[t] + 1]
  BY DEF Yield
<1>3. /\ t \in Task /\ Owner[t] = r /\ Done(t) /\ t \notin settled
  BY <1>2, Consumed
<1> DEFINE p == yielded[t] + 1
           x == total_resources[t][p]
           e == Entry({t}, p, Primitive(x))
<1>4. p \in Nat /\ yielded[t] \in Nat /\ p \in DOMAIN total_resources[t] /\ x \in Response
  BY <1>2, <1>3, OfTask
<1>5. /\ Primitive(x) \in PrimitiveResponse
      /\ Primitive(x).kind = x.kind /\ Primitive(x).of = x.of
  BY <1>1, <1>4, PrimitiveOf DEF Streams
<1>6. e \in Received /\ e.from = {t} /\ e.body = Primitive(x) /\ Send(r, e)
  BY <1>2, <1>3, <1>4, <1>5 DEF Entry, Received
<1> DEFINE new == {i \in Item : /\ x.kind \in {"CloudService", "ErrorResource"} /\ x.of = i}
<1>7. Answered' = [Answered EXCEPT ![t] = Answered[t] \cup new]
  <2> HIDE DEF e, x
  <2> QED BY <1>1, <1>3, <1>5, <1>6, StreamingAnswers
<1>8. /\ CallPhase' = CallPhase /\ CallPhase[r] = "open" /\ submitted' = submitted
      /\ Activity' = Activity /\ Activity[t] = "finished" /\ listed' = listed
  BY <1>1, <1>3, SameTasks DEF CallPhase, Activity, Done
<1>9. Verdict' = Verdict /\ Verdict[t] = "none"
  <2>1. ASSUME NEW u \in Task, u # t PROVE yielded'[u] = yielded[u]
    BY <1>1, <1>2, <2>1 DEF ServiceTypeOK
  <2>2. settled' = settled /\ fault' = fault /\ total_resources' = total_resources
    BY <1>1 DEF vars
  <2> QED BY <1>3, <2>1, <2>2 DEF Verdict
<1>10. CASE x.kind \in {"CloudService", "ErrorResource"}
  <2>1. x.of \in listed[t] /\ x.of \in Item /\ AnswersTo(x.of, total_resources[t]) = {p}
    BY <1>3, <1>4, <1>10, GatheredAnswers, OfTask
  <2>2. x.of \notin ItemsAnswered(t)
    <3>1. SUFFICES ASSUME x.of \in ItemsAnswered(t) PROVE FALSE
      OBVIOUS
    <3>2. PICK q \in 1 .. yielded[t] :
            /\ q \in DOMAIN total_resources[t]
            /\ total_resources[t][q].kind \in {"CloudService", "ErrorResource"}
            /\ total_resources[t][q].of = x.of
      BY <1>3, <3>1, AnswersStreamed
    <3>3. q \in AnswersTo(x.of, total_resources[t])
      BY <3>2 DEF AnswersTo
    <3> QED BY <1>4, <2>1, <3>2, <3>3
  <2>3. new = {x.of}
    BY <1>10, <2>1
  <2>4. x.of \in listed[t] \ Answered[t]
    BY <1>3, <2>1, <2>2 DEF Answered
  <2>5. Contract!Answer(t)
    <3> HIDE DEF x, new
    <3> QED BY <1>3, <1>7, <1>8, <1>9, <2>3, <2>4 DEF Contract!Answer
  <2> QED BY <1>3, <2>5 DEF Contract!ContractNext
<1>11. CASE x.kind \notin {"CloudService", "ErrorResource"}
  <2>1. Answered' = Answered
    <3>1. Answered' = [Answered EXCEPT ![t] = Answered[t]]
      <4>1. Answered[t] \cup new = Answered[t]
        BY <1>11
      <4> QED BY <1>7, <4>1
    <3> QED BY <3>1 DEF Answered
  <2> QED BY <1>8, <1>9, <2>1 DEF Contract!contract
<1> QED BY <1>10, <1>11

LEMMA YieldFailsImplements ==
  ASSUME IInv, ServiceInv, NEW r \in Request, YieldFails(r)
  PROVE  [Contract!ContractNext]_(Contract!contract)
<1>1. /\ TypeOK /\ ServiceTypeOK /\ rpc[r] = "collecting"
      /\ UNCHANGED <<vars, rpc, submitted, yielded>>
  BY DEF IInv, ServiceInv, YieldFails
<1>2. PICK t \in consuming[r] :
        /\ yielded[t] < Len(total_resources[t])
        /\ Send(r, Entry({t}, yielded[t] + 1, GenericError))
        /\ settled' = settled \cup {t}
  BY DEF YieldFails
<1>3. /\ t \in Task /\ Owner[t] = r /\ Done(t) /\ t \notin settled
      /\ yielded[t] \in Nat /\ Len(total_resources[t]) \in Nat
  BY <1>2, Consumed, OfTask
<1> DEFINE e == Entry({t}, yielded[t] + 1, GenericError)
<1>4. /\ e \in Received /\ e.from = {t} /\ Send(r, e)
      /\ e.body.kind \notin {"CloudService", "ErrorResource"}
  BY <1>2, <1>3, OtherBodies DEF Entry, Received, GenericError
<1>5. Answered' = Answered
  <2> HIDE DEF e
  <2> DEFINE new == {i \in Item : /\ e.body.kind \in {"CloudService", "ErrorResource"}
                                  /\ e.body.of = i}
  <2>1. Answered' = [Answered EXCEPT ![t] = Answered[t] \cup new]
    BY <1>1, <1>3, <1>4, StreamingAnswers
  <2>2. Answered[t] \cup new = Answered[t]
    BY <1>4
  <2>3. Answered' = [Answered EXCEPT ![t] = Answered[t]]
    BY <2>1, <2>2
  <2> QED BY <2>3 DEF Answered
<1>6. /\ CallPhase' = CallPhase /\ CallPhase[r] = "open" /\ submitted' = submitted
      /\ Activity' = Activity /\ Activity[t] = "finished" /\ listed' = listed
  BY <1>1, <1>3, SameTasks DEF CallPhase, Activity, Done
<1>7. Verdict[t] = "none" /\ Verdict' = [Verdict EXCEPT ![t] = "partial"]
  <2>1. fault' = fault /\ total_resources' = total_resources /\ yielded' = yielded
    BY <1>1 DEF vars
  <2>2. yielded[t] # Len(total_resources[t])
    BY <1>2, <1>3
  <2> QED BY <1>2, <1>3, <2>1, <2>2 DEF Verdict
<1>8. Contract!Conclude(t)
  BY <1>3, <1>5, <1>6, <1>7 DEF Contract!Conclude
<1> QED BY <1>3, <1>8 DEF Contract!ContractNext

LEMMA EndFutureImplements ==
  ASSUME IInv, ServiceInv, NEW r \in Request, EndFuture(r)
  PROVE  [Contract!ContractNext]_(Contract!contract)
<1>1. /\ TypeOK /\ ServiceTypeOK /\ rpc[r] = "collecting"
      /\ UNCHANGED <<vars, rpc, submitted, yielded, stream>>
  BY DEF IInv, ServiceInv, EndFuture
<1>2. PICK t \in consuming[r] :
        yielded[t] = Len(total_resources[t]) /\ settled' = settled \cup {t}
  BY DEF EndFuture
<1>3. t \in Task /\ Owner[t] = r /\ Done(t) /\ t \notin settled
  BY <1>2, Consumed
<1>4. /\ StreamInv(t) /\ ProgressInv(t) /\ listed[t] \in SUBSET Item
      /\ DOMAIN total_resources[t] = 1 .. yielded[t]
  BY <1>2, <1>3, OfTask
<1>5. /\ CallPhase' = CallPhase /\ CallPhase[r] = "open" /\ submitted' = submitted
      /\ Activity' = Activity /\ Activity[t] = "finished" /\ listed' = listed
      /\ Answered' = Answered
  BY <1>1, <1>3, SameTasks, SameAnswers DEF CallPhase, Activity, Done
<1> DEFINE v == IF fault[t] = {} THEN "complete" ELSE "partial"
<1>6. Verdict[t] = "none" /\ Verdict' = [Verdict EXCEPT ![t] = v]
  <2>1. fault' = fault /\ total_resources' = total_resources /\ yielded' = yielded
    BY <1>1 DEF vars
  <2>2. Verdict[t] = "none" /\ Verdict'[t] = v
    BY <1>2, <1>3, <2>1 DEF Verdict
  <2>3. ASSUME NEW u \in Task, u # t PROVE Verdict'[u] = Verdict[u]
    BY <1>2, <2>1, <2>3 DEF Verdict
  <2> HIDE DEF v
  <2> QED BY <2>2, <2>3 DEF Verdict
<1>7. ASSUME fault[t] = {} PROVE Answered[t] = listed[t]
  <2> DEFINE total == total_resources[t]
             s == stream[Owner[t]]
  <2>1. OneAnswerEach(listed[t], total)
    BY <1>3, <1>7 DEF IInv, GatherInv, Gathered
  <2>2. ASSUME NEW i \in listed[t] PROVE i \in ItemsAnswered(t)
    <3>1. PICK p \in DOMAIN total : AnswersTo(i, total) = {p}
      BY <1>4, <2>1, <2>2 DEF OneAnswerEach
    <3>2. total[p].kind \in {"CloudService", "ErrorResource"} /\ total[p].of = i
      BY <3>1 DEF AnswersTo
    <3>3. PICK k \in From(t) : s[k].at = p
      BY <1>4, <3>1 DEF StreamInv
    <3>4. s[k].body # GenericError
      BY <1>3, <1>4 DEF ProgressInv, CutShort
    <3>5. Streams(s[k].body, total[p])
      BY <1>4, <3>3, <3>4 DEF StreamInv
    <3> QED BY <1>4, <3>2, <3>5 DEF ItemsAnswered, Streams
  <2>3. ASSUME NEW i \in ItemsAnswered(t) PROVE i \in listed[t]
    <3>1. PICK p \in 1 .. yielded[t] :
            /\ p \in DOMAIN total
            /\ total[p].kind \in {"CloudService", "ErrorResource"} /\ total[p].of = i
      BY <1>3, AnswersStreamed
    <3> QED BY <1>3, <3>1, GatheredAnswers
  <2>4. ItemsAnswered(t) = listed[t]
    BY <2>2, <2>3
  <2> QED BY <1>3, <2>4 DEF Answered
<1>8. Contract!Conclude(t)
  <2>1. v \in {"complete", "partial"} /\ (v = "complete" => Answered[t] = listed[t])
    BY <1>7
  <2> HIDE DEF v
  <2> QED BY <1>3, <1>5, <1>6, <2>1 DEF Contract!Conclude
<1> QED BY <1>3, <1>8 DEF Contract!ContractNext

\* collect keeps the contract with its clients: with its pool, its futures and
\* all that the threads share, every step answers an item, concludes a manager
\* or moves a call on as CollectionContract allows, or is not seen by clients.
THEOREM ContractKept == CollectorSpec => KeepsContract
<1>1. ASSUME IInv, ServiceInv, [CollectorNext]_allVars
      PROVE  [Contract!ContractNext]_(Contract!contract)
  <2>1. CASE UNCHANGED allVars
    <3>1. UNCHANGED <<vars, rpc, submitted, settled, yielded, stream>>
      BY <2>1 DEF allVars, service
    <3>2. CallPhase' = CallPhase
      BY <3>1 DEF CallPhase
    <3> QED BY <3>1, <3>2, SameTasks, SameVerdicts, SameAnswers DEF Contract!contract
  <2>2. ASSUME NEW u \in Task, StartTask(u) \/ TaskStep(u)
        PROVE  [Contract!ContractNext]_(Contract!contract)
    BY <1>1, <2>2, TaskImplements
  <2>3. ASSUME NEW r \in Request,
               \/ Reject(r) \/ Submit(r) \/ BadTargets(r) \/ Cancel(r) \/ Generator(r)
        PROVE  [Contract!ContractNext]_(Contract!contract)
    <3>1. CASE NextFuture(r)
      <4>1. UNCHANGED <<vars, rpc, submitted, settled, yielded, stream>>
        BY <3>1 DEF NextFuture
      <4>2. CallPhase' = CallPhase
        BY <4>1 DEF CallPhase
      <4> QED BY <4>1, <4>2, SameTasks, SameVerdicts, SameAnswers DEF Contract!contract
    <3> QED
      BY <1>1, <2>3, <3>1, PhaseImplements, YieldImplements, YieldFailsImplements,
         EndFutureImplements
      DEF Generator
  <2> QED BY <1>1, <2>1, <2>2, <2>3 DEF CollectorNext
<1> QED
  BY <1>1, InitImplements, ServiceInvariance, PTL
  DEF CollectorSpec, KeepsContract, Contract!ContractSpec

=============================================================================
