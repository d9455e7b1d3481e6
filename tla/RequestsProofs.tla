--------------------------- MODULE RequestsProofs ---------------------------
(***************************************************************************)
(* Theorems about requests for data: for all calls, credentials, policies, *)
(* providers and numbers of requests, and any writers of the topology.     *)
(***************************************************************************)
EXTENDS Requests, TopologyProofs

-----------------------------------------------------------------------------
(* Requests are readers of the topology, and no more.                       *)

LEMMA RequestTopology ==
  ASSUME NEW r \in Readers, RequestStep(r)
  PROVE  /\ [Next]_vars
         /\ UNCHANGED stateVars
<1>1. \/ UNCHANGED vars \/ Request(r) \/ GrantRead(r) \/ DropReadGuard(r) \/ CancelWait(r)
  BY DEF RequestStep, Send, ReceiveAnswer, GiveUp, Authenticate, Authorize, Locked, CallProvider,
         ResourceTakes, ProviderAnswers, ProviderFails, DropFuture
<1>2. [Next]_vars
  BY <1>1 DEF Next, ReaderStep
<1>3. UNCHANGED stateVars
  BY <1>1 DEF vars, Request, GrantRead, DropReadGuard, CancelWait
<1> QED
  BY <1>2, <1>3

LEMMA RequestsStepTopology == [RequestsNext]_allVars => [Next]_vars
BY RequestTopology DEF RequestsNext, allVars, Next

(* Whatever is proved of the topology holds while requests are served.      *)
THEOREM RequestsImplementTopology == RequestsSpec => Spec
<1>1. RequestsInit => Init
  BY DEF RequestsInit
<1> QED
  BY <1>1, RequestsStepTopology, PTL DEF RequestsSpec, Spec

-----------------------------------------------------------------------------
(* What is true of each request at each point of its way.                   *)

RequestShape ==
  /\ stage \in [Readers -> Stages]
  /\ DOMAIN call = Readers /\ DOMAIN identity = Readers /\ DOMAIN status = Readers
  /\ DOMAIN client = Readers
  /\ touched \subseteq Readers
  /\ mode \in [Tasks -> Modes]

InHandler(r) == stage[r] \in {"locking", "providing"}

RequestOK(r) ==
  /\ mode[r] # "idle" <=> InHandler(r)
  /\ stage[r] = "providing" => HoldsRead(r)
  /\ stage[r] = "unsent" => call[r] = NoCall
  /\ stage[r] # "unsent" => call[r] \in Calls
  /\ stage[r] = "authorizing" => identity[r] = Identity[call[r].credential] /\ identity[r] # NoIdentity
  /\ InHandler(r) \/ r \in touched => IsPermitted(call[r])
  /\ ~IsPermitted(call[r]) => status[r] \in {NoStatus, Unauthorized, Forbidden}
  /\ stage[r] # "answered" => status[r] = NoStatus
  /\ r \in touched => stage[r] \in {"providing", "answered", "dropped"}

RequestsInv == RequestShape /\ \A r \in Readers : RequestOK(r)

LEMMA RequestsInvInit == RequestsInit => RequestsInv
<1> SUFFICES ASSUME RequestsInit PROVE RequestsInv
  OBVIOUS
<1>1. RequestShape
  BY DEF RequestsInit, Init, RequestShape, Stages, Modes
<1>2. ASSUME NEW r \in Readers PROVE RequestOK(r)
  BY DEF RequestsInit, Init, RequestOK, InHandler, NoStatus, Tasks
<1> QED
  BY <1>1, <1>2 DEF RequestsInv

(* A step of one request, or of a writer, leaves the other requests alone.  *)
Untouched(r) ==
  /\ stage'[r] = stage[r] /\ call'[r] = call[r] /\ identity'[r] = identity[r]
  /\ status'[r] = status[r] /\ client'[r] = client[r]
  /\ r \in touched' <=> r \in touched
  /\ mode'[r] = mode[r]

LEMMA UntouchedOK ==
  ASSUME NEW r \in Readers, RequestOK(r), Untouched(r)
  PROVE  RequestOK(r)'
BY DEF RequestOK, Untouched, InHandler, HoldsRead, IsPermitted

LEMMA OthersUntouched ==
  ASSUME RequestShape, NEW r \in Readers, RequestStep(r), NEW s \in Readers, s # r
  PROVE  Untouched(s)
<1> USE DEF RequestShape, Untouched, requestVars, vars, lockVars, Tasks
<1>1. CASE Send(r) \/ ReceiveAnswer(r) \/ GiveUp(r) \/ ResourceTakes(r)
  BY <1>1 DEF Send, ReceiveAnswer, GiveUp, ResourceTakes
<1>2. CASE Authenticate(r)
  BY <1>2 DEF Authenticate, Answer
<1>3. CASE Authorize(r)
  BY <1>3 DEF Authorize, Answer, Request
<1>4. CASE Locked(r)
  BY <1>4 DEF Locked, GrantRead
<1>5. CASE CallProvider(r)
  <2>1. UNCHANGED <<call, identity, client, touched>>
    BY <1>5 DEF CallProvider
  <2>2. ASSUME NEW code, Answer(r, code) PROVE stage'[s] = stage[s] /\ status'[s] = status[s]
    BY <2>2 DEF Answer
  <2>3. stage'[s] = stage[s] /\ status'[s] = status[s]
    <3>1. (\E code : Answer(r, code)) \/ (stage' = [stage EXCEPT ![r] = "providing"] /\ status' = status)
      BY <1>5 DEF CallProvider
    <3> QED
      BY <2>2, <3>1
  <2>5. /\ stage'[s] = stage[s] /\ status'[s] = status[s]
        /\ UNCHANGED <<call, identity, client, touched>>
    BY <2>1, <2>3
  <2>6. UNCHANGED vars \/ DropReadGuard(r)
    BY <1>5 DEF CallProvider
  <2> QED
    BY <2>5, <2>6 DEF DropReadGuard
<1>6. CASE ProviderAnswers(r) \/ ProviderFails(r)
  BY <1>6 DEF ProviderAnswers, ProviderFails, Answer, DropReadGuard
<1>7. CASE DropFuture(r)
  BY <1>7 DEF DropFuture, CancelWait, DropReadGuard
<1> QED
  BY <1>1, <1>2, <1>3, <1>4, <1>5, <1>6, <1>7 DEF RequestStep

LEMMA WritersLeaveRequests ==
  ASSUME RequestShape, NEW w \in Writers, WriterStep(w), UNCHANGED requestVars,
         NEW r \in Readers
  PROVE  Untouched(r)
<1> USE TasksAssumption DEF RequestShape, Untouched, requestVars, lockVars, Tasks
<1>1. CASE Mutate(w)
  BY <1>1, MutateShape DEF Batch
<1>2. CASE ~Mutate(w)
  BY <1>2 DEF WriterStep, Request, CancelWait, GrantWrite, DropWriteGuard, SendEvent, Unlock
<1> QED
  BY <1>1, <1>2

LEMMA ShapeStep == RequestShape /\ [RequestsNext]_allVars /\ (mode' \in [Tasks -> Modes])
                     => RequestShape'
<1> SUFFICES ASSUME RequestShape, [RequestsNext]_allVars, mode' \in [Tasks -> Modes]
             PROVE  RequestShape'
  OBVIOUS
<1> USE DEF RequestShape, Stages
<1>1. ASSUME NEW r \in Readers, RequestStep(r) PROVE RequestShape'
  BY <1>1 DEF RequestStep, Send, ReceiveAnswer, GiveUp, Authenticate, Authorize, Locked,
              CallProvider, ResourceTakes, ProviderAnswers, ProviderFails, DropFuture, Answer,
              requestVars
<1>2. CASE UNCHANGED requestVars
  BY <1>2 DEF requestVars
<1> QED
  BY <1>1, <1>2 DEF RequestsNext, allVars

-----------------------------------------------------------------------------
(* One step of a request.                                                   *)

LEMMA AnswerAt ==
  ASSUME RequestShape, NEW r \in Readers, NEW code, Answer(r, code)
  PROVE  stage'[r] = "answered" /\ status'[r] = code
BY DEF RequestShape, Answer

LEMMA CallMethods ==
  ASSUME NEW c \in Calls
  PROVE  c.method = "GET" \/ c.method = "PUT"
BY CallsAssumption DEF Methods, CallOf, SummaryRequest, ListDataRequest, DataRequest

LEMMA RejectionCodes ==
  ASSUME NEW c \in Calls, NEW code \in Rejections[c.method]
  PROVE  code \in {400, 413, 415, 422}
<1>1. c.method = "GET" \/ c.method = "PUT"
  BY CallMethods
<1>2. Rejections["GET"] = {400} /\ Rejections["PUT"] = {400, 413, 415, 422}
  BY DEF Rejections
<1> QED
  BY <1>1, <1>2

LEMMA ErrorCodes ==
  ASSUME NEW error \in {"not-found", "read-only", "internal"}
  PROVE  StatusOfDataError(error) \in {400, 404, 500}
BY DEF StatusOfDataError

LEMMA RefusalErrors == \A r : Refusals(r) \subseteq {"not-found", "read-only", "internal"}
BY DEF Refusals, ReadRefusals, WriteRefusals

LEMMA OwnStep ==
  ASSUME TopologyTypeOK, QueueInv, RequestShape, NEW r \in Readers, RequestOK(r), RequestStep(r)
  PROVE  RequestOK(r)'
<1> USE DEF RequestShape, RequestOK, InHandler, HoldsRead, IsPermitted, Tasks,
            NoStatus, Unauthorized, Forbidden
<1>1. CASE Send(r)
  BY <1>1 DEF Send, vars, lockVars
<1>2. CASE ReceiveAnswer(r)
  BY <1>2 DEF ReceiveAnswer, vars, lockVars
<1>3. CASE GiveUp(r)
  BY <1>3 DEF GiveUp, vars, lockVars
<1>4. CASE Authenticate(r)
  BY <1>4 DEF Authenticate, Answer, vars, lockVars
<1>5. CASE Authorize(r)
  <2>1. stage[r] = "authorizing" /\ UNCHANGED <<call, identity, client, touched>>
    BY <1>5 DEF Authorize
  <2>2. CASE /\ <<identity[r], call[r].method>> \in Permitted /\ Request(r)
             /\ stage' = [stage EXCEPT ![r] = "locking"] /\ status' = status
    <3>1. /\ stage'[r] = "locking" /\ status'[r] = status[r] /\ mode'[r] = "waiting"
          /\ UNCHANGED <<call, identity, client, touched>>
      BY <2>1, <2>2 DEF Request
    <3>2. /\ IsPermitted(call[r]) /\ status[r] = NoStatus
          /\ r \notin touched /\ call[r] \in Calls
      BY <2>1, <2>2
    <3> QED
      BY <3>1, <3>2
  <2>3. CASE /\ UNCHANGED vars /\ <<identity[r], call[r].method>> \in Permitted
             /\ \E code \in Rejections[call[r].method] : Answer(r, code)
    BY <2>1, <2>3, RejectionCodes DEF Answer, vars, lockVars
  <2>4. CASE UNCHANGED vars /\ Answer(r, 403)
    BY <2>1, <2>4 DEF Answer, vars, lockVars
  <2> QED
    BY <1>5, <2>2, <2>3, <2>4 DEF Authorize
<1>6. CASE Locked(r)
  <2>1. mode[r] = "waiting"
    BY <1>6 DEF Locked, GrantRead, QueueInv, TopologyTypeOK
  <2> QED
    BY <1>6, <2>1 DEF Locked, GrantRead, requestVars
<1>7. CASE CallProvider(r)
  <2>1. stage[r] = "locking" /\ UNCHANGED <<call, identity, client, touched>> /\ call[r] \in Calls
    BY <1>7 DEF CallProvider
  <2>3. CASE stage' = [stage EXCEPT ![r] = "providing"] /\ UNCHANGED <<vars, status>> /\ HoldsRead(r)
    BY <2>1, <2>3 DEF vars, lockVars
  <2>4. CASE \E error \in Refusals(r) : /\ Answer(r, StatusOfDataError(error))
                                        /\ DropReadGuard(r)
    <3>1. PICK code \in {400, 404, 500} : Answer(r, code)
      BY <2>4, RefusalErrors, ErrorCodes
    <3> QED
      BY <2>1, <2>4, <3>1 DEF Answer, DropReadGuard
  <2>5. CASE Answer(r, 404) /\ DropReadGuard(r)
    BY <2>1, <2>5 DEF Answer, DropReadGuard
  <2> QED
    BY <1>7, <2>3, <2>4, <2>5 DEF CallProvider
<1>8. CASE ResourceTakes(r)
  BY <1>8 DEF ResourceTakes, vars, lockVars
<1>9. CASE ProviderAnswers(r)
  BY <1>9 DEF ProviderAnswers, Answer, DropReadGuard
<1>10. CASE ProviderFails(r)
  <2>1. PICK code \in {400, 404, 500} : Answer(r, code)
    BY <1>10, ErrorCodes DEF ProviderFails
  <2> QED
    BY <1>10, <2>1 DEF ProviderFails, Answer, DropReadGuard
<1>11. CASE DropFuture(r)
  BY <1>11 DEF DropFuture, CancelWait, DropReadGuard, vars, lockVars
<1> QED
  BY <1>1, <1>2, <1>3, <1>4, <1>5, <1>6, <1>7, <1>8, <1>9, <1>10, <1>11 DEF RequestStep

-----------------------------------------------------------------------------
(* The invariants of the specification.                                     *)

AllInv == TopologyTypeOK /\ LockInv /\ QueueInv /\ RequestsInv

LEMMA AllInvInit == RequestsInit => AllInv
<1> SUFFICES ASSUME RequestsInit PROVE AllInv
  OBVIOUS
<1>1. Init
  BY DEF RequestsInit
<1>2. QueueInv
  BY <1>1 DEF Init, QueueInv
<1> QED
  BY <1>1, <1>2, TopologyTypeInit, LockInvInit, RequestsInvInit DEF AllInv

LEMMA RequestsInvStep ==
  TopologyTypeOK /\ TopologyTypeOK' /\ QueueInv /\ RequestsInv /\ [RequestsNext]_allVars
    => RequestsInv'
<1> SUFFICES ASSUME TopologyTypeOK, TopologyTypeOK', QueueInv, RequestsInv, [RequestsNext]_allVars
             PROVE  RequestsInv'
  OBVIOUS
<1>1. RequestShape /\ \A r \in Readers : RequestOK(r)
  BY DEF RequestsInv
<1>2. RequestShape'
  BY <1>1, ShapeStep DEF TopologyTypeOK
<1>3. ASSUME NEW s \in Readers PROVE RequestOK(s)'
  <2>1. ASSUME NEW r \in Readers, RequestStep(r) PROVE RequestOK(s)'
    <3>1. CASE s = r
      BY <1>1, <2>1, <3>1, OwnStep
    <3>2. CASE s # r
      BY <1>1, <2>1, <3>2, OthersUntouched, UntouchedOK
    <3> QED
      BY <3>1, <3>2
  <2>2. ASSUME NEW w \in Writers, WriterStep(w), UNCHANGED requestVars PROVE RequestOK(s)'
    BY <1>1, <2>2, WritersLeaveRequests, UntouchedOK
  <2>3. CASE UNCHANGED allVars
    <3>1. Untouched(s)
      BY <2>3 DEF allVars, vars, lockVars, requestVars, Untouched
    <3> QED
      BY <1>1, <3>1, UntouchedOK
  <2> QED
    BY <2>1, <2>2, <2>3 DEF RequestsNext
<1> QED
  BY <1>2, <1>3 DEF RequestsInv

LEMMA AllInvStep == AllInv /\ [RequestsNext]_allVars => AllInv'
<1> SUFFICES ASSUME AllInv, [RequestsNext]_allVars PROVE AllInv'
  OBVIOUS
<1>1. [Next]_vars
  BY RequestsStepTopology
<1>2. TopologyTypeOK' /\ LockInv' /\ QueueInv'
  BY <1>1, TopologyTypeStep, LockInvStep, QueueInvStep DEF AllInv
<1> QED
  BY <1>2, RequestsInvStep DEF AllInv

LEMMA AllInvHolds == RequestsSpec => []AllInv
<1> QED
  BY AllInvInit, AllInvStep, PTL DEF RequestsSpec

(* Whatever the policy, a request it refuses learns nothing, never queues   *)
(* for the lock and reaches no resource.                                    *)
THEOREM RefusedLearnNothingHolds == RequestsSpec => []RefusedLearnNothing
<1>1. AllInv => RefusedLearnNothing
  BY DEF AllInv, RequestsInv, RequestOK, InHandler, RefusedLearnNothing
<1> QED
  BY <1>1, AllInvHolds, PTL

-----------------------------------------------------------------------------
(* The entity of a request stays while its provider works.                  *)

LEMMA ServedStep == AllInv /\ ServedEntityStays /\ [RequestsNext]_allVars => ServedEntityStays'
<1> SUFFICES ASSUME AllInv, ServedEntityStays, [RequestsNext]_allVars,
                    NEW s \in Readers, (stage[s] = "providing")'
             PROVE  (call[s].target \in Present)'
  BY DEF ServedEntityStays
<1>1. RequestShape /\ RequestOK(s) /\ LockInv
  BY DEF AllInv, RequestsInv
<1>2. ASSUME NEW r \in Readers, RequestStep(r) PROVE (call[s].target \in Present)'
  <2>1. Present' = Present
    BY <1>2, RequestTopology, PresentUnchanged
  <2>2. CASE s # r
    BY <1>1, <1>2, <2>1, <2>2, OthersUntouched DEF Untouched, ServedEntityStays
  <2>3. CASE s = r /\ stage[s] = "providing"
    <3>1. call'[s] = call[s]
      BY <1>1, <1>2, <2>3
      DEF RequestStep, Send, ReceiveAnswer, GiveUp, Authenticate, Authorize, Locked, CallProvider,
          ResourceTakes, ProviderAnswers, ProviderFails, DropFuture, requestVars
    <3> QED
      BY <2>1, <2>3, <3>1 DEF ServedEntityStays
  <2>4. CASE s = r /\ stage[s] # "providing"
    <3>1. CallProvider(r)
      BY <1>1, <1>2, <2>4
      DEF RequestShape, RequestStep, Send, ReceiveAnswer, GiveUp, Authenticate, Authorize, Locked,
          ResourceTakes, ProviderAnswers, ProviderFails, DropFuture, Answer, requestVars
    <3>2. call' = call
      BY <3>1 DEF CallProvider
    <3>3. stage'[r] = "providing"
      BY <2>4
    <3>4. call[r].target \in Present
      <4> SUFFICES ASSUME call[r].target \notin Present PROVE FALSE
        OBVIOUS
      <4>1. Answer(r, 404)
        BY <3>1 DEF CallProvider
      <4> QED
        BY <1>1, <3>3, <4>1 DEF RequestShape, Answer
    <3> QED
      BY <2>1, <2>4, <3>2, <3>4
  <2> QED
    BY <2>2, <2>3, <2>4
<1>3. ASSUME NEW w \in Writers, WriterStep(w), UNCHANGED requestVars
      PROVE  (call[s].target \in Present)'
  <2>1. stage[s] = "providing" /\ call'[s] = call[s] /\ HoldsRead(s)
    BY <1>1, <1>3 DEF requestVars, RequestOK
  <2>2. ~Mutate(w)
    BY <1>1, <2>1, MutateShape DEF LockInv, WriteLocked, Batch, HoldsWrite
  <2>3. UNCHANGED stateVars
    BY <1>3, <2>2
    DEF WriterStep, Request, CancelWait, GrantWrite, DropWriteGuard, SendEvent, Unlock
  <2> QED
    BY <2>1, <2>3, PresentUnchanged DEF ServedEntityStays
<1>4. CASE UNCHANGED allVars
  <2>1. UNCHANGED <<stage, call>> /\ UNCHANGED stateVars
    BY <1>4 DEF allVars, vars, requestVars
  <2> QED
    BY <2>1, PresentUnchanged DEF ServedEntityStays
<1> QED
  BY <1>2, <1>3, <1>4 DEF RequestsNext

(* The guard is held across the call of the provider, so that no batch can  *)
(* take the entity away meanwhile.                                          *)
THEOREM ServedEntityStaysHolds == RequestsSpec => []ServedEntityStays
<1>1. RequestsInit => ServedEntityStays
  BY DEF RequestsInit, ServedEntityStays
<1> QED
  BY <1>1, ServedStep, AllInvHolds, PTL DEF RequestsSpec

-----------------------------------------------------------------------------
(* The types of what a request carries.                                     *)

RequestTypes ==
  /\ call \in [Readers -> Calls \union {NoCall}]
  /\ status \in [Readers -> Statuses]
  /\ client \in [Readers -> {"idle", "waiting", "answered", "gone"}]

LEMMA AnswerTypes ==
  ASSUME RequestTypes, NEW r \in Readers, NEW code \in Statuses, Answer(r, code)
  PROVE  status' \in [Readers -> Statuses]
BY DEF RequestTypes, Answer

LEMMA SomeStatuses ==
  {200, 204, 400, 401, 403, 404, 413, 415, 422, 500} \subseteq Statuses
<1>1. Rejections["GET"] = {400} /\ Rejections["PUT"] = {400, 413, 415, 422}
  BY DEF Rejections
<1> QED
  BY <1>1 DEF Statuses, Unauthorized, Forbidden

(* Every answer that a request gets has one of the statuses.                *)
LEMMA StatusStep ==
  ASSUME RequestShape, RequestTypes, NEW r \in Readers, RequestOK(r), RequestStep(r)
  PROVE  status' \in [Readers -> Statuses]
<1>1. CASE status' = status
  BY <1>1 DEF RequestTypes
<1>2. CASE \E code \in Statuses : Answer(r, code)
  BY <1>2, AnswerTypes
<1>3. CASE Send(r) \/ ReceiveAnswer(r) \/ GiveUp(r) \/ Locked(r) \/ ResourceTakes(r) \/ DropFuture(r)
  BY <1>1, <1>3 DEF Send, ReceiveAnswer, GiveUp, Locked, ResourceTakes, DropFuture, requestVars
<1>4. CASE Authenticate(r)
  <2>1. status' = status \/ Answer(r, 401)
    BY <1>4 DEF Authenticate, Unauthorized
  <2> QED
    BY <2>1, <1>1, <1>2, SomeStatuses
<1>5. CASE Authorize(r)
  <2>1. call[r] \in Calls
    BY <1>5 DEF Authorize, RequestOK
  <2>2. status' = status \/ Answer(r, 403) \/ \E code \in Rejections[call[r].method] : Answer(r, code)
    BY <1>5 DEF Authorize, Forbidden
  <2>3. CASE \E code \in Rejections[call[r].method] : Answer(r, code)
    <3>1. PICK code \in Rejections[call[r].method] : Answer(r, code)
      BY <2>3
    <3>2. code \in Statuses
      BY <2>1, RejectionCodes, SomeStatuses
    <3> QED
      BY <3>1, <3>2, AnswerTypes
  <2> QED
    BY <2>2, <2>3, <1>1, <1>2, SomeStatuses
<1>6. CASE CallProvider(r)
  <2>1. \/ status' = status \/ Answer(r, 404)
        \/ \E error \in Refusals(r) : Answer(r, StatusOfDataError(error))
    BY <1>6 DEF CallProvider
  <2>2. CASE \E error \in Refusals(r) : Answer(r, StatusOfDataError(error))
    <3>1. PICK code \in {400, 404, 500} : Answer(r, code)
      BY <2>2, RefusalErrors, ErrorCodes
    <3> QED
      BY <3>1, <1>2, SomeStatuses
  <2> QED
    BY <2>1, <2>2, <1>1, <1>2, SomeStatuses
<1>7. CASE ProviderAnswers(r)
  <2>1. Answer(r, 200) \/ Answer(r, 204)
    BY <1>7 DEF ProviderAnswers
  <2> QED
    BY <2>1, <1>2, SomeStatuses
<1>8. CASE ProviderFails(r)
  <2>1. PICK code \in {400, 404, 500} : Answer(r, code)
    BY <1>8, ErrorCodes DEF ProviderFails
  <2> QED
    BY <2>1, <1>2, SomeStatuses
<1> QED
  BY <1>3, <1>4, <1>5, <1>6, <1>7, <1>8 DEF RequestStep

LEMMA CallStep ==
  ASSUME RequestTypes, NEW r \in Readers, RequestStep(r)
  PROVE  call' \in [Readers -> Calls \union {NoCall}]
<1>1. call' = call \/ \E c \in Calls : call' = [call EXCEPT ![r] = c]
  BY DEF RequestStep, Send, ReceiveAnswer, GiveUp, Authenticate, Authorize, Locked, CallProvider,
         ResourceTakes, ProviderAnswers, ProviderFails, DropFuture, requestVars
<1> QED
  BY <1>1 DEF RequestTypes

LEMMA ClientStep ==
  ASSUME RequestTypes, NEW r \in Readers, RequestStep(r)
  PROVE  client' \in [Readers -> {"idle", "waiting", "answered", "gone"}]
<1>1. \/ client' = client
      \/ \E c \in {"waiting", "answered", "gone"} : client' = [client EXCEPT ![r] = c]
  BY DEF RequestStep, Send, ReceiveAnswer, GiveUp, Authenticate, Authorize, Locked, CallProvider,
         ResourceTakes, ProviderAnswers, ProviderFails, DropFuture, requestVars
<1> QED
  BY <1>1 DEF RequestTypes

LEMMA RequestTypesStep == AllInv /\ RequestTypes /\ [RequestsNext]_allVars => RequestTypes'
<1> SUFFICES ASSUME AllInv, RequestTypes, [RequestsNext]_allVars PROVE RequestTypes'
  OBVIOUS
<1>1. ASSUME NEW r \in Readers, RequestStep(r) PROVE RequestTypes'
  <2>1. RequestShape /\ RequestOK(r)
    BY DEF AllInv, RequestsInv
  <2> QED
    BY <1>1, <2>1, StatusStep, CallStep, ClientStep DEF RequestTypes
<1>2. CASE UNCHANGED requestVars
  BY <1>2 DEF requestVars, RequestTypes
<1> QED
  BY <1>1, <1>2 DEF RequestsNext, allVars

(* A request stands in the queue or holds a guard exactly while its handler *)
(* waits for the lock or the provider.                                      *)
THEOREM RequestsTypeCorrect == RequestsSpec => []RequestsTypeOK
<1>1. RequestsInit => RequestTypes
  BY DEF RequestsInit, RequestTypes, Statuses
<1>2. RequestsSpec => []RequestTypes
  BY <1>1, RequestTypesStep, AllInvHolds, PTL DEF RequestsSpec
<1>3. AllInv /\ RequestTypes => RequestsTypeOK
  BY DEF AllInv, RequestsInv, RequestShape, RequestOK, InHandler, RequestTypes, RequestsTypeOK
<1> QED
  BY <1>2, <1>3, AllInvHolds, PTL

=============================================================================
