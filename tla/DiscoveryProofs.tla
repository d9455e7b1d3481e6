--------------------------- MODULE DiscoveryProofs ---------------------------
(***************************************************************************)
(* Theorems about the discovery task, for all providers and diffs, any     *)
(* number of handlers, and a shutdown at any point, and about the two      *)
(* systems that it is part of: the server that spawns it, from its         *)
(* configuration to its end, and the MCP server that reads what it writes, *)
(* for all kinds of entities.                                              *)
(***************************************************************************)
EXTENDS Discovery, Server, McpResource, TopologyProofs

-----------------------------------------------------------------------------
(* A diff, entity by entity.                                                *)

Prepends(h, t, s) ==
  /\ \A i \in DOMAIN s : s[i] = h \/ \E j \in DOMAIN t : t[j] = s[i]
  /\ \E i \in DOMAIN s : s[i] = h
  /\ \A j \in DOMAIN t : \E i \in DOMAIN s : s[i] = t[j]

LEMMA HeadAndTail ==
  ASSUME NEW S, NEW s \in Seq(S), s # <<>>
  PROVE  Head(s) \in S /\ Tail(s) \in Seq(S) /\ Prepends(Head(s), Tail(s), s)
<1>1. /\ Head(s) \in S /\ Head(s) = s[1] /\ Tail(s) \in Seq(S)
      /\ Len(Tail(s)) = Len(s) - 1 /\ Len(s) \in Nat /\ Len(s) # 0
      /\ \A i \in 1..Len(Tail(s)) : Tail(s)[i] = s[i + 1]
  BY HeadTailProperties, LenProperties, EmptySeq
<1>2. DOMAIN s = 1..Len(s) /\ DOMAIN Tail(s) = 1..(Len(s) - 1)
  BY <1>1, LenProperties
<1>3. ASSUME NEW i \in DOMAIN s
      PROVE  s[i] = Head(s) \/ \E j \in DOMAIN Tail(s) : Tail(s)[j] = s[i]
  <2>1. CASE i = 1
    BY <1>1, <2>1
  <2>2. CASE i # 1
    <3>1. i - 1 \in DOMAIN Tail(s) /\ Tail(s)[i - 1] = s[i]
      BY <1>1, <1>2, <2>2
    <3> QED
      BY <3>1
  <2> QED
    BY <2>1, <2>2
<1>4. 1 \in DOMAIN s
  BY <1>1, <1>2
<1>5. ASSUME NEW j \in DOMAIN Tail(s) PROVE \E i \in DOMAIN s : s[i] = Tail(s)[j]
  <2>1. j + 1 \in DOMAIN s /\ s[j + 1] = Tail(s)[j]
    BY <1>1, <1>2
  <2> QED
    BY <2>1
<1> QED
  BY <1>1, <1>3, <1>4, <1>5 DEF Prepends

(* The first removal, or the first addition once the removals are done, may *)
(* be taken ahead of the rest without a change of the outcome.              *)
LEMMA OutcomeOfRemove ==
  ASSUME NEW d \in Diff, d.remove # <<>>, NEW entities
  PROVE  LET rest == [d EXCEPT !.remove = Tail(@)] IN
         /\ rest \in Diff
         /\ Head(d.remove) \in EntityRefs
         /\ Outcome(entities \ {Head(d.remove)}, rest) = Outcome(entities, d)
<1> DEFINE rest == [d EXCEPT !.remove = Tail(@)]
<1>1. d.remove \in Seq(EntityRefs)
  BY DEF Diff
<1>2. /\ rest \in Diff /\ rest.remove = Tail(d.remove) /\ rest.components = d.components
      /\ rest.apps = d.apps /\ rest.areas = d.areas /\ Head(d.remove) \in EntityRefs
  BY <1>1, HeadAndTail DEF Diff
<1>3. {d.remove[i] : i \in DOMAIN d.remove}
        = {Head(d.remove)} \union {Tail(d.remove)[i] : i \in DOMAIN Tail(d.remove)}
  <2>1. Prepends(Head(d.remove), Tail(d.remove), d.remove)
    BY <1>1, HeadAndTail
  <2> QED
    BY <2>1 DEF Prepends
<1>4. Refs(rest) = Refs(d)
  BY <1>2 DEF Refs
<1> HIDE DEF rest
<1>5. Outcome(entities \ {Head(d.remove)}, rest) = Outcome(entities, d)
  BY <1>2, <1>3, <1>4 DEF Outcome
<1> QED
  BY <1>2, <1>5 DEF rest

LEMMA OutcomeOfComponent ==
  ASSUME NEW d \in Diff, d.remove = <<>>, d.components # <<>>, NEW entities
  PROVE  LET rest == [d EXCEPT !.components = Tail(@)] IN
         /\ rest \in Diff
         /\ Head(d.components)[1] \in Components
         /\ Head(d.components)[2] \in ComponentLinks[Head(d.components)[1]]
         /\ Outcome(entities \union {ComponentRef(Head(d.components)[1])}, rest)
              = Outcome(entities, d)
<1> DEFINE rest == [d EXCEPT !.components = Tail(@)]
           S == UNION {{c} \X ComponentLinks[c] : c \in Components}
<1>1. d.components \in Seq(S)
  BY DEF Diff
<1> HIDE DEF S
<1>2. Head(d.components) \in S /\ Tail(d.components) \in Seq(S)
  BY <1>1, HeadAndTail
<1>3. /\ Head(d.components)[1] \in Components
      /\ Head(d.components)[2] \in ComponentLinks[Head(d.components)[1]]
  BY <1>2 DEF S
<1>4. /\ rest \in Diff /\ rest.components = Tail(d.components) /\ rest.remove = <<>>
      /\ rest.apps = d.apps /\ rest.areas = d.areas
  BY <1>2 DEF Diff, S
<1>5. {ComponentRef(d.components[i][1]) : i \in DOMAIN d.components}
        = {ComponentRef(Head(d.components)[1])}
            \union {ComponentRef(Tail(d.components)[i][1]) : i \in DOMAIN Tail(d.components)}
  <2>1. Prepends(Head(d.components), Tail(d.components), d.components)
    BY <1>1, HeadAndTail
  <2> QED
    BY <2>1 DEF Prepends
<1> HIDE DEF rest
<1>6. Refs(d) = {ComponentRef(Head(d.components)[1])} \union Refs(rest)
  BY <1>4, <1>5 DEF Refs
<1>7. Outcome(entities \union {ComponentRef(Head(d.components)[1])}, rest) = Outcome(entities, d)
  BY <1>4, <1>6 DEF Outcome
<1> QED
  BY <1>3, <1>4, <1>7 DEF rest

LEMMA OutcomeOfApp ==
  ASSUME NEW d \in Diff, d.remove = <<>>, d.apps # <<>>, NEW entities
  PROVE  LET rest == [d EXCEPT !.apps = Tail(@)] IN
         /\ rest \in Diff
         /\ Head(d.apps)[1] \in Apps
         /\ Head(d.apps)[2] \in AppLinks[Head(d.apps)[1]]
         /\ Outcome(entities \union {AppRef(Head(d.apps)[1])}, rest) = Outcome(entities, d)
<1> DEFINE rest == [d EXCEPT !.apps = Tail(@)]
           S == UNION {{p} \X AppLinks[p] : p \in Apps}
<1>1. d.apps \in Seq(S)
  BY DEF Diff
<1> HIDE DEF S
<1>2. Head(d.apps) \in S /\ Tail(d.apps) \in Seq(S)
  BY <1>1, HeadAndTail
<1>3. Head(d.apps)[1] \in Apps /\ Head(d.apps)[2] \in AppLinks[Head(d.apps)[1]]
  BY <1>2 DEF S
<1>4. /\ rest \in Diff /\ rest.apps = Tail(d.apps) /\ rest.remove = <<>>
      /\ rest.components = d.components /\ rest.areas = d.areas
  BY <1>2 DEF Diff, S
<1>5. {AppRef(d.apps[i][1]) : i \in DOMAIN d.apps}
        = {AppRef(Head(d.apps)[1])} \union {AppRef(Tail(d.apps)[i][1]) : i \in DOMAIN Tail(d.apps)}
  <2>1. Prepends(Head(d.apps), Tail(d.apps), d.apps)
    BY <1>1, HeadAndTail
  <2> QED
    BY <2>1 DEF Prepends
<1> HIDE DEF rest
<1>6. Refs(d) = {AppRef(Head(d.apps)[1])} \union Refs(rest)
  BY <1>4, <1>5 DEF Refs
<1>7. Outcome(entities \union {AppRef(Head(d.apps)[1])}, rest) = Outcome(entities, d)
  BY <1>4, <1>6 DEF Outcome
<1> QED
  BY <1>3, <1>4, <1>7 DEF rest

LEMMA OutcomeOfArea ==
  ASSUME NEW d \in Diff, d.remove = <<>>, d.areas # <<>>, NEW entities
  PROVE  LET rest == [d EXCEPT !.areas = Tail(@)] IN
         /\ rest \in Diff
         /\ Head(d.areas) \in Areas
         /\ Outcome(entities \union {AreaRef(Head(d.areas))}, rest) = Outcome(entities, d)
<1> DEFINE rest == [d EXCEPT !.areas = Tail(@)]
<1>1. d.areas \in Seq(Areas)
  BY DEF Diff
<1>2. Head(d.areas) \in Areas /\ Tail(d.areas) \in Seq(Areas)
  BY <1>1, HeadAndTail
<1>3. /\ rest \in Diff /\ rest.areas = Tail(d.areas) /\ rest.remove = <<>>
      /\ rest.components = d.components /\ rest.apps = d.apps
  BY <1>2 DEF Diff
<1>4. {AreaRef(d.areas[i]) : i \in DOMAIN d.areas}
        = {AreaRef(Head(d.areas))} \union {AreaRef(Tail(d.areas)[i]) : i \in DOMAIN Tail(d.areas)}
  <2>1. Prepends(Head(d.areas), Tail(d.areas), d.areas)
    BY <1>1, HeadAndTail
  <2> QED
    BY <2>1 DEF Prepends
<1> HIDE DEF rest
<1>5. Refs(d) = {AreaRef(Head(d.areas))} \union Refs(rest)
  BY <1>3, <1>4 DEF Refs
<1>6. Outcome(entities \union {AreaRef(Head(d.areas))}, rest) = Outcome(entities, d)
  BY <1>3, <1>5 DEF Outcome
<1> QED
  BY <1>2, <1>3, <1>6 DEF rest

LEMMA OutcomeOfEmpty == \A entities : Outcome(entities, EmptyDiff) = entities
BY DEF Outcome, Refs, EmptyDiff

-----------------------------------------------------------------------------
(* The task is one of the writers of the topology, the handlers readers.    *)

(* RemoveEntity is one of the guard's methods, or nothing.                  *)
LEMMA RemoveEntityShape ==
  ASSUME NEW ref, RemoveEntity(ref)
  PROVE  /\ Mutate(Task) \/ UNCHANGED vars
         /\ TypeOK => Present' = Present \ {ref}
<1>1. ASSUME NEW c \in Components, ref = ComponentRef(c), GuardRemoveComponent(Task, c)
      PROVE  Mutate(Task) /\ (TypeOK => Present' = Present \ {ref})
  BY <1>1, MethodsPresent DEF GuardRemoveComponent, Mutate
<1>2. ASSUME NEW p \in Apps, ref = AppRef(p), GuardRemoveApp(Task, p)
      PROVE  Mutate(Task) /\ (TypeOK => Present' = Present \ {ref})
  BY <1>2, MethodsPresent DEF GuardRemoveApp, Mutate
<1>3. ASSUME NEW a \in Areas, ref = AreaRef(a), GuardRemoveArea(Task, a)
      PROVE  Mutate(Task) /\ (TypeOK => Present' = Present \ {ref})
  BY <1>3, MethodsPresent DEF GuardRemoveArea, Mutate
<1>4. ASSUME ref \notin Present, UNCHANGED vars PROVE Present' = Present \ {ref}
  <2>1. Present' = Present
    BY <1>4, PresentUnchanged DEF vars
  <2> QED
    BY <1>4, <2>1
<1> QED
  BY <1>1, <1>2, <1>3, <1>4 DEF RemoveEntity

(* The additions that the task makes of a diff are those of the guard.      *)
LEMMA AdditionShape ==
  ASSUME todo \in Diff, ApplyComponent \/ ApplyApp \/ ApplyArea
  PROVE  Mutate(Task)
<1>1. CASE ApplyComponent
  BY <1>1, OutcomeOfComponent DEF ApplyComponent, Mutate
<1>2. CASE ApplyApp
  BY <1>2, OutcomeOfApp DEF ApplyApp, Mutate
<1>3. CASE ApplyArea
  BY <1>3, OutcomeOfArea DEF ApplyArea, Mutate
<1> QED
  BY <1>1, <1>2, <1>3

LEMMA DiscoveryStepTopology ==
  ASSUME todo \in Diff, [DiscoveryNext]_discoveryVars
  PROVE  [Next]_vars
<1> USE TaskAssumption
<1>1. CASE Spawn \/ ShutdownFires
  BY <1>1 DEF Spawn, ShutdownFires
<1>2. CASE Handlers
  BY <1>2 DEF Handlers, Handler, Next, ReaderStep
<1>3. CASE UNCHANGED discoveryVars
  BY <1>3 DEF discoveryVars
<1>4. CASE RunDiscovery
  <2>1. CASE \/ \E p \in Providers : Discover(p) \/ TakeError(p) \/ StreamEnds(p)
             \/ StartMerging \/ StopAtNext
    BY <2>1 DEF Discover, TakeError, StreamEnds, StartMerging, StopAtNext
  <2>2. CASE \E p \in Providers : \E e \in Diffs : TakeDiff(p, e)
    BY <2>2 DEF TakeDiff, Next, WriterStep
  <2>3. CASE LockGranted \/ DiffApplied \/ FlushEvent \/ FlushDone \/ StopAtLock
    BY <2>3 DEF LockGranted, DiffApplied, FlushEvent, FlushDone, StopAtLock, Next, WriterStep
  <2>4. CASE ApplyRemove
    BY <2>4, RemoveEntityShape DEF ApplyRemove, Next, WriterStep
  <2>5. CASE ApplyComponent \/ ApplyApp \/ ApplyArea
    BY <2>5, AdditionShape DEF Next, WriterStep
  <2> QED
    BY <1>4, <2>1, <2>2, <2>3, <2>4, <2>5 DEF RunDiscovery
<1> QED
  BY <1>1, <1>2, <1>3, <1>4 DEF DiscoveryNext, TaskStep

-----------------------------------------------------------------------------
(* Types.                                                                   *)

LEMMA EmptyDiffType == EmptyDiff \in Diff
BY DEF EmptyDiff, Diff

LEMMA DiscoveryTypeInit == DiscoveryInit => DiscoveryTypeOK
<1> SUFFICES ASSUME DiscoveryInit PROVE DiscoveryTypeOK
  OBVIOUS
<1>1. items \in 0..MaxItems
  BY ItemsAssumption DEF DiscoveryInit
<1>2. shutdown \in BOOLEAN
  BY DEF DiscoveryInit
<1> QED
  BY <1>1, <1>2, EmptyDiffType DEF DiscoveryInit, DiscoveryTypeOK, Phases

LEMMA ExpectedType ==
  ASSUME NEW d \in Diff, NEW entities \in SUBSET EntityRefs
  PROVE  Outcome(entities, d) \in SUBSET EntityRefs
<1> DEFINE C == UNION {{c} \X ComponentLinks[c] : c \in Components}
           A == UNION {{p} \X AppLinks[p] : p \in Apps}
<1>1. d.components \in Seq(C) /\ d.apps \in Seq(A) /\ d.areas \in Seq(Areas)
  BY DEF Diff
<1>2. /\ \A x \in C : x[1] \in Components
      /\ \A x \in A : x[1] \in Apps
  OBVIOUS
<1> HIDE DEF C, A
<1>3. /\ \A i \in DOMAIN d.components : d.components[i] \in C
      /\ \A i \in DOMAIN d.apps : d.apps[i] \in A
      /\ \A i \in DOMAIN d.areas : d.areas[i] \in Areas
  BY <1>1
<1>4. Refs(d) \in SUBSET EntityRefs
  BY <1>2, <1>3 DEF Refs, EntityRefs
<1> QED
  BY <1>4 DEF Outcome

LEMMA DiscoveryTypeStep ==
  DiscoveryTypeOK /\ [DiscoveryNext]_discoveryVars => DiscoveryTypeOK'
<1> SUFFICES ASSUME DiscoveryTypeOK, [DiscoveryNext]_discoveryVars PROVE DiscoveryTypeOK'
  OBVIOUS
<1> USE ItemsAssumption DEF DiscoveryTypeOK, Phases
<1>1. CASE Spawn \/ ShutdownFires
  BY <1>1 DEF Spawn, ShutdownFires
<1>2. CASE Handlers \/ UNCHANGED discoveryVars
  BY <1>2 DEF Handlers, discoveryVars, taskVars
<1>3. ASSUME NEW p \in Providers, Discover(p) \/ TakeError(p) \/ StreamEnds(p)
      PROVE  DiscoveryTypeOK'
  BY <1>3 DEF Discover, TakeError, StreamEnds
<1>4. ASSUME NEW p \in Providers, NEW d \in Diffs, TakeDiff(p, d) PROVE DiscoveryTypeOK'
  BY <1>4, DiffsAssumption DEF TakeDiff
<1>5. CASE StartMerging \/ DiffApplied \/ FlushDone
  BY <1>5 DEF StartMerging, DiffApplied, FlushDone
<1>6. CASE FlushEvent
  BY <1>6 DEF FlushEvent, taskVars
<1>7. CASE LockGranted
  BY <1>7, ExpectedType DEF LockGranted
<1>8. CASE StopAtNext \/ StopAtLock
  BY <1>8, EmptyDiffType DEF StopAtNext, StopAtLock
<1>9. CASE ApplyRemove
  BY <1>9, OutcomeOfRemove DEF ApplyRemove
<1>10. CASE ApplyComponent
  BY <1>10, OutcomeOfComponent DEF ApplyComponent
<1>11. CASE ApplyApp
  BY <1>11, OutcomeOfApp DEF ApplyApp
<1>12. CASE ApplyArea
  BY <1>12, OutcomeOfArea DEF ApplyArea
<1> QED
  BY <1>1, <1>2, <1>3, <1>4, <1>5, <1>6, <1>7, <1>8, <1>9, <1>10, <1>11, <1>12
     DEF DiscoveryNext, TaskStep, RunDiscovery

(* Whatever providers do, the topology is used only through its guards:     *)
(* what is proved of the topology holds next to the discovery task.         *)
THEOREM DiscoveryImplementsTopology == DiscoverySpec => Spec
<1>1. DiscoveryInit => Init
  BY DEF DiscoveryInit
<1>2. DiscoveryTypeOK /\ [DiscoveryNext]_discoveryVars => [Next]_vars
  BY DiscoveryStepTopology DEF DiscoveryTypeOK
<1> QED
  BY <1>1, <1>2, DiscoveryTypeInit, DiscoveryTypeStep, PTL DEF DiscoverySpec, Spec

(* The task does not touch the handlers, nor does it spawn itself again.    *)
LEMMA TaskLeavesHandlers ==
  ASSUME TopologyTypeOK, DiscoveryTypeOK, RunDiscovery
  PROVE  /\ \A r \in Readers : mode'[r] = mode[r]
         /\ phase # "unspawned"
<1> USE TaskAssumption, TasksAssumption
<1>type. Task \in Tasks /\ Task \notin Readers /\ mode \in [Tasks -> Modes] /\ Readers \subseteq Tasks
  BY DEF Tasks, TopologyTypeOK
<1>1. CASE \E p \in Providers : Discover(p) \/ TakeError(p) \/ StreamEnds(p)
  BY <1>1 DEF Discover, TakeError, StreamEnds, vars, lockVars
<1>2. CASE \E p \in Providers : \E d \in Diffs : TakeDiff(p, d)
  BY <1>2, <1>type DEF TakeDiff, Request
<1>3. CASE StartMerging \/ StopAtNext
  BY <1>3 DEF StartMerging, StopAtNext, vars, lockVars
<1>4. CASE LockGranted \/ DiffApplied \/ FlushEvent \/ FlushDone \/ StopAtLock
  BY <1>4, <1>type DEF LockGranted, GrantWrite, DiffApplied, DropWriteGuard, FlushEvent, SendEvent,
                       FlushDone, Unlock, StopAtLock, CancelWait, lockVars
<1>5. CASE ApplyRemove
  BY <1>5, RemoveEntityShape, MutateShape DEF ApplyRemove, Batch, vars, lockVars
<1>6. CASE ApplyComponent \/ ApplyApp \/ ApplyArea
  <2>1. Mutate(Task)
    BY <1>6, AdditionShape DEF DiscoveryTypeOK
  <2> QED
    BY <1>6, <2>1, MutateShape DEF Batch, lockVars, ApplyComponent, ApplyApp, ApplyArea
<1> QED
  BY <1>1, <1>2, <1>3, <1>4, <1>5, <1>6 DEF RunDiscovery

-----------------------------------------------------------------------------
(* The task and the lock.                                                   *)

(* Where the task is tells what it does with the lock.                      *)
TaskInv ==
  /\ phase \in {"unspawned", "starting", "next", "ended"} => mode[Task] = "idle"
  /\ phase = "lock" => mode[Task] = "waiting"
  /\ phase = "apply" => mode[Task] = "writing"
  /\ phase = "flush" => mode[Task] = "dropping"

(* What is left of the diff leads from the entities there are to those      *)
(* expected; without a diff in hand there is nothing left.                  *)
DiffInv ==
  /\ phase = "apply" => Outcome(Present, todo) = expected
  /\ phase # "apply" => Present = expected

DiscoveryInv == TopologyTypeOK /\ LockInv /\ DiscoveryTypeOK /\ TaskInv /\ DiffInv

LEMMA DiscoveryInvInit == DiscoveryInit => DiscoveryInv
<1> SUFFICES ASSUME DiscoveryInit PROVE DiscoveryInv
  OBVIOUS
<1>1. Init
  BY DEF DiscoveryInit
<1>2. TaskInv
  BY <1>1, TaskAssumption DEF DiscoveryInit, Init, TaskInv, Tasks
<1>3. Present = {}
  BY <1>1 DEF Init, StateInit, Present, ComponentsPresent, AppsPresent
<1> QED
  BY <1>1, <1>2, <1>3, TopologyTypeInit, LockInvInit, DiscoveryTypeInit
     DEF DiscoveryInv, DiffInv, DiscoveryInit

(* A handler leaves the task's mode and the entities alone.                 *)
LEMMA HandlerLeavesTask ==
  ASSUME TopologyTypeOK, NEW r \in Readers, Handler(r)
  PROVE  mode'[Task] = mode[Task] /\ Present' = Present
<1> USE TaskAssumption, TasksAssumption DEF TopologyTypeOK, Tasks
<1>1. mode'[Task] = mode[Task] /\ UNCHANGED stateVars
  BY DEF Handler, Request, CancelWait, GrantRead, DropReadGuard
<1> QED
  BY <1>1, PresentUnchanged

LEMMA TaskInvStep ==
  TopologyTypeOK /\ DiscoveryTypeOK /\ TaskInv /\ [DiscoveryNext]_discoveryVars => TaskInv'
<1> SUFFICES ASSUME TopologyTypeOK, DiscoveryTypeOK, TaskInv, [DiscoveryNext]_discoveryVars
             PROVE  TaskInv'
  OBVIOUS
<1> USE TaskAssumption DEF TaskInv
<1>type. Task \in Tasks /\ mode \in [Tasks -> Modes]
  BY DEF Tasks, TopologyTypeOK
<1>1. CASE Spawn \/ ShutdownFires
  BY <1>1 DEF Spawn, ShutdownFires, vars, lockVars
<1>2. CASE Handlers
  BY <1>2, HandlerLeavesTask DEF Handlers, taskVars
<1>3. CASE UNCHANGED discoveryVars
  BY <1>3 DEF discoveryVars, vars, lockVars, taskVars
<1>4. ASSUME NEW p \in Providers, Discover(p) \/ TakeError(p) \/ StreamEnds(p) PROVE TaskInv'
  BY <1>4 DEF Discover, TakeError, StreamEnds, vars, lockVars
<1>5. ASSUME NEW p \in Providers, NEW d \in Diffs, TakeDiff(p, d) PROVE TaskInv'
  BY <1>5, <1>type DEF TakeDiff, Request
<1>6. CASE StartMerging \/ StopAtNext
  BY <1>6 DEF StartMerging, StopAtNext, vars, lockVars
<1>7. CASE LockGranted
  BY <1>7, <1>type DEF LockGranted, GrantWrite
<1>8. CASE ApplyRemove
  <2>1. mode' = mode
    BY <1>8, RemoveEntityShape, MutateShape DEF ApplyRemove, Batch, vars, lockVars
  <2> QED
    BY <1>8, <2>1 DEF ApplyRemove
<1>9. CASE ApplyComponent \/ ApplyApp \/ ApplyArea
  <2>1. mode' = mode
    BY <1>9, AdditionShape, MutateShape DEF DiscoveryTypeOK, Batch, lockVars
  <2> QED
    BY <1>9, <2>1 DEF ApplyComponent, ApplyApp, ApplyArea
<1>10. CASE DiffApplied
  BY <1>10, <1>type DEF DiffApplied, DropWriteGuard
<1>11. CASE FlushEvent
  BY <1>11 DEF FlushEvent, SendEvent, lockVars, taskVars
<1>12. CASE FlushDone
  BY <1>12, <1>type DEF FlushDone, Unlock
<1>13. CASE StopAtLock
  BY <1>13, <1>type DEF StopAtLock, CancelWait
<1> QED
  BY <1>1, <1>2, <1>3, <1>4, <1>5, <1>6, <1>7, <1>8, <1>9, <1>10, <1>11, <1>12, <1>13
     DEF DiscoveryNext, TaskStep, RunDiscovery

LEMMA DiffInvStep ==
  TopologyTypeOK /\ DiscoveryTypeOK /\ DiffInv /\ [DiscoveryNext]_discoveryVars => DiffInv'
<1> SUFFICES ASSUME TopologyTypeOK, DiscoveryTypeOK, DiffInv, [DiscoveryNext]_discoveryVars
             PROVE  DiffInv'
  OBVIOUS
<1>type. TypeOK /\ todo \in Diff
  BY DEF TopologyTypeOK, DiscoveryTypeOK
<1>same. UNCHANGED stateVars => Present' = Present
  BY PresentUnchanged
<1> USE DEF DiffInv
<1>1. CASE Spawn \/ ShutdownFires
  BY <1>1, <1>same DEF Spawn, ShutdownFires, vars
<1>2. CASE Handlers
  BY <1>2, HandlerLeavesTask DEF Handlers, taskVars
<1>3. CASE UNCHANGED discoveryVars
  BY <1>3, <1>same DEF discoveryVars, vars, taskVars
<1>4. ASSUME NEW p \in Providers, Discover(p) \/ TakeError(p) \/ StreamEnds(p) PROVE DiffInv'
  BY <1>4, <1>same DEF Discover, TakeError, StreamEnds, vars
<1>5. ASSUME NEW p \in Providers, NEW d \in Diffs, TakeDiff(p, d) PROVE DiffInv'
  BY <1>5, <1>same DEF TakeDiff, Request
<1>6. CASE StartMerging \/ StopAtNext
  BY <1>6, <1>same DEF StartMerging, StopAtNext, vars
<1>7. CASE LockGranted
  BY <1>7, <1>same DEF LockGranted, GrantWrite
<1>8. CASE ApplyRemove
  <2>1. Present' = Present \ {Head(todo.remove)}
    BY <1>8, <1>type, RemoveEntityShape DEF ApplyRemove
  <2>2. Outcome(Present', todo') = Outcome(Present, todo)
    BY <1>8, <1>type, <2>1, OutcomeOfRemove DEF ApplyRemove
  <2> QED
    BY <1>8, <2>2 DEF ApplyRemove
<1>9. CASE ApplyComponent
  <2>1. Present' = Present \union {ComponentRef(Head(todo.components)[1])}
    BY <1>9, <1>type, OutcomeOfComponent, MethodsPresent DEF ApplyComponent, AddComponent
  <2>2. Outcome(Present', todo') = Outcome(Present, todo)
    BY <1>9, <1>type, <2>1, OutcomeOfComponent DEF ApplyComponent
  <2> QED
    BY <1>9, <2>2 DEF ApplyComponent
<1>10. CASE ApplyApp
  <2>1. Present' = Present \union {AppRef(Head(todo.apps)[1])}
    BY <1>10, <1>type, OutcomeOfApp, MethodsPresent DEF ApplyApp, AddApp
  <2>2. Outcome(Present', todo') = Outcome(Present, todo)
    BY <1>10, <1>type, <2>1, OutcomeOfApp DEF ApplyApp
  <2> QED
    BY <1>10, <2>2 DEF ApplyApp
<1>11. CASE ApplyArea
  <2>1. Present' = Present \union {AreaRef(Head(todo.areas))}
    BY <1>11, <1>type, OutcomeOfArea, MethodsPresent DEF ApplyArea, AddArea
  <2>2. Outcome(Present', todo') = Outcome(Present, todo)
    BY <1>11, <1>type, <2>1, OutcomeOfArea DEF ApplyArea
  <2> QED
    BY <1>11, <2>2 DEF ApplyArea
<1>12. CASE DiffApplied
  BY <1>12, <1>same, OutcomeOfEmpty DEF DiffApplied, DropWriteGuard
<1>13. CASE FlushEvent
  BY <1>13, <1>same DEF FlushEvent, SendEvent, taskVars
<1>14. CASE FlushDone \/ StopAtLock
  BY <1>14, <1>same DEF FlushDone, Unlock, StopAtLock, CancelWait
<1> QED
  BY <1>1, <1>2, <1>3, <1>4, <1>5, <1>6, <1>7, <1>8, <1>9, <1>10, <1>11, <1>12, <1>13, <1>14
     DEF DiscoveryNext, TaskStep, RunDiscovery

LEMMA DiscoveryInvStep == DiscoveryInv /\ [DiscoveryNext]_discoveryVars => DiscoveryInv'
<1>1. DiscoveryTypeOK /\ [DiscoveryNext]_discoveryVars => [Next]_vars
  BY DiscoveryStepTopology DEF DiscoveryTypeOK
<1> QED
  BY <1>1, TopologyTypeStep, LockInvStep, DiscoveryTypeStep, TaskInvStep, DiffInvStep
     DEF DiscoveryInv

LEMMA DiscoveryInvHolds == DiscoverySpec => []DiscoveryInv
<1> QED
  BY DiscoveryInvInit, DiscoveryInvStep, PTL DEF DiscoverySpec

(* The task never ends, or waits for its streams, with the lock or a place  *)
(* in its queue, wherever the shutdown finds it.                            *)
THEOREM EndsWithoutLockHolds == DiscoverySpec => []EndsWithoutLock
<1>1. DiscoveryInv => EndsWithoutLock
  BY DEF DiscoveryInv, TaskInv, EndsWithoutLock
<1> QED
  BY <1>1, DiscoveryInvHolds, PTL

(* No handler ever sees a diff half applied, and none is left so, however   *)
(* long the diffs, whatever they remove and add, and whenever the shutdown  *)
(* ends the task.                                                           *)
THEOREM DiffsAreAtomicHolds == DiscoverySpec => []DiffsAreAtomic
<1>1. DiscoveryInv => DiffsAreAtomic
  <2> SUFFICES ASSUME DiscoveryInv, (\E r \in Readers : HoldsRead(r)) \/ phase = "ended"
               PROVE  Present = expected
    BY DEF DiffsAreAtomic
  <2>1. phase # "apply"
    BY TaskAssumption DEF DiscoveryInv, TaskInv, LockInv, WriteLocked, HoldsWrite
  <2> QED
    BY <2>1 DEF DiscoveryInv, DiffInv
<1> QED
  BY <1>1, DiscoveryInvHolds, PTL

-----------------------------------------------------------------------------
(* The server uses the discovery task as it is.                             *)

LEMMA ServerStepDiscovery ==
  [ServerNext]_serverVars => [DiscoveryNext]_discoveryVars
<1> SUFFICES ASSUME [ServerNext]_serverVars PROVE [DiscoveryNext]_discoveryVars
  OBVIOUS
<1>1. CASE ConfigureListener \/ BuildServer \/ ConfigurationFails \/ NotifyReadiness
             \/ Listen \/ ServeFails \/ Drain \/ Drained
  BY <1>1 DEF ConfigureListener, BuildServer, ConfigurationFails, NotifyReadiness,
              Listen, ServeFails, Drain, Drained
<1>2. CASE Serve
  BY <1>2 DEF Serve, DiscoveryNext, TaskStep
<1>3. CASE ShutdownSeen
  BY <1>3 DEF ShutdownSeen, DiscoveryNext
<1>4. ASSUME NEW r \in Readers, Handle(r) PROVE [DiscoveryNext]_discoveryVars
  BY <1>4 DEF Handle, Handler, Handlers, DiscoveryNext
<1>5. CASE RunDiscovery
  BY <1>5 DEF DiscoveryNext, TaskStep
<1>6. CASE UNCHANGED serverVars
  BY <1>6 DEF serverVars
<1> QED
  BY <1>1, <1>2, <1>3, <1>4, <1>5, <1>6 DEF ServerNext

(* The server spawns the task once and then lets it run: what is proved of  *)
(* the discovery task holds in a server, also in one that fails.            *)
THEOREM ServerImplementsDiscovery == ServerSpec => DiscoverySpec
<1>1. ServerInit => DiscoveryInit
  BY DEF ServerInit
<1> QED
  BY <1>1, ServerStepDiscovery, PTL DEF ServerSpec, DiscoverySpec

-----------------------------------------------------------------------------
(* What has been settled at each point of the program's life.               *)

AnyRequest == \E r \in Readers : mode[r] # "idle"

BootInv ==
  /\ boot \in BootStates
  /\ listener \in Listeners \union {NoListener}
  /\ tls \in BOOLEAN
  /\ boot \in {"bound", "built", "ready", "starting", "serving", "draining", "stopped"}
       => listener # NoListener
  /\ notified => listener # NoListener
  /\ boot \in {"ready", "starting", "serving", "draining", "stopped"} => notified
  /\ boot \in {"serving", "draining"} => ~(tls /\ listener = "Unix")
  /\ phase # "unspawned" => boot \in {"starting", "serving", "draining", "stopped", "failed"}
  /\ AnyRequest => boot \in {"serving", "draining"}

ServerInv == DiscoveryInv /\ QueueInv /\ BootInv

LEMMA ServerInvInit == ServerInit => ServerInv
<1> SUFFICES ASSUME ServerInit PROVE ServerInv
  OBVIOUS
<1>1. DiscoveryInit /\ Init
  BY DEF ServerInit, DiscoveryInit
<1>2. QueueInv
  BY <1>1 DEF Init, QueueInv
<1>3. ~AnyRequest
  BY <1>1 DEF Init, AnyRequest, Tasks
<1>4. boot \in BootStates /\ tls \in BOOLEAN
  BY DEF ServerInit, BootStates
<1> QED
  BY <1>1, <1>2, <1>3, <1>4, DiscoveryInvInit DEF ServerInit, DiscoveryInit, ServerInv, BootInv

(* Only a server that serves lets a request in; a step of another handler   *)
(* is one of a request that was there before.                               *)
LEMMA HandleNeedsRequest ==
  ASSUME TopologyTypeOK, QueueInv, NEW r \in Readers, Handle(r)
  PROVE  boot = "serving" \/ AnyRequest
<1>1. CASE GrantRead(r)
  <2>1. queue \in Seq(Tasks) /\ queue # <<>> /\ queue[1] = r /\ 1 \in DOMAIN queue
    BY <1>1, HeadAndTail DEF GrantRead, TopologyTypeOK
  <2>2. mode[r] = "waiting"
    BY <2>1 DEF QueueInv
  <2> QED
    BY <2>2 DEF AnyRequest
<1>2. CASE CancelWait(r) \/ DropReadGuard(r)
  BY <1>2 DEF CancelWait, DropReadGuard, HoldsRead, AnyRequest
<1> QED
  BY <1>1, <1>2 DEF Handle

LEMMA BootInvStep ==
  TopologyTypeOK /\ DiscoveryTypeOK /\ QueueInv /\ BootInv /\ [ServerNext]_serverVars => BootInv'
<1> SUFFICES ASSUME TopologyTypeOK, DiscoveryTypeOK, QueueInv, BootInv, [ServerNext]_serverVars
             PROVE  BootInv'
  OBVIOUS
<1>same. mode' = mode => (AnyRequest' <=> AnyRequest)
  BY DEF AnyRequest
<1> USE DEF BootInv, BootStates, Listeners, NoListener
<1>1. CASE ConfigureListener \/ BuildServer \/ ConfigurationFails \/ NotifyReadiness
             \/ Listen \/ ServeFails \/ Drain
  BY <1>1, <1>same DEF ConfigureListener, BuildServer, ConfigurationFails, NotifyReadiness,
              Listen, ServeFails, Drain, discoveryVars, taskVars, vars, lockVars
<1>2. CASE Drained
  <2>1. ~AnyRequest
    BY <1>2 DEF Drained, AnyRequest
  <2> QED
    BY <1>2, <2>1, <1>same DEF Drained, discoveryVars, taskVars, vars, lockVars
<1>3. CASE Serve
  BY <1>3, <1>same DEF Serve, Spawn, discoveryVars, taskVars, vars, lockVars
<1>4. CASE ShutdownSeen
  BY <1>4, <1>same DEF ShutdownSeen, ShutdownFires, bootVars, vars, lockVars
<1>5. ASSUME NEW r \in Readers, Handle(r) PROVE BootInv'
  <2>1. boot \in {"serving", "draining"}
    BY <1>5, HandleNeedsRequest
  <2> QED
    BY <1>5, <2>1 DEF Handle, bootVars, taskVars
<1>6. CASE RunDiscovery /\ UNCHANGED bootVars
  <2>1. (AnyRequest' <=> AnyRequest) /\ phase # "unspawned"
    BY <1>6, TaskLeavesHandlers DEF AnyRequest
  <2> QED
    BY <1>6, <2>1 DEF bootVars
<1>7. CASE UNCHANGED serverVars
  BY <1>7, <1>same DEF serverVars, bootVars, discoveryVars, taskVars, vars, lockVars
<1> QED
  BY <1>1, <1>2, <1>3, <1>4, <1>5, <1>6, <1>7 DEF ServerNext

LEMMA ServerInvStep == ServerInv /\ [ServerNext]_serverVars => ServerInv'
<1>1. DiscoveryTypeOK /\ [ServerNext]_serverVars => [Next]_vars
  BY ServerStepDiscovery, DiscoveryStepTopology DEF DiscoveryTypeOK
<1> QED
  BY <1>1, ServerStepDiscovery, DiscoveryInvStep, QueueInvStep, BootInvStep
     DEF ServerInv, DiscoveryInv

LEMMA ServerInvHolds == ServerSpec => []ServerInv
<1> QED
  BY ServerInvInit, ServerInvStep, PTL DEF ServerSpec

(* Types; readiness implies a socket, and a discovery task a serve().       *)
THEOREM ServerTypeCorrect == ServerSpec => []ServerTypeOK
<1>1. ServerInv => ServerTypeOK
  BY DEF ServerInv, DiscoveryInv, BootInv, ServerTypeOK
<1> QED
  BY <1>1, ServerInvHolds, PTL

(* A request is in the hands only of a server that serves or drains, after  *)
(* readiness was notified, and never over a Unix socket that was to have    *)
(* TLS.                                                                     *)
THEOREM ServesAsConfiguredHolds == ServerSpec => []ServesAsConfigured
<1>1. ServerInv => ServesAsConfigured
  BY DEF ServerInv, BootInv, AnyRequest, ServesAsConfigured
<1> QED
  BY <1>1, ServerInvHolds, PTL

-----------------------------------------------------------------------------
(* The MCP server is one more client of the handlers.                       *)

LEMMA McpStepDiscovery == [McpNext]_systemVars => [DiscoveryNext]_discoveryVars
<1> SUFFICES ASSUME [McpNext]_systemVars PROVE [DiscoveryNext]_discoveryVars
  OBVIOUS
<1>1. CASE ServiceStarts \/ ServiceStops \/ \E uri \in Uris : ReadResource(uri)
  BY <1>1 DEF ServiceStarts, ServiceStops, ReadResource, Join
<1>2. ASSUME NEW r \in Readers, CallTool(r) \/ ReceiveList(r) \/ ListFails(r)
      PROVE  [DiscoveryNext]_discoveryVars
  BY <1>2 DEF CallTool, Join, ReceiveList, ListFails
<1>3. ASSUME NEW r \in Readers, HandleList(r) \/ LockForList(r) \/ AnswerList(r) \/ HandlerCancelled(r)
      PROVE  [DiscoveryNext]_discoveryVars
  BY <1>3 DEF HandleList, LockForList, AnswerList, HandlerCancelled, Handler, Handlers, DiscoveryNext
<1>4. CASE TaskStep
  BY <1>4 DEF DiscoveryNext
<1>5. CASE UNCHANGED systemVars
  BY <1>5 DEF systemVars
<1> QED
  BY <1>1, <1>2, <1>3, <1>4, <1>5 DEF McpNext

(* A list is of a version since the read began as soon as its handler has   *)
(* answered, because a reader reads what is committed (RefinementInv), and  *)
(* because a handler works only for a request of this read.                 *)
McpInv ==
  /\ wanted \subseteq Readers
  /\ DOMAIN request = Readers /\ DOMAIN list = Readers
  /\ \A r \in Readers : mode[r] # "idle" => request[r] = "sent"
  /\ resource = "joining" => committed.entities \in versions
  /\ resource = "ok" => \A r \in wanted : request[r] = "received"
  /\ resource \in {"joining", "ok"} =>
       \A r \in wanted : request[r] \in {"answered", "received"} =>
         \E entities \in versions : list[r] = Slice(entities, KindOf[r])

SystemInv == DiscoveryInv /\ QueueInv /\ EventsInv /\ McpInv

LEMMA SystemInvInit == McpInit => SystemInv
<1> SUFFICES ASSUME McpInit PROVE SystemInv
  OBVIOUS
<1>1. DiscoveryInit /\ Init
  BY DEF McpInit, DiscoveryInit
<1>2. QueueInv
  BY <1>1 DEF Init, QueueInv
<1>3. McpInv
  BY <1>1 DEF McpInit, Init, McpInv, Tasks
<1> QED
  BY <1>1, <1>2, <1>3, DiscoveryInvInit, EventsInvInit DEF SystemInv

LEMMA McpInvStep ==
  SystemInv /\ [McpNext]_systemVars => McpInv'
<1> SUFFICES ASSUME SystemInv, [McpNext]_systemVars PROVE McpInv'
  OBVIOUS
<1>inv. McpInv /\ TopologyTypeOK /\ LockInv /\ DiscoveryTypeOK /\ QueueInv /\ EventsInv
  BY DEF SystemInv, DiscoveryInv
<1>type. mode \in [Tasks -> Modes] /\ Readers \subseteq Tasks /\ queue \in Seq(Tasks)
  BY <1>inv DEF TopologyTypeOK, Tasks
<1> USE <1>inv DEF McpInv
<1>1. CASE ServiceStarts \/ ServiceStops
  BY <1>1 DEF ServiceStarts, ServiceStops, discoveryVars, vars, lockVars
<1>2. ASSUME NEW requests \in SUBSET Readers, Join(requests) PROVE McpInv'
  BY <1>2 DEF Join, discoveryVars, vars, lockVars
<1>3. ASSUME NEW uri \in Uris, ReadResource(uri) PROVE McpInv'
  BY <1>2, <1>3 DEF ReadResource, discoveryVars, vars, lockVars
<1>4. ASSUME NEW r \in Readers, CallTool(r) PROVE McpInv'
  BY <1>2, <1>4 DEF CallTool
<1>5. ASSUME NEW r \in Readers, ReceiveList(r) PROVE McpInv'
  BY <1>5 DEF ReceiveList, discoveryVars, vars, lockVars
<1>6. ASSUME NEW r \in Readers, ListFails(r) PROVE McpInv'
  BY <1>6 DEF ListFails, discoveryVars, vars, lockVars
<1>7. ASSUME NEW r \in Readers, HandleList(r) PROVE McpInv'
  BY <1>7, <1>type DEF HandleList, Request
<1>8. ASSUME NEW r \in Readers, LockForList(r) PROVE McpInv'
  <2>1. queue # <<>> /\ queue[1] = r /\ 1 \in DOMAIN queue
    BY <1>8, <1>type, HeadAndTail, HeadTailProperties DEF LockForList, GrantRead
  <2>2. mode[r] = "waiting"
    BY <2>1 DEF QueueInv
  <2> QED
    BY <1>8, <1>type, <2>2 DEF LockForList, GrantRead, mcpVars
<1>9. ASSUME NEW r \in Readers, AnswerList(r) PROVE McpInv'
  <2>1. committed.entities = Present /\ request[r] = "sent"
    BY <1>9, RefinementInvHolds DEF AnswerList, DropReadGuard, HoldsRead, RefinementInv, Registry
  <2>2. /\ UNCHANGED <<committed, resource, wanted, versions>>
        /\ mode' = [mode EXCEPT ![r] = "idle"]
        /\ request' = [request EXCEPT ![r] = "answered"]
        /\ list' = [list EXCEPT ![r] = Slice(Present, KindOf[r])]
    BY <1>9 DEF AnswerList, DropReadGuard
  <2> QED
    BY <1>type, <2>1, <2>2
<1>10. ASSUME NEW r \in Readers, HandlerCancelled(r) PROVE McpInv'
  BY <1>10, <1>type DEF HandlerCancelled, CancelWait, mcpVars
<1>11. CASE TaskStep /\ NoteVersion /\ UNCHANGED <<service, resource, wanted, request, list>>
  <2>1. \A r \in Readers : mode'[r] = mode[r]
    <3>1. CASE Spawn
      BY <3>1 DEF Spawn, vars, lockVars
    <3>2. CASE RunDiscovery
      BY <3>2, TaskLeavesHandlers
    <3> QED
      BY <1>11, <3>1, <3>2 DEF TaskStep
  <2>2. /\ versions \subseteq versions'
        /\ resource = "joining" => committed'.entities \in versions'
    BY <1>11 DEF NoteVersion
  <2> QED
    BY <1>11, <2>1, <2>2
<1>12. CASE UNCHANGED systemVars
  BY <1>12 DEF systemVars, mcpVars, discoveryVars, vars, lockVars
<1> QED
  BY <1>1, <1>3, <1>4, <1>5, <1>6, <1>7, <1>8, <1>9, <1>10, <1>11, <1>12 DEF McpNext

LEMMA SystemInvStep == SystemInv /\ [McpNext]_systemVars => SystemInv'
<1>1. DiscoveryTypeOK /\ [McpNext]_systemVars => [Next]_vars
  BY McpStepDiscovery, DiscoveryStepTopology DEF DiscoveryTypeOK
<1> QED
  BY <1>1, McpStepDiscovery, DiscoveryInvStep, QueueInvStep, EventsInvStep, McpInvStep
     DEF SystemInv, DiscoveryInv

LEMMA SystemInvHolds == McpSpec => []SystemInv
<1> QED
  BY SystemInvInit, SystemInvStep, PTL DEF McpSpec

LEMMA ListsAreRealInv == SystemInv => ListsAreReal
BY DEF SystemInv, McpInv, ListsAreReal

(* Each list in a text, or of a tool, is one version's entities of its      *)
(* kind: no list shows a diff half applied, whatever the diffs are, and no  *)
(* list is left over from an earlier read.                                  *)
THEOREM ListsAreRealHolds == McpSpec => []ListsAreReal
<1> QED
  BY ListsAreRealInv, SystemInvHolds, PTL

==============================================================================
