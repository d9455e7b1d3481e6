----------------------------- MODULE Discovery -----------------------------
(***************************************************************************)
(* The discovery task of the server (opensovd-server/src/server.rs,        *)
(* run_discovery), composed with the topology it writes to.  The task      *)
(* starts its providers one after another, merges their streams, and for   *)
(* each diff takes the write lock, removes, adds, and drops the guard.     *)
(* All of that is raced with the shutdown future, except the start.        *)
(*                                                                         *)
(* select! drops the losing branch at an await only, and no await lies     *)
(* between taking the lock and dropping the guard.  A provider is          *)
(* external: it may fail to start, send diffs and errors in any order, end *)
(* its stream, or stay silent.                                             *)
(***************************************************************************)
EXTENDS Topology

CONSTANTS
  Task,       \* the discovery task, a writer of the topology
  Providers,  \* the discovery providers of the server
  Diffs,      \* the diffs a stream may yield
  MaxItems    \* bound: items all streams yield together

ASSUME TaskAssumption == Task \in Writers
ASSUME ItemsAssumption == MaxItems \in Nat

(* The item of a stream: what to remove, and an EntityCollection to add.    *)
Diff == [remove : Seq(EntityRefs),
         components : Seq(UNION {{c} \X ComponentLinks[c] : c \in Components}),
         apps : Seq(UNION {{p} \X AppLinks[p] : p \in Apps}),
         areas : Seq(Areas)]

ASSUME DiffsAssumption == Diffs \subseteq Diff

EmptyDiff == [remove |-> <<>>, components |-> <<>>, apps |-> <<>>, areas |-> <<>>]

VARIABLES
  phase,     \* where run_discovery is
  unstarted, \* providers whose discover() has not returned
  streams,   \* providers whose stream has not ended
  todo,      \* what is left to apply of the diff taken from the streams
  items,     \* number of items the streams have yielded
  shutdown,  \* the shutdown future has completed
  expected   \* history: the entities, had every diff been applied in one step

taskVars == <<phase, unstarted, streams, todo, items, shutdown, expected>>
discoveryVars == <<vars, taskVars>>

Phases == {"unspawned", "starting", "next", "lock", "apply", "flush", "ended"}

Refs(d) == {ComponentRef(d.components[i][1]) : i \in DOMAIN d.components}
             \union {AppRef(d.apps[i][1]) : i \in DOMAIN d.apps}
             \union {AreaRef(d.areas[i]) : i \in DOMAIN d.areas}

(* What a diff makes of a set of entities: "refs of entities to remove from *)
(* the topology, followed by new entities to add" (DiscoveryStream).        *)
Outcome(entities, d) ==
  (entities \ {d.remove[i] : i \in DOMAIN d.remove}) \union Refs(d)

DiscoveryInit ==
  /\ Init
  /\ phase = "unspawned"
  /\ unstarted = Providers
  /\ streams = {}
  /\ todo = EmptyDiff
  /\ items = 0
  /\ shutdown = FALSE
  /\ expected = {}

-----------------------------------------------------------------------------
(* Start.                                                                   *)

(* tokio::spawn(run_discovery(..)) in serve().                              *)
Spawn ==
  /\ phase = "unspawned"
  /\ phase' = "starting"
  /\ UNCHANGED <<vars, unstarted, streams, todo, items, shutdown, expected>>

(* Mutated form: a provider whose discover() returned is asked again.       *)
DiscoverAgain(p) ==
  /\ phase = "starting"
  /\ p \in unstarted
  /\ streams' \in {streams, streams \union {p}}
  /\ unstarted' \in {unstarted, unstarted \ {p}}
  /\ UNCHANGED <<vars, phase, todo, items, shutdown, expected>>

(* discover() returns a stream, or an error that is only logged.            *)
Discover(p) ==
  /\ phase = "starting"
  /\ p \in unstarted
  /\ unstarted' = unstarted \ {p}
  /\ streams' \in {streams, streams \union {p}}
  /\ UNCHANGED <<vars, phase, todo, items, shutdown, expected>>

StartMerging ==
  /\ phase = "starting"
  /\ unstarted = {}
  /\ phase' = IF streams = {} THEN "ended" ELSE "next"
  /\ UNCHANGED <<vars, unstarted, streams, todo, items, shutdown, expected>>

-----------------------------------------------------------------------------
(* The streams.                                                             *)

TakeDiff(p, d) ==
  /\ phase = "next"
  /\ p \in streams
  /\ items < MaxItems
  /\ items' = items + 1
  /\ todo' = d
  /\ phase' = "lock"
  /\ Request(Task)
  /\ UNCHANGED <<unstarted, streams, shutdown, expected>>

(* An error item is logged; the stream goes on.                             *)
TakeError(p) ==
  /\ phase = "next"
  /\ p \in streams
  /\ items < MaxItems
  /\ items' = items + 1
  /\ UNCHANGED <<vars, phase, unstarted, streams, todo, shutdown, expected>>

(* The task ends with the last stream.                                      *)
StreamEnds(p) ==
  /\ phase = "next"
  /\ p \in streams
  /\ streams' = streams \ {p}
  /\ phase' = IF streams' = {} THEN "ended" ELSE "next"
  /\ UNCHANGED <<vars, unstarted, todo, items, shutdown, expected>>

-----------------------------------------------------------------------------
(* Applying a diff under the write guard.                                   *)

LockGranted ==
  /\ phase = "lock"
  /\ GrantWrite(Task)
  /\ phase' = "apply"
  /\ expected' = Outcome(expected, todo)
  /\ UNCHANGED <<unstarted, streams, todo, items, shutdown>>

(* Missing IDs are skipped, without an event.                               *)
RemoveEntity(ref) ==
  \/ \E c \in Components : ref = ComponentRef(c) /\ GuardRemoveComponent(Task, c)
  \/ \E p \in Apps : ref = AppRef(p) /\ GuardRemoveApp(Task, p)
  \/ \E a \in Areas : ref = AreaRef(a) /\ GuardRemoveArea(Task, a)
  \/ ref \notin Present /\ UNCHANGED vars

ApplyRemove ==
  /\ phase = "apply"
  /\ todo.remove # <<>>
  /\ RemoveEntity(Head(todo.remove))
  /\ todo' = [todo EXCEPT !.remove = Tail(@)]
  /\ UNCHANGED <<phase, unstarted, streams, items, shutdown, expected>>

ApplyComponent ==
  /\ phase = "apply"
  /\ todo.remove = <<>> /\ todo.components # <<>>
  /\ AddComponent(Task, Head(todo.components)[1], Head(todo.components)[2])
  /\ todo' = [todo EXCEPT !.components = Tail(@)]
  /\ UNCHANGED <<phase, unstarted, streams, items, shutdown, expected>>

ApplyApp ==
  /\ phase = "apply"
  /\ todo.remove = <<>> /\ todo.components = <<>> /\ todo.apps # <<>>
  /\ AddApp(Task, Head(todo.apps)[1], Head(todo.apps)[2])
  /\ todo' = [todo EXCEPT !.apps = Tail(@)]
  /\ UNCHANGED <<phase, unstarted, streams, items, shutdown, expected>>

ApplyArea ==
  /\ phase = "apply"
  /\ todo.remove = <<>> /\ todo.components = <<>> /\ todo.apps = <<>>
  /\ todo.areas # <<>>
  /\ AddArea(Task, Head(todo.areas))
  /\ todo' = [todo EXCEPT !.areas = Tail(@)]
  /\ UNCHANGED <<phase, unstarted, streams, items, shutdown, expected>>

(* The guard goes out of scope at the end of the arm.                       *)
DiffApplied ==
  /\ phase = "apply"
  /\ todo = EmptyDiff
  /\ DropWriteGuard(Task)
  /\ phase' = "flush"
  /\ UNCHANGED <<unstarted, streams, todo, items, shutdown, expected>>

FlushEvent ==
  /\ phase = "flush"
  /\ SendEvent(Task)
  /\ UNCHANGED taskVars

FlushDone ==
  /\ phase = "flush"
  /\ Unlock(Task)
  /\ phase' = "next"
  /\ UNCHANGED <<unstarted, streams, todo, items, shutdown, expected>>

-----------------------------------------------------------------------------
(* Shutdown.                                                                *)

ShutdownFires ==
  /\ ~shutdown
  /\ shutdown' = TRUE
  /\ UNCHANGED <<vars, phase, unstarted, streams, todo, items, expected>>

(* Mutated form: the shutdown is seen only when nothing is left to merge.   *)
StopWhenDrained ==
  /\ shutdown
  /\ phase = "next"
  /\ streams = {}
  /\ phase' = "ended"
  /\ UNCHANGED <<vars, unstarted, streams, todo, items, shutdown, expected>>

(* The other branch of select! is dropped while it awaits the next item.    *)
StopAtNext ==
  /\ shutdown
  /\ phase = "next"
  /\ phase' = "ended"
  /\ streams' = {}
  /\ UNCHANGED <<vars, unstarted, todo, items, shutdown, expected>>

(* Mutated form: the diff is given up halfway.                              *)
StopHalfway ==
  /\ shutdown
  /\ phase = "apply"
  /\ DropWriteGuard(Task)
  /\ phase' = "ended"
  /\ streams' = {}
  /\ todo' = EmptyDiff
  /\ UNCHANGED <<unstarted, items, shutdown, expected>>

(* Mutated form: the queue keeps the waiter.                                *)
StopAtLockStillQueued ==
  /\ shutdown
  /\ phase = "lock"
  /\ phase' = "ended"
  /\ streams' = {}
  /\ todo' = EmptyDiff
  /\ UNCHANGED <<vars, unstarted, items, shutdown, expected>>

(* It is dropped while it awaits the lock: the diff it took is lost.        *)
StopAtLock ==
  /\ shutdown
  /\ phase = "lock"
  /\ CancelWait(Task)
  /\ phase' = "ended"
  /\ streams' = {}
  /\ todo' = EmptyDiff
  /\ UNCHANGED <<unstarted, items, shutdown, expected>>

-----------------------------------------------------------------------------

RunDiscovery ==
  \/ \E p \in Providers : Discover(p) \/ TakeError(p) \/ StreamEnds(p)
  \/ \E p \in Providers : \E d \in Diffs : TakeDiff(p, d)
  \/ StartMerging \/ LockGranted
  \/ ApplyRemove \/ ApplyComponent \/ ApplyApp \/ ApplyArea
  \/ DiffApplied \/ FlushEvent \/ FlushDone
  \/ StopAtNext \/ StopAtLock

TaskStep == Spawn \/ RunDiscovery

(* Handlers read; they do not subscribe.                                    *)
Handler(r) == Request(r) \/ CancelWait(r) \/ GrantRead(r) \/ DropReadGuard(r)
Handlers == (\E r \in Readers : Handler(r)) /\ UNCHANGED taskVars

DiscoveryNext == TaskStep \/ Handlers \/ ShutdownFires

DiscoverySpec == DiscoveryInit /\ [][DiscoveryNext]_discoveryVars

(* Tokio polls the task and serves the waiter at the head of the lock's     *)
(* queue; discover() returns, and handlers drop their guards.  No stream is *)
(* obliged to yield or to end, no handler to ask, no shutdown to happen.    *)
DiscoveryFairness ==
  /\ WF_discoveryVars(StartMerging)
  /\ \A p \in Providers : WF_discoveryVars(Discover(p))
  /\ WF_discoveryVars(LockGranted)
  /\ WF_discoveryVars(ApplyRemove \/ ApplyComponent \/ ApplyApp \/ ApplyArea)
  /\ WF_discoveryVars(DiffApplied) /\ WF_discoveryVars(FlushEvent) /\ WF_discoveryVars(FlushDone)
  /\ WF_discoveryVars(StopAtNext \/ StopAtLock)
  /\ \A r \in Readers :
       /\ WF_discoveryVars(GrantRead(r) /\ UNCHANGED taskVars)
       /\ WF_discoveryVars(DropReadGuard(r) /\ UNCHANGED taskVars)

-----------------------------------------------------------------------------
(* Properties.                                                              *)

DiscoveryTypeOK ==
  /\ phase \in Phases
  /\ unstarted \in SUBSET Providers
  /\ streams \in SUBSET (Providers \ unstarted)
  /\ todo \in Diff
  /\ items \in 0..MaxItems
  /\ shutdown \in BOOLEAN
  /\ expected \in SUBSET EntityRefs

(* No request ever sees a diff half applied: under a read guard, and once   *)
(* the task has ended, also by a shutdown that won the race at any point,   *)
(* the entities are what the whole diffs make of the empty topology, with   *)
(* the removals of a diff before its additions.                             *)
DiffsAreAtomic ==
  (\E r \in Readers : HoldsRead(r)) \/ phase = "ended" => Present = expected

(* The task never ends, or waits for its streams, with the lock or a place  *)
(* in its queue, which would block every later request.                     *)
EndsWithoutLock == phase \in {"next", "ended"} => mode[Task] = "idle"

(* A diff taken from a stream is applied, unless the server shuts down,     *)
(* whatever the handlers do with the lock.                                  *)
DiffIsApplied == phase = "lock" ~> phase = "next" \/ shutdown

(* A shutdown ends the task, also while it waits for the lock behind        *)
(* handlers or applies a diff, provided discover() returned.                *)
ShutdownEnds == shutdown ~> phase = "ended"

=============================================================================
