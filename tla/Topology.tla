------------------------------ MODULE Topology ------------------------------
(***************************************************************************)
(* The shared topology (opensovd-core/src/topology.rs): the registry of    *)
(* module TopologyState behind a tokio RwLock, with its read guards, its   *)
(* write guards that batch events, and the broadcast channel the events    *)
(* are flushed to when a write guard is dropped.                           *)
(*                                                                         *)
(* A task is anything that awaits the lock: an HTTP handler (a reader), a  *)
(* discovery task or an embedding program (a writer).  A task that waits   *)
(* may be cancelled: its future is dropped.  Dropping a guard early, also  *)
(* on cancellation, is the ordinary Drop, which may come at any point of   *)
(* a batch.                                                                *)
(*                                                                         *)
(* tokio is external: its RwLock serves waiters first-in-first-out, and    *)
(* its broadcast channel keeps the last Capacity events for each receiver  *)
(* and tells a receiver that missed some that it lagged.                   *)
(***************************************************************************)
EXTENDS TopologyState, Sequences, SequencesExt

CONSTANTS
  Writers,   \* tasks that call Topology::write
  Readers,   \* tasks that call Topology::read, each with at most one receiver
  MaxBatch,  \* bound: events one write guard may batch
  Capacity   \* events the channel buffers for a receiver

ASSUME TasksAssumption == Writers \intersect Readers = {}
ASSUME BoundsAssumption == MaxBatch \in Nat /\ Capacity \in Nat \ {0}

Tasks == Writers \union Readers

(* EntityRef and TopologyEvent.  A reference carries the kind, so IDs of    *)
(* different kinds do not clash.                                            *)
ComponentRef(c) == [kind |-> "component", id |-> c]
AppRef(p) == [kind |-> "app", id |-> p]
AreaRef(a) == [kind |-> "area", id |-> a]
EntityRefs == {ComponentRef(c) : c \in Components}
                \union {AppRef(p) : p \in Apps} \union {AreaRef(a) : a \in Areas}

Added(ref) == [added |-> TRUE, ref |-> ref]
Removed(ref) == [added |-> FALSE, ref |-> ref]
TopologyEvents == [added : BOOLEAN, ref : EntityRefs]

VARIABLES
  mode,        \* what each task does with the lock
  queue,       \* the tasks waiting for the lock, in order of arrival
  pending,     \* events batched on the guard of each writer
  subscribed,  \* readers that hold a receiver
  inbox,       \* events each receiver has yet to receive
  lagged,      \* receivers that missed events and were not told yet
  synced,      \* readers whose mirror is valid: copied, and never lagged since
  mirror,      \* each reader's own copy of the set of entities
  announced,   \* history: the events sent so far, replayed on the empty set
  committed    \* history: the registry as the last dropped write guard left it

lockVars == <<mode, queue>>
channelVars == <<subscribed, inbox, lagged>>
mirrorVars == <<synced, mirror>>
vars == <<stateVars, lockVars, pending, channelVars, mirrorVars, announced, committed>>

Modes == {"idle", "waiting", "reading", "writing", "dropping"}

(* The entities in the registry.                                            *)
Present == {ComponentRef(c) : c \in ComponentsPresent}
             \union {AppRef(p) : p \in AppsPresent} \union {AreaRef(a) : a \in areas}

(* Everything a guard gives access to.                                      *)
Registry == [entities |-> Present, relations |-> stateVars]

(* An event, applied to a set of entities.                                  *)
Apply(event, entities) ==
  IF event.added THEN entities \union {event.ref} ELSE entities \ {event.ref}

Init ==
  /\ StateInit
  /\ mode = [t \in Tasks |-> "idle"]
  /\ queue = <<>>
  /\ pending = [w \in Writers |-> <<>>]
  /\ subscribed = {}
  /\ inbox = [r \in Readers |-> <<>>]
  /\ lagged = {}
  /\ synced = {}
  /\ mirror = [r \in Readers |-> {}]
  /\ announced = {}
  /\ committed = Registry

-----------------------------------------------------------------------------
(* The lock.                                                                *)

(* Mutated form: the lock is released before the events are sent.           *)
HoldsWriteUntilDrop(t) == mode[t] = "writing"

HoldsWrite(t) == mode[t] \in {"writing", "dropping"}
HoldsRead(t) == mode[t] = "reading"
WriteLocked == \E t \in Writers : HoldsWrite(t)

(* Mutated form: the last to ask is the first to be served.                 *)
RequestFirst(t) ==
  /\ mode[t] = "idle"
  /\ mode' = [mode EXCEPT ![t] = "waiting"]
  /\ queue' = <<t>> \o queue
  /\ UNCHANGED <<stateVars, pending, channelVars, mirrorVars, announced, committed>>

(* Topology::read and Topology::write, up to the await.                     *)
Request(t) ==
  /\ mode[t] = "idle"
  /\ mode' = [mode EXCEPT ![t] = "waiting"]
  /\ queue' = Append(queue, t)
  /\ UNCHANGED <<stateVars, pending, channelVars, mirrorVars, announced, committed>>

(* The future is dropped while it waits, and its place in the queue with it. *)
CancelWait(t) ==
  /\ mode[t] = "waiting"
  /\ mode' = [mode EXCEPT ![t] = "idle"]
  /\ \E i \in DOMAIN queue : queue[i] = t /\ queue' = RemoveAt(queue, i)
  /\ UNCHANGED <<stateVars, pending, channelVars, mirrorVars, announced, committed>>

GrantRead(r) ==
  /\ queue # <<>> /\ Head(queue) = r
  /\ ~WriteLocked
  /\ mode' = [mode EXCEPT ![r] = "reading"]
  /\ queue' = Tail(queue)
  /\ UNCHANGED <<stateVars, pending, channelVars, mirrorVars, announced, committed>>

GrantWrite(w) ==
  /\ queue # <<>> /\ Head(queue) = w
  /\ \A t \in Tasks : ~HoldsWrite(t) /\ ~HoldsRead(t)
  /\ mode' = [mode EXCEPT ![w] = "writing"]
  /\ queue' = Tail(queue)
  /\ pending' = [pending EXCEPT ![w] = <<>>]
  /\ UNCHANGED <<stateVars, channelVars, mirrorVars, announced, committed>>

DropReadGuard(r) ==
  /\ HoldsRead(r)
  /\ mode' = [mode EXCEPT ![r] = "idle"]
  /\ UNCHANGED <<stateVars, queue, pending, channelVars, mirrorVars, announced, committed>>

-----------------------------------------------------------------------------
(* The write guard.  Adding always batches an event, also when it           *)
(* overwrites; removing batches one only if the ID was there.               *)

Batch(w, event) ==
  /\ mode[w] = "writing"
  /\ Len(pending[w]) < MaxBatch
  /\ pending' = [pending EXCEPT ![w] = Append(@, event)]
  /\ UNCHANGED <<lockVars, channelVars, mirrorVars, announced, committed>>

AddComponent(w, c, area) == InsertComponent(c, area) /\ Batch(w, Added(ComponentRef(c)))
AddApp(w, p, link) == InsertApp(p, link) /\ Batch(w, Added(AppRef(p)))
AddArea(w, a) == InsertArea(a) /\ Batch(w, Added(AreaRef(a)))

GuardRemoveComponent(w, c) == RemoveComponent(c) /\ Batch(w, Removed(ComponentRef(c)))
GuardRemoveApp(w, p) == RemoveApp(p) /\ Batch(w, Removed(AppRef(p)))
(* Mutated form: the removal batches no event.                              *)
GuardRemoveAreaSilently(w, a) ==
  /\ RemoveArea(a)
  /\ mode[w] = "writing"
  /\ UNCHANGED <<lockVars, pending, channelVars, mirrorVars, announced, committed>>

GuardRemoveArea(w, a) == RemoveArea(a) /\ Batch(w, Removed(AreaRef(a)))

Mutate(w) ==
  \/ \E c \in Components :
       \/ \E area \in ComponentLinks[c] : AddComponent(w, c, area)
       \/ GuardRemoveComponent(w, c)
  \/ \E p \in Apps :
       \/ \E link \in AppLinks[p] : AddApp(w, p, link)
       \/ GuardRemoveApp(w, p)
  \/ \E a \in Areas :
       \/ AddArea(w, a)
       \/ GuardRemoveArea(w, a)

(* Drop begins.  The lock is a field of the guard: it is released only      *)
(* after the whole body of drop() has run.                                  *)
DropWriteGuard(w) ==
  /\ mode[w] = "writing"
  /\ mode' = [mode EXCEPT ![w] = "dropping"]
  /\ UNCHANGED <<stateVars, queue, pending, channelVars, mirrorVars, announced, committed>>

(* Mutated form: a full receiver keeps everything.                          *)
SendEventUnbounded(w) ==
  /\ mode[w] = "dropping"
  /\ pending[w] # <<>>
  /\ announced' = Apply(Head(pending[w]), announced)
  /\ inbox' = [r \in Readers |->
       IF r \in subscribed THEN Append(inbox[r], Head(pending[w])) ELSE inbox[r]]
  /\ pending' = [pending EXCEPT ![w] = Tail(@)]
  /\ UNCHANGED <<stateVars, lockVars, subscribed, lagged, mirrorVars, committed>>

(* One turn of the loop in drop().  A receiver that is full loses its       *)
(* oldest event; without receivers the event is lost and the error ignored. *)
SendEvent(w) ==
  /\ mode[w] = "dropping"
  /\ pending[w] # <<>>
  /\ LET event == Head(pending[w]) IN
       /\ announced' = Apply(event, announced)
       /\ inbox' = [r \in Readers |->
            IF r \notin subscribed THEN inbox[r]
            ELSE IF Len(inbox[r]) < Capacity THEN Append(inbox[r], event)
            ELSE Append(Tail(inbox[r]), event)]
       /\ lagged' = lagged \union {r \in subscribed : Len(inbox[r]) = Capacity}
  /\ pending' = [pending EXCEPT ![w] = Tail(@)]
  /\ UNCHANGED <<stateVars, lockVars, subscribed, mirrorVars, committed>>

Unlock(w) ==
  /\ mode[w] = "dropping"
  /\ pending[w] = <<>>
  /\ mode' = [mode EXCEPT ![w] = "idle"]
  /\ committed' = Registry
  /\ UNCHANGED <<stateVars, queue, pending, channelVars, mirrorVars, announced>>

-----------------------------------------------------------------------------
(* Receivers.  Subscribing takes no lock.                                   *)

Subscribe(r) ==
  /\ r \notin subscribed
  /\ subscribed' = subscribed \union {r}
  /\ UNCHANGED <<stateVars, lockVars, pending, inbox, lagged, mirrorVars, announced, committed>>

(* A subscriber copies the entities under a read guard; this is also how it *)
(* recovers from having lagged.                                             *)
CopyEntities(r) ==
  /\ r \in subscribed \ synced
  /\ HoldsRead(r)
  /\ mirror' = [mirror EXCEPT ![r] = Present]
  /\ synced' = synced \union {r}
  /\ UNCHANGED <<stateVars, lockVars, pending, channelVars, announced, committed>>

Receive(r) ==
  /\ r \notin lagged
  /\ inbox[r] # <<>>
  /\ mirror' = IF r \in synced
               THEN [mirror EXCEPT ![r] = Apply(Head(inbox[r]), @)] ELSE mirror
  /\ inbox' = [inbox EXCEPT ![r] = Tail(@)]
  /\ UNCHANGED <<stateVars, lockVars, pending, subscribed, lagged, synced, announced, committed>>

(* recv() reports the loss once and goes on with the oldest event kept.     *)
ReceiveLagged(r) ==
  /\ r \in lagged
  /\ lagged' = lagged \ {r}
  /\ synced' = synced \ {r}
  /\ mirror' = [mirror EXCEPT ![r] = {}]
  /\ UNCHANGED <<stateVars, lockVars, pending, subscribed, inbox, announced, committed>>

-----------------------------------------------------------------------------

WriterStep(w) ==
  Request(w) \/ CancelWait(w) \/ GrantWrite(w) \/ Mutate(w)
    \/ DropWriteGuard(w) \/ SendEvent(w) \/ Unlock(w)

ReaderStep(r) ==
  Request(r) \/ CancelWait(r) \/ GrantRead(r) \/ DropReadGuard(r)
    \/ Subscribe(r) \/ CopyEntities(r) \/ Receive(r) \/ ReceiveLagged(r)

Next == (\E w \in Writers : WriterStep(w)) \/ (\E r \in Readers : ReaderStep(r))

Spec == Init /\ [][Next]_vars

-----------------------------------------------------------------------------
(* Properties.                                                              *)

TopologyTypeOK ==
  /\ TypeOK
  /\ mode \in [Tasks -> Modes]
  /\ queue \in Seq(Tasks)
  /\ pending \in [Writers -> Seq(TopologyEvents)]
  /\ \A w \in Writers : Len(pending[w]) <= MaxBatch
  /\ subscribed \in SUBSET Readers
  /\ inbox \in [Readers -> Seq(TopologyEvents)]
  /\ \A r \in Readers : Len(inbox[r]) <= Capacity
  /\ lagged \in SUBSET subscribed
  /\ synced \in SUBSET subscribed
  /\ mirror \in [Readers -> SUBSET EntityRefs]
  /\ announced \in SUBSET EntityRefs
  /\ committed.entities \in SUBSET EntityRefs

(* Under a read guard every entity seen was announced, and everything       *)
(* announced is seen: drop() sends the whole batch before the lock, a field *)
(* of the guard, is released, so no reader overtakes the events.            *)
ReadersSeeAnnounced == \A r \in Readers : HoldsRead(r) => announced = Present

(* A subscriber that subscribes first, then copies the entities, and then   *)
(* applies what it receives, ends up with the entities of the topology once *)
(* it has received everything and no batch is under way, unless it lagged.  *)
(* Events sent between the subscription and the copy reach it twice over.   *)
MirrorConverges ==
  \A r \in synced \ lagged :
    inbox[r] = <<>> /\ (\A w \in Writers : pending[w] = <<>>) => mirror[r] = Present

(* The topology implements the abstract registry: a batch is one step, and  *)
(* a reader sees one version from its first query to its last.              *)
Atomic == INSTANCE AtomicRegistry WITH
  registry <- committed,
  seen <- [r \in Readers |-> IF HoldsRead(r) THEN <<Registry>> ELSE <<>>],
  announced <- IF WriteLocked THEN committed.entities ELSE announced

ReadsAreAtomic == Atomic!AtomicSpec

(* A task that waits for the lock is served, or stops waiting: the queue is *)
(* fair, and no sequence of guards keeps a later one out for ever.          *)
LockServed == \A t \in Tasks : mode[t] = "waiting" ~> mode[t] # "waiting"

=============================================================================
