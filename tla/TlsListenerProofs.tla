------------------------- MODULE TlsListenerProofs -------------------------
(***************************************************************************)
(* Theorems about the TLS listener, for any connections, finitely many or  *)
(* not, and any number of permits.                                         *)
(***************************************************************************)
EXTENDS TlsListener, SequenceLemmas

(* The queue is exactly those connections that are at the stage.            *)
QueueExact(queue, stage) == NoneTwice(queue) /\ ToSet(queue) = InStage(stage)

(* Bounds, permits and queues need each other: the bound of the permits     *)
(* follows from their conservation, and what leaves the backlog or the      *)
(* channel is a connection without a permit because both are exact.  The    *)
(* tasks are finitely many, of however many connections.                    *)
TlsInv ==
  /\ TlsTypeOK
  /\ IsFiniteSet(HoldsPermit) /\ PermitsConserved
  /\ QueueExact(backlog, "backlog") /\ QueueExact(done, "done")

LEMMA TlsInvInit == TlsInit => TlsInv
<1> SUFFICES ASSUME TlsInit PROVE TlsInv
  OBVIOUS
<1> USE PermitsAssumption DEF TlsInit
<1>1. TlsTypeOK
  BY DEF TlsTypeOK, Stages, LoopStates
<1>2. HoldsPermit = {} /\ IsFiniteSet({}) /\ Cardinality({}) = 0
  BY FS_EmptySet DEF HoldsPermit, InStage
<1>3. PermitsConserved
  BY <1>2 DEF PermitsConserved
<1>4. QueueExact(backlog, "backlog") /\ QueueExact(done, "done")
  BY DEF QueueExact, NoneTwice, ToSet, InStage
<1> QED
  BY <1>1, <1>2, <1>3, <1>4 DEF TlsInv

-----------------------------------------------------------------------------
(* The backlog and the channel.                                             *)

LEMMA HeadInStage ==
  ASSUME NEW q \in Seq(Connections), q # <<>>, NEW s, QueueExact(q, s)
  PROVE  Head(q) \in Connections /\ connection[Head(q)] = s
<1>1. Head(q) = q[1] /\ 1 \in DOMAIN q
  OBVIOUS
<1>2. Head(q) \in InStage(s)
  BY <1>1 DEF QueueExact, ToSet
<1> QED
  BY <1>2 DEF InStage

(* A connection comes to the stage of a queue and joins it.                 *)
LEMMA JoinsQueue ==
  ASSUME NEW q \in Seq(Connections), NEW s, QueueExact(q, s), NEW c \in Connections,
         connection \in [Connections -> Stages], connection[c] # s,
         connection' = [connection EXCEPT ![c] = s]
  PROVE  /\ Append(q, c) \in Seq(Connections)
         /\ NoneTwice(Append(q, c)) /\ ToSet(Append(q, c)) = InStage(s)'
<1>1. c \notin ToSet(q) /\ InStage(s)' = InStage(s) \union {c}
  BY DEF QueueExact, InStage
<1> QED
  BY <1>1, AppendQueue DEF QueueExact

(* The head of a queue leaves it for another stage.                         *)
LEMMA LeavesQueue ==
  ASSUME NEW q \in Seq(Connections), NEW s, QueueExact(q, s), q # <<>>, NEW t, t # s,
         connection \in [Connections -> Stages],
         connection' = [connection EXCEPT ![Head(q)] = t]
  PROVE  /\ Tail(q) \in Seq(Connections)
         /\ NoneTwice(Tail(q)) /\ ToSet(Tail(q)) = InStage(s)'
<1>1. InStage(s)' = InStage(s) \ {Head(q)}
  BY DEF InStage
<1> QED
  BY <1>1, TailQueue DEF QueueExact

(* A connection moves between other stages.                                 *)
LEMMA PassesQueue ==
  ASSUME NEW s, NEW c \in Connections, NEW t, connection[c] # s, t # s,
         connection \in [Connections -> Stages], connection' = [connection EXCEPT ![c] = t]
  PROVE  InStage(s)' = InStage(s)
BY DEF InStage

(* What a step does to the connections and to the two queues.               *)
Joins(c) ==
  /\ connection[c] = "closed" /\ connection' = [connection EXCEPT ![c] = "backlog"]
  /\ backlog' = Append(backlog, c) /\ done' = done

Accepted(t) ==
  /\ backlog # <<>> /\ connection' = [connection EXCEPT ![Head(backlog)] = t]
  /\ backlog' = Tail(backlog) /\ done' = done

Passes(c, t) ==
  /\ connection[c] \notin {"backlog", "done"} /\ connection' = [connection EXCEPT ![c] = t]
  /\ backlog' = backlog /\ done' = done

Delivered(c) ==
  /\ connection[c] = "sending" /\ connection' = [connection EXCEPT ![c] = "done"]
  /\ done' = Append(done, c) /\ backlog' = backlog

Returned ==
  /\ done # <<>> /\ connection' = [connection EXCEPT ![Head(done)] = "served"]
  /\ done' = Tail(done) /\ backlog' = backlog

Dropped ==
  /\ done' = <<>> /\ backlog' = <<>>
  /\ connection' = [c \in Connections |->
       IF connection[c] \in {"backlog", "done"} THEN "closed" ELSE connection[c]]

Rests == UNCHANGED <<connection, backlog, done>>

LEMMA StepMoves ==
  ASSUME [TlsNext]_tlsVars
  PROVE  \/ \E c \in Connections : Joins(c) \/ Delivered(c)
         \/ \E t \in {"handshake", "closed"} : Accepted(t)
         \/ \E c \in Connections, t \in {"closed", "sending"} : Passes(c, t)
         \/ Returned \/ Dropped \/ Rests
<1> USE DEF Joins, Accepted, Passes, Delivered, Returned, Dropped, Rests
<1>1. ASSUME NEW c \in Connections, Connect(c) PROVE Joins(c)
  BY <1>1 DEF Connect
<1>2. ASSUME NEW c \in Connections, AcceptTcp(c) PROVE Accepted("handshake")
  BY <1>2 DEF AcceptTcp, LeavesBacklog
<1>3. ASSUME NEW c \in Connections, RejectTcp(c) PROVE Accepted("closed")
  BY <1>3 DEF RejectTcp, LeavesBacklog
<1>4. ASSUME NEW c \in Connections, Disconnect(c) \/ HandshakeFails(c) \/ SendFails(c)
      PROVE  Passes(c, "closed")
  BY <1>4 DEF Disconnect, HandshakeFails, SendFails
<1>5. ASSUME NEW c \in Connections, HandshakeSucceeds(c) PROVE Passes(c, "sending")
  BY <1>5 DEF HandshakeSucceeds
<1>6. ASSUME NEW c \in Connections, SendDone(c) PROVE Delivered(c)
  BY <1>6 DEF SendDone
<1>7. AcceptError => Accepted("closed") \/ Rests
  BY DEF AcceptError, LeavesBacklog
<1>8. (ReturnDone => Returned) /\ (Shutdown => Dropped)
  BY DEF ReturnDone, Shutdown
<1>9. Wake \/ AcceptAgain \/ UNCHANGED tlsVars => Rests
  BY DEF Wake, AcceptAgain, tlsVars
<1> HIDE DEF Joins, Accepted, Passes, Delivered, Returned, Dropped, Rests
<1> QED
  BY <1>1, <1>2, <1>3, <1>4, <1>5, <1>6, <1>7, <1>8, <1>9 DEF TlsNext

LEMMA QueuesStep ==
  ASSUME TlsInv, [TlsNext]_tlsVars
  PROVE  /\ backlog' \in Seq(Connections) /\ QueueExact(backlog, "backlog")'
         /\ done' \in Seq(Connections) /\ QueueExact(done, "done")'
<1> DEFINE Backlog == backlog' \in Seq(Connections) /\ QueueExact(backlog, "backlog")'
           Done == done' \in Seq(Connections) /\ QueueExact(done, "done")'
<1> USE DEF QueueExact
<1>type. /\ connection \in [Connections -> Stages]
         /\ backlog \in Seq(Connections) /\ QueueExact(backlog, "backlog")
         /\ done \in Seq(Connections) /\ QueueExact(done, "done")
  BY DEF TlsInv, TlsTypeOK
<1>1. ASSUME NEW c \in Connections, Joins(c) PROVE Backlog /\ Done
  <2>1. Backlog
    <3>1. connection[c] # "backlog" /\ connection' = [connection EXCEPT ![c] = "backlog"]
            /\ backlog' = Append(backlog, c)
      BY <1>1 DEF Joins
    <3>2. /\ Append(backlog, c) \in Seq(Connections)
          /\ NoneTwice(Append(backlog, c)) /\ ToSet(Append(backlog, c)) = InStage("backlog")'
      BY <3>1, <1>type, JoinsQueue
    <3> QED
      BY <3>1, <3>2
  <2>2. InStage("done")' = InStage("done")
    BY <1>1, <1>type, PassesQueue DEF Joins
  <2> QED
    BY <1>1, <1>type, <2>1, <2>2 DEF Joins
<1>2. ASSUME NEW t \in {"handshake", "closed"}, Accepted(t) PROVE Backlog /\ Done
  <2>1. Backlog
    <3>1. /\ backlog # <<>> /\ t # "backlog" /\ backlog' = Tail(backlog)
          /\ connection' = [connection EXCEPT ![Head(backlog)] = t]
      BY <1>2 DEF Accepted
    <3>2. /\ Tail(backlog) \in Seq(Connections)
          /\ NoneTwice(Tail(backlog)) /\ ToSet(Tail(backlog)) = InStage("backlog")'
      BY <3>1, <1>type, LeavesQueue
    <3> QED
      BY <3>1, <3>2
  <2>2. Head(backlog) \in Connections /\ connection[Head(backlog)] = "backlog"
    BY <1>2, <1>type, HeadInStage DEF Accepted
  <2>3. InStage("done")' = InStage("done")
    BY <1>2, <1>type, <2>2, PassesQueue DEF Accepted
  <2> QED
    BY <1>2, <1>type, <2>1, <2>3 DEF Accepted
<1>3. ASSUME NEW c \in Connections, NEW t \in {"closed", "sending"}, Passes(c, t)
      PROVE  Backlog /\ Done
  <2>1. InStage("backlog")' = InStage("backlog") /\ InStage("done")' = InStage("done")
    BY <1>3, <1>type, PassesQueue DEF Passes
  <2> QED
    BY <1>3, <1>type, <2>1 DEF Passes
<1>4. ASSUME NEW c \in Connections, Delivered(c) PROVE Backlog /\ Done
  <2>1. Done
    <3>1. connection[c] # "done" /\ connection' = [connection EXCEPT ![c] = "done"]
            /\ done' = Append(done, c)
      BY <1>4 DEF Delivered
    <3>2. /\ Append(done, c) \in Seq(Connections)
          /\ NoneTwice(Append(done, c)) /\ ToSet(Append(done, c)) = InStage("done")'
      BY <3>1, <1>type, JoinsQueue
    <3> QED
      BY <3>1, <3>2
  <2>2. InStage("backlog")' = InStage("backlog")
    BY <1>4, <1>type, PassesQueue DEF Delivered
  <2> QED
    BY <1>4, <1>type, <2>1, <2>2 DEF Delivered
<1>5. CASE Returned
  <2>1. Done
    <3>1. /\ done # <<>> /\ "served" # "done" /\ done' = Tail(done)
          /\ connection' = [connection EXCEPT ![Head(done)] = "served"]
      BY <1>5 DEF Returned
    <3>2. /\ Tail(done) \in Seq(Connections)
          /\ NoneTwice(Tail(done)) /\ ToSet(Tail(done)) = InStage("done")'
      BY <3>1, <1>type, LeavesQueue
    <3> QED
      BY <3>1, <3>2
  <2>2. Head(done) \in Connections /\ connection[Head(done)] = "done"
    BY <1>5, <1>type, HeadInStage DEF Returned
  <2>3. InStage("backlog")' = InStage("backlog")
    BY <1>5, <1>type, <2>2, PassesQueue DEF Returned
  <2> QED
    BY <1>5, <1>type, <2>1, <2>3 DEF Returned
<1>6. CASE Dropped
  <2>1. InStage("backlog")' = {} /\ InStage("done")' = {}
    BY <1>6, <1>type DEF Dropped, InStage
  <2> QED
    BY <1>6, <2>1 DEF Dropped, NoneTwice, ToSet
<1>7. CASE Rests
  BY <1>7, <1>type DEF Rests, InStage
<1> QED
  BY <1>1, <1>2, <1>3, <1>4, <1>5, <1>6, <1>7, StepMoves

-----------------------------------------------------------------------------
(* Permits: a task ends by giving back the permit it took.                  *)

(* A connection whose stage becomes s joins or leaves those with a permit.  *)
LEMMA PermitsMove ==
  ASSUME NEW c \in Connections, NEW s \in Stages, TlsTypeOK,
         connection' = [connection EXCEPT ![c] = s]
  PROVE  HoldsPermit' = IF s \in {"handshake", "sending"} THEN HoldsPermit \union {c}
                                                         ELSE HoldsPermit \ {c}
BY DEF HoldsPermit, InStage, TlsTypeOK

LEMMA PermitsStep ==
  TlsInv /\ [TlsNext]_tlsVars => IsFiniteSet(HoldsPermit)' /\ PermitsConserved' /\ permits' \in Int
<1> DEFINE H == HoldsPermit
           Goal == IsFiniteSet(HoldsPermit)' /\ PermitsConserved' /\ permits' \in Int
<1> SUFFICES ASSUME TlsInv, [TlsNext]_tlsVars PROVE Goal
  OBVIOUS
<1> USE PermitsAssumption DEF TlsInv, PermitsConserved
<1>type. TlsTypeOK /\ permits \in Int
  BY DEF TlsTypeOK
<1>card. Cardinality(H) \in Nat
  BY FS_CardinalityType
<1>in. \A c \in Connections : c \in H <=> connection[c] \in {"handshake", "sending"}
  BY DEF HoldsPermit, InStage
(* A step that neither takes nor gives back a permit.                       *)
<1>same. ASSUME NEW c \in Connections, NEW s \in Stages,
                connection' = [connection EXCEPT ![c] = s], permits' = permits,
                c \in H <=> s \in {"handshake", "sending"}
         PROVE  Goal
  <2>1. HoldsPermit' = IF s \in {"handshake", "sending"} THEN H \union {c} ELSE H \ {c}
    BY <1>same, <1>type, PermitsMove
  <2>2. HoldsPermit' = H
    BY <1>same, <2>1
  <2> QED
    BY <1>same, <1>type, <2>2
(* A step that gives a permit back.                                         *)
<1>back. ASSUME NEW c \in Connections, connection[c] \in {"handshake", "sending"},
                NEW s \in {"closed", "done"},
                connection' = [connection EXCEPT ![c] = s], permits' = permits + 1
         PROVE  Goal
  <2>1. HoldsPermit' = H \ {c}
    BY <1>back, <1>type, PermitsMove DEF Stages
  <2>2. IsFiniteSet(H \ {c}) /\ Cardinality(H \ {c}) = Cardinality(H) - 1
    BY <1>back, <1>in, FS_RemoveElement
  <2> QED
    BY <1>back, <1>card, <1>type, <2>1, <2>2
(* What leaves the backlog or the channel has no permit.                    *)
<1>heads. /\ backlog # <<>> => Head(backlog) \in Connections /\ connection[Head(backlog)] = "backlog"
          /\ done # <<>> => Head(done) \in Connections /\ connection[Head(done)] = "done"
  BY HeadInStage DEF TlsTypeOK
<1>1. ASSUME NEW c \in Connections, AcceptTcp(c) PROVE Goal
  <2>1. HoldsPermit' = H \union {c}
    BY <1>1, <1>type, PermitsMove DEF AcceptTcp, LeavesBacklog, Stages
  <2>2. IsFiniteSet(H \union {c}) /\ Cardinality(H \union {c}) = Cardinality(H) + 1
    BY <1>1, <1>in, <1>heads, FS_AddElement DEF AcceptTcp, LeavesBacklog
  <2> QED
    BY <1>1, <1>card, <1>type, <2>1, <2>2 DEF AcceptTcp
<1>2. ASSUME NEW c \in Connections, Connect(c) \/ RejectTcp(c) \/ Disconnect(c) PROVE Goal
  <2>1. /\ connection[c] \in {"closed", "backlog", "served"} /\ permits' = permits
        /\ \E s \in {"backlog", "closed"} : connection' = [connection EXCEPT ![c] = s]
    BY <1>2, <1>heads DEF Connect, RejectTcp, LeavesBacklog, Disconnect
  <2> QED
    BY <2>1, <1>in, <1>same DEF Stages
<1>3. ASSUME NEW c \in Connections, HandshakeSucceeds(c) PROVE Goal
  <2>1. /\ connection[c] = "handshake" /\ permits' = permits
        /\ connection' = [connection EXCEPT ![c] = "sending"]
    BY <1>3 DEF HandshakeSucceeds
  <2> QED
    BY <2>1, <1>in, <1>same DEF Stages
<1>4. ASSUME NEW c \in Connections, HandshakeFails(c) \/ SendDone(c) \/ SendFails(c)
      PROVE  Goal
  BY <1>4, <1>back DEF HandshakeFails, SendDone, SendFails
<1>5. CASE Shutdown
  <2>1. HoldsPermit' = H
    BY <1>5, <1>type DEF Shutdown, HoldsPermit, InStage, TlsTypeOK
  <2> QED
    BY <1>5, <1>type, <2>1 DEF Shutdown
<1>6. CASE ReturnDone
  BY <1>6, <1>heads, <1>in, <1>same DEF ReturnDone, Stages
<1>7. ASSUME NEW c \in Connections, LeavesBacklog(c, "closed"), permits' = permits
      PROVE  Goal
  BY <1>7, <1>heads, <1>in, <1>same DEF LeavesBacklog, Stages
<1>8. ASSUME UNCHANGED <<connection, permits>> PROVE Goal
  BY <1>8, <1>type DEF HoldsPermit, InStage
<1>9. CASE AcceptError \/ Wake \/ AcceptAgain \/ UNCHANGED tlsVars
  BY <1>7, <1>8, <1>9 DEF AcceptError, Wake, AcceptAgain, tlsVars
<1> QED
  BY <1>1, <1>2, <1>3, <1>4, <1>5, <1>6, <1>9 DEF TlsNext

-----------------------------------------------------------------------------
(* Types and bounds.                                                        *)

LEMMA TlsTypeStep == TlsInv /\ [TlsNext]_tlsVars => TlsTypeOK'
<1> SUFFICES ASSUME TlsInv, [TlsNext]_tlsVars PROVE TlsTypeOK'
  OBVIOUS
<1>1. permits' \in 0..MaxPendingHandshakes
  <2>1. Cardinality(HoldsPermit)' \in Nat
    BY PermitsStep, FS_CardinalityType
  <2>2. permits' \in Int /\ permits' + Cardinality(HoldsPermit)' = MaxPendingHandshakes
    BY PermitsStep DEF PermitsConserved
  <2>3. permits \in 0..MaxPendingHandshakes
    BY DEF TlsInv, TlsTypeOK
  <2>4. permits' >= 0
    BY <2>3, PermitsAssumption
       DEF TlsNext, tlsVars, Connect, Disconnect, AcceptTcp, RejectTcp, LeavesBacklog, HandshakeSucceeds,
           HandshakeFails, SendDone, SendFails, AcceptError, Wake, ReturnDone, AcceptAgain, Shutdown
  <2> QED
    BY <2>1, <2>2, <2>4, PermitsAssumption
<1> USE PermitsAssumption DEF TlsInv, TlsTypeOK, Stages, LoopStates
<1>2. connection' \in [Connections -> Stages] /\ loop' \in LoopStates
  <2>1. \A c \in Connections, s \in Stages : [connection EXCEPT ![c] = s] \in [Connections -> Stages]
    OBVIOUS
  <2>2. connection' \in [Connections -> Stages]
    BY <2>1, StepMoves, HeadInStage DEF Joins, Accepted, Passes, Delivered, Returned, Dropped, Rests
  <2>3. loop' \in LoopStates
    BY DEF TlsNext, tlsVars, Connect, Disconnect, AcceptTcp, RejectTcp, HandshakeSucceeds,
           HandshakeFails, SendDone, SendFails, AcceptError, Wake, ReturnDone, AcceptAgain, Shutdown
  <2> QED
    BY <2>2, <2>3
<1>3. Len(done') <= MaxPendingHandshakes
  <2>1. ASSUME NEW c \in Connections, SendDone(c) PROVE Len(done') <= MaxPendingHandshakes
    BY <2>1 DEF SendDone
  <2>2. CASE ReturnDone
    BY <2>2 DEF ReturnDone
  <2>3. CASE Shutdown
    BY <2>3 DEF Shutdown
  <2>4. CASE done' = done
    BY <2>4
  <2> QED
    BY <2>1, <2>2, <2>3, <2>4
       DEF TlsNext, tlsVars, Connect, Disconnect, AcceptTcp, RejectTcp, HandshakeSucceeds,
           HandshakeFails, SendFails, AcceptError, Wake, AcceptAgain
<1> QED
  BY <1>1, <1>2, <1>3, QueuesStep

-----------------------------------------------------------------------------

LEMMA TlsInvStep == TlsInv /\ [TlsNext]_tlsVars => TlsInv'
BY PermitsStep, QueuesStep, TlsTypeStep DEF TlsInv

LEMMA TlsInvHolds == TlsSpec => []TlsInv
BY TlsInvInit, TlsInvStep, PTL DEF TlsSpec

(* The semaphore and the channel keep within their bounds.                  *)
THEOREM TlsTypeCorrect == TlsSpec => []TlsTypeOK
<1>1. TlsInv => TlsTypeOK
  BY DEF TlsInv
<1> QED
  BY <1>1, TlsInvHolds, PTL

(* On every way a handshake task can end, its permit comes back.            *)
THEOREM PermitsConservedHolds == TlsSpec => []PermitsConserved
<1>1. TlsInv => PermitsConserved
  BY DEF TlsInv
<1> QED
  BY <1>1, TlsInvHolds, PTL

(* The channel holds every finished connection once until it is returned,   *)
(* also when accept() is dropped between two of its steps.                  *)
THEOREM DoneExactHolds == TlsSpec => []DoneExact
<1>1. TlsInv => DoneExact
  BY DEF TlsInv, QueueExact, NoneTwice, DoneExact, IsInjective
<1> QED
  BY <1>1, TlsInvHolds, PTL

=============================================================================
