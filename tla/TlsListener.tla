---------------------------- MODULE TlsListener ----------------------------
(***************************************************************************)
(* The TLS listener of the server (opensovd-server/src/tls.rs): an accept  *)
(* loop that gives every TCP connection a handshake task, a semaphore that *)
(* bounds the tasks, and a channel of finished handshakes that accept()    *)
(* returns to axum one at a time.                                          *)
(*                                                                         *)
(* External: the kernel's backlog, the client (which may finish, break off *)
(* or stall the handshake, and may connect again), and axum's serve loop,  *)
(* which calls accept() again after each connection and stops calling it   *)
(* at a graceful shutdown, when the listener is dropped.                   *)
(***************************************************************************)
EXTENDS Naturals, FiniteSets, Sequences, SequencesExt

CONSTANTS
  Connections,          \* TCP connections
  MaxPendingHandshakes  \* permits of the semaphore, capacity of the channel

ASSUME PermitsAssumption == MaxPendingHandshakes \in Nat \ {0}

VARIABLES
  connection,  \* how far each connection got
  backlog,     \* those that the kernel has for accept(), in their order
  permits,     \* permits left in the semaphore
  done,        \* the channel done_tx / done_rx
  loop         \* what accept() does

tlsVars == <<connection, backlog, permits, done, loop>>

(* "sending": the handshake is finished, and tx.send() awaits a place.      *)
Stages == {"closed", "backlog", "handshake", "sending", "done", "served"}
LoopStates == {"select", "sleep", "returned", "dropped"}

InStage(s) == {c \in Connections : connection[c] = s}
HoldsPermit == InStage("handshake") \union InStage("sending")

TlsInit ==
  /\ connection = [c \in Connections |-> "closed"]
  /\ backlog = <<>>
  /\ permits = MaxPendingHandshakes
  /\ done = <<>>
  /\ loop = "select"

-----------------------------------------------------------------------------
(* The client and the kernel.                                               *)

Connect(c) ==
  /\ connection[c] = "closed"
  /\ loop # "dropped"
  /\ connection' = [connection EXCEPT ![c] = "backlog"]
  /\ backlog' = Append(backlog, c)
  /\ UNCHANGED <<permits, done, loop>>

Disconnect(c) ==
  /\ connection[c] = "served"
  /\ connection' = [connection EXCEPT ![c] = "closed"]
  /\ UNCHANGED <<backlog, permits, done, loop>>

-----------------------------------------------------------------------------
(* accept(): the first branch of select!.                                   *)

LeavesBacklog(c, stage) ==
  /\ loop = "select"
  /\ backlog # <<>> /\ Head(backlog) = c
  /\ backlog' = Tail(backlog)
  /\ connection' = [connection EXCEPT ![c] = stage]

AcceptTcp(c) ==
  /\ LeavesBacklog(c, "handshake")
  /\ permits > 0
  /\ permits' = permits - 1
  /\ UNCHANGED <<done, loop>>

(* No permit left: the stream is dropped, the loop goes on.                 *)
RejectTcp(c) ==
  /\ LeavesBacklog(c, "closed")
  /\ permits = 0
  /\ UNCHANGED <<permits, done, loop>>

(* An accept error pauses the loop; the channel is not polled meanwhile.    *)
(* It may be about the connection at hand, which is lost, or about none     *)
(* (too many open files), and then may come back again and again.           *)
AcceptError ==
  /\ \/ loop = "select" /\ UNCHANGED <<connection, backlog>>
     \/ \E c \in Connections : LeavesBacklog(c, "closed")
  /\ loop' = "sleep"
  /\ UNCHANGED <<permits, done>>

(* Mutated form: an accept error ends the loop.                             *)
WakeToLeave ==
  /\ loop = "sleep"
  /\ loop' = "dropped"
  /\ UNCHANGED <<connection, backlog, permits, done>>

Wake ==
  /\ loop = "sleep"
  /\ loop' = "select"
  /\ UNCHANGED <<connection, backlog, permits, done>>

-----------------------------------------------------------------------------
(* accept(): the second branch, and axum's loop around it.                  *)

(* Mutated form: select! is biased towards new connections.                 *)
ReturnDoneBiased ==
  /\ loop = "select"
  /\ done # <<>>
  /\ InStage("backlog") = {}
  /\ connection' = [connection EXCEPT ![Head(done)] = "served"]
  /\ done' = Tail(done)
  /\ loop' = "returned"
  /\ UNCHANGED <<backlog, permits>>

(* Mutated form: the pair is dropped between recv() and the return.         *)
ReturnDoneLost ==
  /\ loop = "select"
  /\ done # <<>>
  /\ done' = Tail(done)
  /\ UNCHANGED <<connection, backlog, permits, loop>>

ReturnDone ==
  /\ loop = "select"
  /\ done # <<>>
  /\ connection' = [connection EXCEPT ![Head(done)] = "served"]
  /\ done' = Tail(done)
  /\ loop' = "returned"
  /\ UNCHANGED <<backlog, permits>>

AcceptAgain ==
  /\ loop = "returned"
  /\ loop' = "select"
  /\ UNCHANGED <<connection, backlog, permits, done>>

(* Graceful shutdown: the TCP listener and the receiver are dropped, and    *)
(* with them what is in the backlog and in the channel.                     *)
Shutdown ==
  /\ loop # "dropped"
  /\ loop' = "dropped"
  /\ done' = <<>>
  /\ connection' = [c \in Connections |->
       IF connection[c] \in {"backlog", "done"} THEN "closed" ELSE connection[c]]
  /\ backlog' = <<>>
  /\ UNCHANGED permits

-----------------------------------------------------------------------------
(* A handshake task.  Its permit is dropped when the task ends.             *)

HandshakeSucceeds(c) ==
  /\ connection[c] = "handshake"
  /\ connection' = [connection EXCEPT ![c] = "sending"]
  /\ UNCHANGED <<backlog, permits, done, loop>>

(* Mutated form: the permit is not part of the task that fails.             *)
HandshakeFailsKeepsPermit(c) ==
  /\ connection[c] = "handshake"
  /\ connection' = [connection EXCEPT ![c] = "closed"]
  /\ UNCHANGED <<backlog, permits, done, loop>>

(* Mutated form: no timeout, and the client stalls.                         *)
HandshakeStalls(c) == FALSE /\ connection[c] = "handshake" /\ UNCHANGED tlsVars

(* The client breaks off, or the timeout of the handshake expires.          *)
HandshakeFails(c) ==
  /\ connection[c] = "handshake"
  /\ connection' = [connection EXCEPT ![c] = "closed"]
  /\ permits' = permits + 1
  /\ UNCHANGED <<backlog, done, loop>>

SendDone(c) ==
  /\ connection[c] = "sending"
  /\ loop # "dropped"
  /\ Len(done) < MaxPendingHandshakes
  /\ done' = Append(done, c)
  /\ connection' = [connection EXCEPT ![c] = "done"]
  /\ permits' = permits + 1
  /\ UNCHANGED <<backlog, loop>>

(* Nobody receives any more: the error is ignored, the stream dropped.      *)
SendFails(c) ==
  /\ connection[c] = "sending"
  /\ loop = "dropped"
  /\ connection' = [connection EXCEPT ![c] = "closed"]
  /\ permits' = permits + 1
  /\ UNCHANGED <<backlog, done, loop>>

-----------------------------------------------------------------------------

TlsNext ==
  \/ \E c \in Connections :
       \/ Connect(c) \/ Disconnect(c)
       \/ AcceptTcp(c) \/ RejectTcp(c)
       \/ HandshakeSucceeds(c) \/ HandshakeFails(c)
       \/ SendDone(c) \/ SendFails(c)
  \/ AcceptError \/ Wake \/ ReturnDone \/ AcceptAgain \/ Shutdown

TlsSpec == TlsInit /\ [][TlsNext]_tlsVars

(* The first branch of select! is ready while there is a backlog, whatever  *)
(* accept() then returns.                                                   *)
TcpBranch ==
  /\ backlog # <<>>
  /\ AcceptError \/ \E c \in Connections : AcceptTcp(c) \/ RejectTcp(c)

(* Tasks and the loop are polled, the timer fires, axum calls accept()      *)
(* again.  select! polls its branches in random order, so that no branch    *)
(* that is ready again and again loses for ever: strong fairness, of a      *)
(* branch and not of its outcomes.  Clients owe nothing: a handshake ends   *)
(* by its timeout.                                                          *)
TlsFairness ==
  /\ WF_tlsVars(Wake) /\ WF_tlsVars(AcceptAgain)
  /\ SF_tlsVars(TcpBranch) /\ SF_tlsVars(ReturnDone)
  /\ \A c \in Connections :
       /\ WF_tlsVars(HandshakeFails(c))
       /\ SF_tlsVars(SendDone(c))
       /\ WF_tlsVars(SendFails(c))

FairTlsSpec == TlsSpec /\ TlsFairness

-----------------------------------------------------------------------------
(* Properties.                                                              *)

TlsTypeOK ==
  /\ connection \in [Connections -> Stages]
  /\ backlog \in Seq(Connections)
  /\ permits \in 0..MaxPendingHandshakes
  /\ done \in Seq(Connections)
  /\ Len(done) <= MaxPendingHandshakes
  /\ loop \in LoopStates

(* No permit is lost, on any way a task can end: refused, broken off, timed *)
(* out, delivered, or nobody left to deliver to.  A leak would make the     *)
(* listener drop every connection after 256 of them.                        *)
PermitsConserved == permits + Cardinality(HoldsPermit) = MaxPendingHandshakes

(* The channel holds each connection that waits to be returned once, and no *)
(* other: none is lost or returned twice.                                   *)
DoneExact == ToSet(done) = InStage("done") /\ IsInjective(done)

(* From some time on, accept() does nothing but fail.                       *)
AcceptFailsForEver ==
  /\ []<>(loop = "sleep")
  /\ <>[][~\E c \in Connections : AcceptTcp(c) \/ RejectTcp(c)]_tlsVars

(* "A slow or stalling client cannot block new TCP connections from being   *)
(* accepted": every connection leaves the backlog, also while handshakes    *)
(* stall, axum is busy, finished handshakes compete for the loop, and       *)
(* errors recur, unless they are all that accept() ever returns again.      *)
BacklogDrains ==
  \/ \A c \in Connections : connection[c] = "backlog" ~> connection[c] # "backlog"
  \/ AcceptFailsForEver

(* Every handshake gives its permit back, whatever its client does, also    *)
(* when the channel is full and send() waits without a timeout.             *)
PermitReturns ==
  \A c \in Connections :
    connection[c] = "handshake" ~> connection[c] \notin {"handshake", "sending"}

(* A client whose handshake finished is handed to axum, unless the server   *)
(* shuts down first.                                                        *)
FinishedIsReturned ==
  \A c \in Connections :
    connection[c] = "sending" ~> connection[c] = "served" \/ loop = "dropped"

=============================================================================
