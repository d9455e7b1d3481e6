-------------------------- MODULE ClientDiscovery --------------------------
(***************************************************************************)
(* The discovery client (opensovd-client/src/discovery.rs): clones of a    *)
(* Discovery share one OnceCell with the body of /version-info.  Each      *)
(* caller runs versions(): it takes the body from the cell, or queues to   *)
(* be the one that fetches it.                                             *)
(*                                                                         *)
(* External: tokio's OnceCell, whose single permit goes to the waiters in  *)
(* order of arrival and which is closed once the value is set, and the     *)
(* server, whose answer may change from one request to the next.           *)
(***************************************************************************)
EXTENDS Naturals, Sequences, SequencesExt

CONSTANTS
  Callers,  \* tasks that call versions() or select() on some clone
  Bodies,   \* the bodies /version-info may have
  Unset,    \* the cell before a fetch succeeded
  Failure   \* the result of a call that failed

ASSUME UnsetAssumption == Unset \notin Bodies /\ Failure \notin Bodies /\ Unset # Failure

VARIABLES
  cell,     \* the shared cache
  call,     \* what each caller does
  waiters,  \* callers waiting for the cell's permit, in order of arrival
  reply,    \* the reply of the server, while a caller's request is under way
  result    \* how the last call of each caller ended

clientVars == <<cell, call, waiters, reply, result>>

CallStates == {"idle", "waiting", "fetching"}
Fetching == {c \in Callers : call[c] = "fetching"}

(* How versions() ends with a body: its vendor metadata is re-typed into    *)
(* the type the caller asked for, which may fail for one caller only.       *)
Retyped(body) == {body, Failure}

ClientInit ==
  /\ cell = Unset
  /\ call = [c \in Callers |-> "idle"]
  /\ waiters = <<>>
  /\ reply = [c \in Callers |-> Unset]
  /\ result = [c \in Callers |-> Unset]

-----------------------------------------------------------------------------
(* versions()                                                               *)

(* The cell is set: no request is sent.                                     *)
CallCached(c) ==
  /\ call[c] = "idle"
  /\ cell # Unset
  /\ \E outcome \in Retyped(cell) : result' = [result EXCEPT ![c] = outcome]
  /\ UNCHANGED <<cell, call, waiters, reply>>

(* Mutated form: the last caller is the first to get the permit.            *)
CallUncachedFirst(c) ==
  /\ call[c] = "idle"
  /\ cell = Unset
  /\ call' = [call EXCEPT ![c] = "waiting"]
  /\ waiters' = <<c>> \o waiters
  /\ result' = [result EXCEPT ![c] = Unset]
  /\ UNCHANGED <<cell, reply>>

CallUncached(c) ==
  /\ call[c] = "idle"
  /\ cell = Unset
  /\ call' = [call EXCEPT ![c] = "waiting"]
  /\ waiters' = Append(waiters, c)
  /\ result' = [result EXCEPT ![c] = Unset]
  /\ UNCHANGED <<cell, reply>>

(* Mutated form: the cell does not keep other callers from fetching.        *)
StartFetchAnyway(c) ==
  /\ waiters # <<>> /\ Head(waiters) = c
  /\ cell = Unset
  /\ call' = [call EXCEPT ![c] = "fetching"]
  /\ waiters' = Tail(waiters)
  /\ UNCHANGED <<cell, reply, result>>

(* The permit is free: the caller at the head of the queue fetches.         *)
StartFetch(c) ==
  /\ waiters # <<>> /\ Head(waiters) = c
  /\ cell = Unset
  /\ Fetching = {}
  /\ call' = [call EXCEPT ![c] = "fetching"]
  /\ waiters' = Tail(waiters)
  /\ UNCHANGED <<cell, reply, result>>

(* The cell was set meanwhile: the waiter finds the semaphore closed.       *)
WaiterServed(c) ==
  /\ call[c] = "waiting"
  /\ cell # Unset
  /\ call' = [call EXCEPT ![c] = "idle"]
  /\ waiters' = RemoveFirst(waiters, c)
  /\ \E outcome \in Retyped(cell) : result' = [result EXCEPT ![c] = outcome]
  /\ UNCHANGED <<cell, reply>>

(* The server answers; the answer is still on its way to the client.        *)
ServerReplies(c, body) ==
  /\ call[c] = "fetching"
  /\ reply[c] = Unset
  /\ reply' = [reply EXCEPT ![c] = body]
  /\ UNCHANGED <<cell, call, waiters, result>>

(* Mutated form: the body is returned, but not kept.                        *)
FetchSucceedsUncached(c) ==
  /\ call[c] = "fetching"
  /\ reply[c] # Unset
  /\ call' = [call EXCEPT ![c] = "idle"]
  /\ result' = [result EXCEPT ![c] = reply[c]]
  /\ reply' = [reply EXCEPT ![c] = Unset]
  /\ UNCHANGED <<cell, waiters>>

FetchSucceeds(c) ==
  /\ call[c] = "fetching"
  /\ reply[c] # Unset
  /\ cell' = reply[c]
  /\ call' = [call EXCEPT ![c] = "idle"]
  /\ reply' = [reply EXCEPT ![c] = Unset]
  /\ \E outcome \in Retyped(reply[c]) : result' = [result EXCEPT ![c] = outcome]
  /\ UNCHANGED waiters

(* A transport error, an error status, a body that is not a VersionInfo, or *)
(* the request timeout, which may strike with the reply already sent.  The  *)
(* permit is free again.                                                    *)
FetchFails(c) ==
  /\ call[c] = "fetching"
  /\ call' = [call EXCEPT ![c] = "idle"]
  /\ reply' = [reply EXCEPT ![c] = Unset]
  /\ result' = [result EXCEPT ![c] = Failure]
  /\ UNCHANGED <<cell, waiters>>

(* Mutated form: a dropped future stays in the queue.                       *)
CancelStillQueued(c) ==
  /\ call[c] # "idle"
  /\ call' = [call EXCEPT ![c] = "idle"]
  /\ reply' = [reply EXCEPT ![c] = Unset]
  /\ UNCHANGED <<cell, waiters, result>>

(* The future of a call is dropped at one of its awaits.                    *)
Cancel(c) ==
  /\ call[c] # "idle"
  /\ call' = [call EXCEPT ![c] = "idle"]
  /\ waiters' = RemoveFirst(waiters, c)
  /\ reply' = [reply EXCEPT ![c] = Unset]
  /\ UNCHANGED <<cell, result>>

-----------------------------------------------------------------------------

ClientNext ==
  \E c \in Callers :
    \/ CallCached(c) \/ CallUncached(c) \/ StartFetch(c) \/ WaiterServed(c)
    \/ \E body \in Bodies : ServerReplies(c, body)
    \/ FetchSucceeds(c) \/ FetchFails(c) \/ Cancel(c)

ClientSpec == ClientInit /\ [][ClientNext]_clientVars

(* Callers are polled, and a request ends: by its reply or by the timeout   *)
(* the client was built with.  Without a timeout nothing ends a request     *)
(* that the server never answers.                                           *)
ClientFairness ==
  \A c \in Callers :
    /\ WF_clientVars(StartFetch(c))
    /\ WF_clientVars(WaiterServed(c))
    /\ WF_clientVars(FetchSucceeds(c) \/ FetchFails(c))

FairClientSpec == ClientSpec /\ ClientFairness

-----------------------------------------------------------------------------
(* Properties.                                                              *)

ClientTypeOK ==
  /\ cell \in Bodies \union {Unset}
  /\ call \in [Callers -> CallStates]
  /\ waiters \in Seq(Callers)
  /\ reply \in [Callers -> Bodies \union {Unset}]
  /\ result \in [Callers -> Bodies \union {Unset, Failure}]
  /\ \A c \in Callers : call[c] = "waiting" <=> Contains(waiters, c)

(* "Clones share one cached /version-info fetch": all calls that succeed    *)
(* get the same instances, even if the server changes its answer, requests  *)
(* overlap, or a call is cancelled with its reply on the way.               *)
OneAnswer ==
  \A c, d \in Callers :
    result[c] \in Bodies /\ result[d] \in Bodies => result[c] = result[d]

(* "The first call fetches /version-info; later calls reuse the cached      *)
(* response": no request starts while another is under way, or after any    *)
(* call has succeeded.                                                      *)
FetchesOnce ==
  [][\A c \in Fetching' \ Fetching :
       Fetching = {} /\ \A d \in Callers : result[d] \notin Bodies]_clientVars

(* A waiting call ends: with the body another caller fetched, with its own  *)
(* fetch, or cancelled, whatever fails or is cancelled before it.           *)
WaiterEnds == \A c \in Callers : call[c] = "waiting" ~> call[c] = "idle"

=============================================================================
