------------------------------ MODULE Requests ------------------------------
(***************************************************************************)
(* A request for the value of a data resource, or for a list or a summary  *)
(* of them, from the client that sends it, through authentication,         *)
(* authorisation, the extractors and the handler, to the data provider of  *)
(* the entity, and back (opensovd-server/src/auth.rs, routes/data.rs,      *)
(* routes/error.rs, opensovd-client/src/client.rs, data.rs, entities).  A  *)
(* request is a reader of the topology, whose writers go on meanwhile.     *)
(*                                                                         *)
(* A client may give up, by its timeout or because its connection breaks;  *)
(* hyper then drops the future of the request wherever it awaits.  The     *)
(* authenticator, the authorizer, the providers and their resources are    *)
(* supplied by the program that embeds the server.  A provider may never   *)
(* answer, to a list as to a read or a write; and a resource may fail      *)
(* after it took the value.  An ID is announced with the same provider     *)
(* each time.  What a list contains is the subject of DataProvider.        *)
(***************************************************************************)
EXTENDS Topology, DataResources

CONSTANTS
  Calls,        \* what clients ask for
  Identity,     \* the identity the authenticator finds for each credential
  NoIdentity,   \* none: the credential is missing or not valid
  Permitted,    \* the identities and methods the authorizer lets pass
  Providers,    \* the data provider of each entity
  NoProvider,   \* none
  Timeouts      \* requests whose client has a timeout

Methods == {"GET", "PUT"}

(* What comes after the ID of the entity in the path.                       *)
DataRoutes == {"data-categories", "data-groups", "data", "data/{data_id}"}

(* The typed requests of the client, and those it does not make itself: a   *)
(* query, or a body, may fail to parse, a value may be of another type than *)
(* the resource.                                                            *)
CallOf(methods, routes) ==
  [credential : DOMAIN Identity, method : methods, target : EntityRefs, of : routes,
   data : DataIds, wellFormed : BOOLEAN, typed : BOOLEAN]

SummaryRequest == CallOf({"GET"}, {"data-categories", "data-groups"})
ListDataRequest == CallOf({"GET"}, {"data"})
DataRequest == CallOf(Methods, {"data/{data_id}"})

ASSUME CallsAssumption == Calls \subseteq SummaryRequest \union ListDataRequest \union DataRequest
ASSUME ProvidersAssumption ==
  Providers \in [EntityRefs -> Seq(Metadata) \union {NoProvider}]
ASSUME TimeoutsAssumption == Timeouts \subseteq Readers

VARIABLES
  stage,     \* how far each request has come
  call,      \* what it asks for
  identity,  \* the identity in its extensions
  status,    \* the status it was answered with
  client,    \* what its client knows
  touched    \* history: the requests whose value reached a resource

requestVars == <<stage, call, identity, status, client, touched>>
allVars == <<vars, requestVars>>

Stages == {"unsent", "authenticating", "authorizing", "locking", "providing", "answered", "dropped"}
NoCall == <<>>
NoStatus == 0
Unauthorized == 401
Forbidden == 403
Rejections == [GET |-> {400}, PUT |-> {400, 413, 415, 422}]
Statuses == {NoStatus, 200, 204, Unauthorized, Forbidden, 404, 500}
              \union Rejections["GET"] \union Rejections["PUT"]

StatusOfDataError(error) ==
  CASE error = "not-found" -> 404
    [] error = "read-only" -> 400
    [] error = "internal" -> 500

RequestsInit ==
  /\ Init
  /\ stage = [r \in Readers |-> "unsent"]
  /\ call = [r \in Readers |-> NoCall]
  /\ identity = [r \in Readers |-> NoIdentity]
  /\ status = [r \in Readers |-> NoStatus]
  /\ client = [r \in Readers |-> "idle"]
  /\ touched = {}

-----------------------------------------------------------------------------
(* The client.                                                              *)

Send(r) ==
  /\ stage[r] = "unsent"
  /\ \E c \in Calls : call' = [call EXCEPT ![r] = c]
  /\ stage' = [stage EXCEPT ![r] = "authenticating"]
  /\ client' = [client EXCEPT ![r] = "waiting"]
  /\ UNCHANGED <<vars, identity, status, touched>>

ReceiveAnswer(r) ==
  /\ client[r] = "waiting" /\ stage[r] = "answered"
  /\ client' = [client EXCEPT ![r] = "answered"]
  /\ UNCHANGED <<vars, stage, call, identity, status, touched>>

(* The timeout expires, or the transport fails.                             *)
GiveUp(r) ==
  /\ client[r] = "waiting"
  /\ client' = [client EXCEPT ![r] = "gone"]
  /\ UNCHANGED <<vars, stage, call, identity, status, touched>>

-----------------------------------------------------------------------------
(* The middleware.                                                          *)

Answer(r, code) ==
  /\ stage' = [stage EXCEPT ![r] = "answered"]
  /\ status' = [status EXCEPT ![r] = code]

Authenticate(r) ==
  /\ stage[r] = "authenticating"
  /\ LET found == Identity[call[r].credential] IN
       \/ /\ found # NoIdentity
          /\ identity' = [identity EXCEPT ![r] = found]
          /\ stage' = [stage EXCEPT ![r] = "authorizing"]
          /\ UNCHANGED status
       \/ /\ found = NoIdentity
          /\ Answer(r, Unauthorized)
          /\ UNCHANGED identity
  /\ UNCHANGED <<vars, call, client, touched>>

(* Mutated form: the extractors come before the authorizer.                 *)
AuthorizeLast(r) ==
  /\ stage[r] = "authorizing"
  /\ \/ /\ call[r].wellFormed
        /\ <<identity[r], call[r].method>> \in Permitted
        /\ stage' = [stage EXCEPT ![r] = "locking"]
        /\ Request(r)
        /\ UNCHANGED status
     \/ /\ ~call[r].wellFormed
        /\ \E code \in Rejections[call[r].method] : Answer(r, code)
        /\ UNCHANGED vars
     \/ /\ call[r].wellFormed
        /\ <<identity[r], call[r].method>> \notin Permitted
        /\ Answer(r, Forbidden)
        /\ UNCHANGED vars
  /\ UNCHANGED <<call, identity, client, touched>>

(* The authorizer, then the extractors, up to topology.read().await.  The   *)
(* query of a GET, or the body of a PUT, may be rejected.                   *)
Authorize(r) ==
  /\ stage[r] = "authorizing"
  /\ LET permitted == <<identity[r], call[r].method>> \in Permitted IN
       \/ /\ permitted /\ call[r].wellFormed
          /\ stage' = [stage EXCEPT ![r] = "locking"]
          /\ Request(r)
          /\ UNCHANGED status
       \/ /\ permitted /\ ~call[r].wellFormed
          /\ \E code \in Rejections[call[r].method] : Answer(r, code)
          /\ UNCHANGED vars
       \/ /\ ~permitted
          /\ Answer(r, Forbidden)
          /\ UNCHANGED vars
  /\ UNCHANGED <<call, identity, client, touched>>

-----------------------------------------------------------------------------
(* The handler.                                                             *)

Locked(r) == GrantRead(r) /\ UNCHANGED requestVars

(* A provider that was built refuses what it does not have, or an adapter   *)
(* does not let through, before a resource is called.                       *)
Refusals(r) ==
  LET provider == Providers[call[r].target] IN
  IF call[r].of # "data/{data_id}" THEN {}
  ELSE IF call[r].method = "GET" THEN ReadRefusals(provider, call[r].data)
  ELSE WriteRefusals(provider, call[r].data, call[r].typed)

(* Mutated form: the guard is dropped once the provider was found.          *)
CallProviderUnguarded(r) ==
  /\ stage[r] = "locking" /\ HoldsRead(r)
  /\ call[r].target \in Present
  /\ Providers[call[r].target] # NoProvider
  /\ Refusals(r) = {}
  /\ stage' = [stage EXCEPT ![r] = "providing"]
  /\ DropReadGuard(r)
  /\ UNCHANGED <<call, identity, status, client, touched>>

(* The entity and its provider are found, and the provider is awaited under *)
(* the guard, or has refused; or there is none.                             *)
CallProvider(r) ==
  /\ stage[r] = "locking" /\ HoldsRead(r)
  /\ LET found == call[r].target \in Present /\ Providers[call[r].target] # NoProvider IN
       \/ /\ found /\ Refusals(r) = {}
          /\ stage' = [stage EXCEPT ![r] = "providing"]
          /\ UNCHANGED <<vars, status>>
       \/ /\ found
          /\ \E error \in Refusals(r) : Answer(r, StatusOfDataError(error))
          /\ DropReadGuard(r)
       \/ /\ ~found
          /\ Answer(r, 404)
          /\ DropReadGuard(r)
  /\ UNCHANGED <<call, identity, client, touched>>

(* The resource takes the value; it may still take its time to answer.      *)
ResourceTakes(r) ==
  /\ stage[r] = "providing" /\ call[r].method = "PUT" /\ r \notin touched
  /\ touched' = touched \union {r}
  /\ UNCHANGED <<vars, stage, call, identity, status, client>>

(* Ok is how a resource says that it took the value.                        *)
ProviderAnswers(r) ==
  /\ stage[r] = "providing"
  /\ call[r].method = "PUT" => r \in touched
  /\ Answer(r, IF call[r].method = "GET" THEN 200 ELSE 204)
  /\ DropReadGuard(r)
  /\ UNCHANGED <<call, identity, client, touched>>

(* A list, a summary, a read, or a write, whether the value was taken or    *)
(* not, ends in an error.                                                   *)
ProviderFails(r) ==
  /\ stage[r] = "providing"
  /\ \E error \in {"not-found", "read-only", "internal"} : Answer(r, StatusOfDataError(error))
  /\ DropReadGuard(r)
  /\ UNCHANGED <<call, identity, client, touched>>

(* Mutated form: the place in the queue stays behind.                       *)
DropFutureQueued(r) ==
  /\ client[r] = "gone"
  /\ stage[r] = "locking" /\ mode[r] = "waiting"
  /\ stage' = [stage EXCEPT ![r] = "dropped"]
  /\ UNCHANGED <<vars, call, identity, status, client, touched>>

(* Mutated form: a handler that has been called runs to its end.            *)
DropFutureEarly(r) ==
  /\ client[r] = "gone"
  /\ stage[r] \in {"authenticating", "authorizing", "locking"}
  /\ stage' = [stage EXCEPT ![r] = "dropped"]
  /\ \/ CancelWait(r)
     \/ DropReadGuard(r)
     \/ mode[r] = "idle" /\ UNCHANGED vars
  /\ UNCHANGED <<call, identity, status, client, touched>>

(* The future is dropped at one of its awaits, with its place in the queue  *)
(* or its guard.                                                            *)
DropFuture(r) ==
  /\ client[r] = "gone"
  /\ stage[r] \in {"authenticating", "authorizing", "locking", "providing"}
  /\ stage' = [stage EXCEPT ![r] = "dropped"]
  /\ \/ CancelWait(r)
     \/ DropReadGuard(r)
     \/ mode[r] = "idle" /\ UNCHANGED vars
  /\ UNCHANGED <<call, identity, status, client, touched>>

-----------------------------------------------------------------------------

RequestStep(r) ==
  Send(r) \/ ReceiveAnswer(r) \/ GiveUp(r) \/ Authenticate(r) \/ Authorize(r) \/ Locked(r)
    \/ CallProvider(r) \/ ResourceTakes(r) \/ ProviderAnswers(r) \/ ProviderFails(r)
    \/ DropFuture(r)

RequestsNext ==
  \/ \E r \in Readers : RequestStep(r)
  \/ \E w \in Writers : WriterStep(w) /\ UNCHANGED requestVars

RequestsSpec == RequestsInit /\ [][RequestsNext]_allVars

(* Authenticator and authorizer answer, the lock is granted in order, a     *)
(* writer drops its guard, a client with a timeout does not wait for ever,  *)
(* and hyper notices that it is gone.  No provider owes an answer.          *)
RequestsFairness ==
  /\ \A r \in Readers :
       /\ WF_allVars(Authenticate(r)) /\ WF_allVars(Authorize(r))
       /\ WF_allVars(Locked(r)) /\ WF_allVars(CallProvider(r))
       /\ WF_allVars(DropFuture(r))
  /\ \A r \in Timeouts : WF_allVars(GiveUp(r))
  /\ \A w \in Writers : WF_allVars((GrantWrite(w) \/ DropWriteGuard(w) \/ SendEvent(w) \/ Unlock(w))
                                     /\ UNCHANGED requestVars)

FairRequestsSpec == RequestsSpec /\ RequestsFairness

-----------------------------------------------------------------------------
(* Properties.                                                              *)

IsPermitted(c) == Identity[c.credential] # NoIdentity
                    /\ <<Identity[c.credential], c.method>> \in Permitted

(* A request stands in the queue or holds a guard exactly while its handler *)
(* waits for the lock or for the provider: the two records agree.           *)
RequestsTypeOK ==
  /\ stage \in [Readers -> Stages]
  /\ call \in [Readers -> Calls \union {NoCall}]
  /\ status \in [Readers -> Statuses]
  /\ client \in [Readers -> {"idle", "waiting", "answered", "gone"}]
  /\ touched \subseteq Readers
  /\ \A r \in Readers : mode[r] # "idle" <=> stage[r] \in {"locking", "providing"}

(* A request that may not pass learns nothing but that, whatever it names,  *)
(* and leaves no trace: it never queues for the lock and touches nothing.   *)
RefusedLearnNothing ==
  \A r \in Readers :
    call[r] # NoCall /\ ~IsPermitted(call[r]) =>
      /\ status[r] \in {NoStatus, Unauthorized, Forbidden}
      /\ mode[r] = "idle" /\ r \notin touched

(* While a provider works for a request, its entity is in the topology: the *)
(* read guard is held across the call.                                      *)
ServedEntityStays ==
  \A r \in Readers : stage[r] = "providing" => call[r].target \in Present

(* Whatever the resources do, writers get the lock as long as the clients   *)
(* have timeouts: a request that is given up takes its guard with it.       *)
WritersServed == \A w \in Writers : mode[w] = "waiting" ~> mode[w] # "waiting"

=============================================================================
