-------------------------- MODULE DeploymentProofs --------------------------
(***************************************************************************)
(* Theorems about the discovery client, for any callers and any answers of *)
(* the server, and about a gateway that is started again and again, for    *)
(* any command lines.                                                      *)
(***************************************************************************)
EXTENDS Deployment, SequenceLemmas

-----------------------------------------------------------------------------
(* The discovery client.  Nothing is in any result that is not in the cell, *)
(* and while the cell is empty one caller at most fetches.                  *)

ClientInv ==
  /\ call \in [Callers -> CallStates]
  /\ result \in [Callers -> Bodies \union {Unset, Failure}]
  /\ reply \in [Callers -> Bodies \union {Unset}]
  /\ cell \in Bodies \union {Unset}
  /\ \A c \in Callers : result[c] \in Bodies => result[c] = cell
  /\ \A c, d \in Fetching : c = d
  /\ Fetching # {} => cell = Unset

LEMMA ClientInvInit == ClientInit => ClientInv
BY UnsetAssumption DEF ClientInit, ClientInv, CallStates, Fetching

LEMMA ClientInvStep == ClientInv /\ [ClientNext]_clientVars => ClientInv'
<1> SUFFICES ASSUME ClientInv, [ClientNext]_clientVars PROVE ClientInv'
  OBVIOUS
<1> USE UnsetAssumption DEF ClientInv, CallStates, Fetching
<1>1. ASSUME NEW c \in Callers, CallCached(c) PROVE ClientInv'
  BY <1>1 DEF CallCached, Retyped
<1>2. ASSUME NEW c \in Callers, CallUncached(c) PROVE ClientInv'
  BY <1>2 DEF CallUncached
<1>3. ASSUME NEW c \in Callers, StartFetch(c) PROVE ClientInv'
  BY <1>3 DEF StartFetch
<1>4. ASSUME NEW c \in Callers, WaiterServed(c) PROVE ClientInv'
  BY <1>4 DEF WaiterServed, Retyped
<1>5. ASSUME NEW c \in Callers, NEW body \in Bodies, ServerReplies(c, body) PROVE ClientInv'
  BY <1>5 DEF ServerReplies
<1>6. ASSUME NEW c \in Callers, FetchSucceeds(c) PROVE ClientInv'
  <2>1. /\ c \in Fetching /\ cell = Unset /\ cell' = reply[c] /\ reply[c] \in Bodies
        /\ call' = [call EXCEPT ![c] = "idle"] /\ reply' = [reply EXCEPT ![c] = Unset]
        /\ \E outcome \in {reply[c], Failure} : result' = [result EXCEPT ![c] = outcome]
    BY <1>6 DEF FetchSucceeds, Retyped
  <2>2. Fetching' = {}
    BY <2>1
  <2>3. \A d \in Callers : result[d] \notin Bodies
    BY <2>1
  <2>4. \A d \in Callers : result'[d] \in Bodies => result'[d] = cell'
    BY <2>1, <2>3
  <2>5. result' \in [Callers -> Bodies \union {Unset, Failure}]
    BY <2>1
  <2> QED
    BY <2>1, <2>2, <2>4, <2>5
<1>7. ASSUME NEW c \in Callers, FetchFails(c) PROVE ClientInv'
  BY <1>7 DEF FetchFails
<1>8. ASSUME NEW c \in Callers, Cancel(c) PROVE ClientInv'
  BY <1>8 DEF Cancel
<1>9. CASE UNCHANGED clientVars
  BY <1>9 DEF clientVars
<1> QED
  BY <1>1, <1>2, <1>3, <1>4, <1>5, <1>6, <1>7, <1>8, <1>9 DEF ClientNext

(* All calls of versions() that succeed return the same instances, however  *)
(* the answers of the server change.                                        *)
THEOREM OneAnswerHolds == ClientSpec => []OneAnswer
<1>1. ClientInv => OneAnswer
  BY DEF ClientInv, OneAnswer
<1> QED
  BY <1>1, ClientInvInit, ClientInvStep, PTL DEF ClientSpec

(* A fetch starts only if no other is under way, and none has succeeded.    *)
LEMMA FetchesOnceStep ==
  ClientInv /\ [ClientNext]_clientVars =>
    [\A c \in Fetching' \ Fetching :
       Fetching = {} /\ \A d \in Callers : result[d] \notin Bodies]_clientVars
<1> SUFFICES ASSUME ClientInv, ClientNext, NEW c \in Fetching', c \notin Fetching
             PROVE  Fetching = {} /\ \A d \in Callers : result[d] \notin Bodies
  OBVIOUS
<1> USE UnsetAssumption DEF ClientInv, CallStates
<1>1. PICK d \in Callers : StartFetch(d)
  BY DEF ClientNext, CallCached, CallUncached, WaiterServed, ServerReplies, FetchSucceeds,
         FetchFails, Cancel, Fetching
<1> QED
  BY <1>1 DEF StartFetch

(* "The first call fetches /version-info; later calls reuse the cached      *)
(* response", for any number of clones that call at once.                   *)
THEOREM FetchesOnceHolds == ClientSpec => FetchesOnce
BY ClientInvInit, ClientInvStep, FetchesOnceStep, PTL DEF ClientSpec, FetchesOnce

-----------------------------------------------------------------------------
(* The queue of the cell's permit: the callers that wait, each once.        *)

WaitersInv ==
  /\ waiters \in Seq(Callers)
  /\ NoneTwice(waiters)
  /\ \A c \in Callers : call[c] = "waiting" <=> c \in ToSet(waiters)

LEMMA WaitersInvInit == ClientInit => WaitersInv
BY DEF ClientInit, WaitersInv, NoneTwice, ToSet

LEMMA WaitersInvStep == ClientInv /\ WaitersInv /\ [ClientNext]_clientVars => WaitersInv'
<1> SUFFICES ASSUME ClientInv, WaitersInv, [ClientNext]_clientVars PROVE WaitersInv'
  OBVIOUS
<1>1. call \in [Callers -> CallStates]
  BY DEF ClientInv
<1> USE DEF WaitersInv
<1>2. ASSUME NEW c \in Callers, CallCached(c) PROVE WaitersInv'
  BY <1>2 DEF CallCached
<1>3. ASSUME NEW c \in Callers, CallUncached(c) PROVE WaitersInv'
  <2>1. call[c] = "idle" /\ call' = [call EXCEPT ![c] = "waiting"] /\ waiters' = Append(waiters, c)
    BY <1>3 DEF CallUncached
  <2>2. c \notin ToSet(waiters)
    BY <2>1
  <2>3. waiters' \in Seq(Callers) /\ NoneTwice(waiters') /\ ToSet(waiters') = ToSet(waiters) \union {c}
    BY <2>1, <2>2, AppendQueue
  <2> QED
    BY <1>1, <2>1, <2>3
<1>4. ASSUME NEW c \in Callers, StartFetch(c) PROVE WaitersInv'
  <2>1. /\ waiters # <<>> /\ Head(waiters) = c
        /\ call' = [call EXCEPT ![c] = "fetching"] /\ waiters' = Tail(waiters)
    BY <1>4 DEF StartFetch
  <2>2. waiters' \in Seq(Callers) /\ NoneTwice(waiters') /\ ToSet(waiters') = ToSet(waiters) \ {c}
    BY <2>1, TailQueue
  <2> QED
    BY <1>1, <2>1, <2>2
<1>5. ASSUME NEW c \in Callers, WaiterServed(c) \/ Cancel(c) PROVE WaitersInv'
  <2>1. call' = [call EXCEPT ![c] = "idle"] /\ waiters' = RemoveFirst(waiters, c)
    BY <1>5 DEF WaiterServed, Cancel
  <2>2. waiters' \in Seq(Callers) /\ NoneTwice(waiters') /\ ToSet(waiters') = ToSet(waiters) \ {c}
    BY <2>1, RemoveFirstQueue
  <2> QED
    BY <1>1, <2>1, <2>2
<1>6. ASSUME NEW c \in Callers, NEW body \in Bodies, ServerReplies(c, body) PROVE WaitersInv'
  BY <1>6 DEF ServerReplies
<1>7. ASSUME NEW c \in Callers, FetchSucceeds(c) \/ FetchFails(c) PROVE WaitersInv'
  <2>1. call[c] = "fetching" /\ call' = [call EXCEPT ![c] = "idle"] /\ waiters' = waiters
    BY <1>7 DEF FetchSucceeds, FetchFails
  <2> QED
    BY <1>1, <2>1
<1>8. CASE UNCHANGED clientVars
  BY <1>8 DEF clientVars
<1> QED
  BY <1>2, <1>3, <1>4, <1>5, <1>6, <1>7, <1>8 DEF ClientNext

(* Exactly the callers that wait are in the queue, so that none waits       *)
(* without ever getting the permit, and a dropped call is given none.       *)
THEOREM ClientTypeCorrect == ClientSpec => []ClientTypeOK
<1>1. ClientInv /\ WaitersInv => ClientTypeOK
  <2> SUFFICES ASSUME ClientInv, WaitersInv PROVE ClientTypeOK
    OBVIOUS
  <2>1. ASSUME NEW c \in Callers PROVE Contains(waiters, c) <=> c \in ToSet(waiters)
    BY DEF WaitersInv, Contains, ToSet
  <2> QED
    BY <2>1 DEF ClientInv, WaitersInv, ClientTypeOK
<1> QED
  BY <1>1, ClientInvInit, ClientInvStep, WaitersInvInit, WaitersInvStep, PTL DEF ClientSpec

-----------------------------------------------------------------------------
(* A deployment implements the client alone: whatever happens to the        *)
(* gateway, the cell sees a server with changing answers.                   *)

(* The gateway has been given one of the command lines.                     *)
ArgsInv == args \in Args

LEMMA ArgsInvInit == DeploymentInit => ArgsInv
BY DEF DeploymentInit, ArgsInv

LEMMA ArgsInvStep == ArgsInv /\ [DeploymentNext]_deploymentVars => ArgsInv'
<1> USE DEF ArgsInv
<1>1. ASSUME NEW a \in Args, Run(a) PROVE ArgsInv'
  BY <1>1 DEF Run
<1>2. ASSUME ArgsInv, Bind \/ ServeOrFail \/ Exit \/ RemoveSocketFile \/ TokenExpires PROVE ArgsInv'
  BY <1>2 DEF Bind, ServeOrFail, Exit, RemoveSocketFile, TokenExpires
<1>3. ASSUME ArgsInv, NEW c \in Callers, VersionInfoAnswered(c) \/ CallerStep(c) PROVE ArgsInv'
  BY <1>3 DEF VersionInfoAnswered, CallerStep, gatewayVars
<1>4. ASSUME ArgsInv, UNCHANGED deploymentVars PROVE ArgsInv'
  BY <1>4 DEF deploymentVars, gatewayVars
<1> QED
  BY <1>1, <1>2, <1>3, <1>4 DEF DeploymentNext

LEMMA DeploymentStepRefines ==
  ArgsInv /\ [DeploymentNext]_deploymentVars => [ClientNext]_clientVars
<1> SUFFICES ASSUME ArgsInv, [DeploymentNext]_deploymentVars PROVE [ClientNext]_clientVars
  OBVIOUS
<1>1. ASSUME NEW c \in Callers, VersionInfoAnswered(c) PROVE ClientNext
  BY <1>1, BodiesAssumption DEF VersionInfoAnswered, ClientNext, ArgsInv
<1>2. ASSUME NEW c \in Callers, CallerStep(c) PROVE ClientNext
  BY <1>2 DEF CallerStep, ClientNext
<1>3. CASE \/ \E a \in Args : Run(a)
           \/ Bind \/ ServeOrFail \/ Exit \/ RemoveSocketFile \/ TokenExpires
           \/ UNCHANGED deploymentVars
  BY <1>3 DEF Run, Bind, ServeOrFail, Exit, RemoveSocketFile, TokenExpires, deploymentVars
<1> QED
  BY <1>1, <1>2, <1>3 DEF DeploymentNext

(* Every step of a deployment is a step of the client, or leaves it alone.  *)
THEOREM DeploymentImplementsClient == DeploymentSpec => ClientSpec
<1>1. DeploymentInit => ClientInit
  BY DEF DeploymentInit
<1> QED
  BY <1>1, ArgsInvInit, ArgsInvStep, DeploymentStepRefines, PTL DEF DeploymentSpec, ClientSpec

-----------------------------------------------------------------------------
(* Where the advertised URI leads.                                          *)

(* A path that ends in no slash is joined by what is appended to it.        *)
LEMMA JoinPath ==
  ASSUME NEW S, NEW base \in Seq(S), base = <<>> \/ Last(base) # "", NEW path
  PROVE  Join(base, path) = base \o path
BY DEF Join

LEMMA AppendedPath ==
  ASSUME NEW S, NEW base \in Seq(S), NEW v \in S, NEW w \in S
  PROVE  (base \o <<v>>) \o <<w>> = base \o <<v, w>>
<1>1. <<v>> \in Seq(S) /\ <<w>> \in Seq(S)
  OBVIOUS
<1>2. <<v>> \o <<w>> = <<v, w>>
  <2>1. /\ <<v>> \o <<w>> \in Seq(S) /\ Len(<<v>> \o <<w>>) = 2
        /\ (<<v>> \o <<w>>)[1] = v /\ (<<v>> \o <<w>>)[2] = w
    BY <1>1, ConcatProperties
  <2>2. <<v, w>> \in Seq(S) /\ Len(<<v, w>>) = 2 /\ <<v, w>>[1] = v /\ <<v, w>>[2] = w
    OBVIOUS
  <2> HIDE <1>1
  <2>3. \A i \in 1..2 : i = 1 \/ i = 2
    OBVIOUS
  <2> QED
    BY <2>1, <2>2, <2>3, SeqEqual
<1>3. (base \o <<v>>) \o <<w>> = base \o (<<v>> \o <<w>>)
  BY <1>1, ConcatAssociative
<1> QED
  BY <1>2, <1>3

LEMMA AdvertisedPath ==
  ASSUME NEW base \in Seq(STRING)
  PROVE  Join(base \o <<"v1">>, <<"components">>) = base \o <<"v1", "components">>
<1> DEFINE advertised == base \o <<"v1">>
           Segments == STRING \union {"v1", "components"}
<1>1. "v1" \in Segments /\ "components" \in Segments /\ base \in Seq(Segments)
  OBVIOUS
<1>2. Last(advertised) = "v1" /\ advertised \in Seq(Segments)
  <2>1. <<"v1">> \in Seq(Segments) /\ Len(<<"v1">>) = 1 /\ <<"v1">>[1] = "v1"
    OBVIOUS
  <2>2. Len(base) \in Nat
    OBVIOUS
  <2> HIDE DEF Segments
  <2>3. /\ advertised \in Seq(Segments) /\ Len(advertised) = Len(base) + 1
        /\ advertised[Len(base) + 1] = "v1"
    BY <1>1, <2>1, <2>2, ConcatProperties
  <2> QED
    BY <2>3 DEF Last
<1> HIDE DEF advertised, Segments
<1>3. Join(advertised, <<"components">>) = advertised \o <<"components">>
  BY <1>2, JoinPath
<1> QED
  BY <1>1, <1>3, AppendedPath DEF advertised

(* The path that a well deployed gateway advertises is that of a route.     *)
LEMMA AdvertisedIsRouted ==
  ASSUME NEW a \in Args, WellDeployed(a)
  PROVE  Join(Advertised(a).path, <<"components">>) \in Routes(a)
<1> DEFINE base == ServerBuilder(a).base.path
<1>1. a.path \in Seq(STRING)
  BY ArgsAssumption DEF Cli
<1>2. base = NormalizeBase(a.path)
  BY DEF ServerBuilder
<1>3. base \in Seq(STRING) /\ (base = <<>> \/ Last(base) # "")
  <2>1. CASE a.path = <<"">>
    <3>1. base = <<>>
      BY <1>2, <2>1 DEF NormalizeBase
    <3> HIDE DEF base
    <3> QED
      BY <3>1
  <2>2. CASE a.path # <<"">>
    BY <1>1, <1>2, <2>2 DEF NormalizeBase, WellDeployed
  <2> QED
    BY <2>1, <2>2
<1>4. Advertised(a).path = base \o <<"v1">>
  BY DEF Advertised
<1>5. Join(base, <<"v1", "components">>) \in Routes(a)
  BY Zenon DEF Routes
<1> HIDE DEF base
<1>6. Join(base, <<"v1", "components">>) = base \o <<"v1", "components">>
  BY <1>3, JoinPath
<1> QED
  BY <1>3, <1>4, <1>5, <1>6, AdvertisedPath

(* Of a gateway that answers a client, and whose URL has the scheme of its  *)
(* listener, the client can connect to the advertised URI.                  *)
LEMMA AdvertisedConnects ==
  ASSUME NEW a, a = args, WellDeployed(a), NEW path,
         Connects([scheme |-> transport.scheme, path |-> path]), NEW uri,
         uri.scheme = Advertised(a).scheme
  PROVE  Connects(uri)
<1>1. CASE transport.connector = "UnixConnector"
  BY <1>1 DEF Connects
<1>2. CASE transport.connector # "UnixConnector"
  <2>1. /\ gateway = "serving" /\ ~ServerBuilder(args).unix
        /\ transport.scheme = "https" => transport.connector = "HttpsConnector"
        /\ transport.scheme = "https" <=> ServerBuilder(args).tls
    BY <1>2 DEF Connects
  <2>2. ServerBuilder(args).tls => uri.scheme = "https"
    BY DEF Advertised
  <2>3. ~ServerBuilder(args).tls => uri.scheme # "https"
    <3>1. ServerBuilder(args).base.scheme = args.scheme
      BY DEF ServerBuilder
    <3>2. ServerBuilder(args).tls <=> TlsArgsBuild(args) = "tls"
      BY DEF ServerBuilder
    <3>3. ServerBuilder(args).unix <=> ListensOnUnix(args)
      BY DEF ServerBuilder
    <3>4. args.scheme = "https" => TlsArgsBuild(args) = "tls" \/ ListensOnUnix(args)
      BY DEF WellDeployed
    <3> HIDE DEF WellDeployed
    <3> QED
      BY <2>1, <3>1, <3>2, <3>3, <3>4 DEF Advertised
  <2> QED
    BY <1>2, <2>1, <2>2, <2>3 DEF Connects
<1> QED
  BY <1>1, <1>2

(* Whom the middleware lets in with one path, it knows with every path.     *)
LEMMA KnownEverywhere ==
  ASSUME NEW asked, Status(asked) = 200, NEW path \in Routes(args)
  PROVE  Status(path) \in {200, 403}
<1>1. Authenticates(transport.token)
  <2>1. ~Authenticates(transport.token) => Status(asked) = 401
    BY Zenon DEF Status
  <2> QED
    BY <2>1
<1>2. ~Authorizes(transport.token, path) => Status(path) = 403
  BY <1>1, Zenon DEF Status
<1>3. Authorizes(transport.token, path) => Status(path) = 200
  BY <1>1, Zenon DEF Status
<1> QED
  BY <1>2, <1>3

(* What versions() returns leads to the API of the gateway it came from: the  *)
(* client reaches it, and gets no 401 and no 404, for all command lines and   *)
(* all clients.                                                               *)
THEOREM SelectedReachesHolds == DeploymentSpec => []SelectedReaches
<1>1. ArgsInv => SelectedReaches
  <2> SUFFICES ASSUME args \in Args, NEW c \in Callers, result[c] = Advertised(args),
                      WellDeployed(args), Answers(transport, <<"version-info">>)
               PROVE  LET uri == [scheme |-> result[c].scheme,
                                  path |-> Join(result[c].path, <<"components">>)] IN
                      Connects(uri) /\ Status(uri.path) \in {200, 403}
    BY DEF ArgsInv, SelectedReaches
  <2> DEFINE asked == [scheme |-> transport.scheme, path |-> Join(transport.path, <<"version-info">>)]
             uri == [scheme |-> result[c].scheme,
                     path |-> Join(result[c].path, <<"components">>)]
  <2>1. Connects(asked) /\ Status(asked.path) = 200
    BY DEF Answers
  <2>2. Connects(uri)
    BY <2>1, AdvertisedConnects
  <2>3. uri.path \in Routes(args)
    BY AdvertisedIsRouted
  <2>4. Status(uri.path) \in {200, 403}
    BY <2>1, <2>3, KnownEverywhere
  <2> QED
    BY <2>2, <2>4
<1> QED
  BY <1>1, ArgsInvInit, ArgsInvStep, PTL DEF DeploymentSpec

=============================================================================
