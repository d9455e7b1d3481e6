----------------------------- MODULE Deployment -----------------------------
(***************************************************************************)
(* A gateway from its command line to its routes (opensovd-cli/gateway,    *)
(* opensovd-server/src/server.rs, opensovd-extra/src/auth), stopped and    *)
(* started again with the same or other arguments, and the clones of a     *)
(* discovery client that find the API through its /version-info            *)
(* (ClientDiscovery, and client.rs for the URIs).                          *)
(*                                                                         *)
(* A URI is its scheme and its path; the host is the one the client names  *)
(* in its Host header, and comes back unchanged.  A path is the sequence   *)
(* of its segments, the last of them "" if it ends in a slash: "/" is      *)
(* <<"">>, and no path at all is <<>>.  Of a key, certificate, policy or   *)
(* header value only whether the library accepts it is kept.  The requests *)
(* of a gateway that runs are the subject of Server and Requests.          *)
(***************************************************************************)
EXTENDS ClientDiscovery

CONSTANTS
  Args,     \* the command lines the gateway is started with
  NoArg,    \* an option that is not given
  Clients,  \* how the discovery client may be built
  Allow     \* the subjects and paths for which the policies say "allow"

Schemes == {"http", "https"}
Sockets == {"path", "abstract"}         \* --unix-socket /path, --unix-socket @name
Files == {"good", "broken"}             \* of a file: can be read and parsed, or not
CorsValues == {"*", "good", "broken"}
JwtAlgorithms == {"HS512", "RS512"}

Cli == [valid : BOOLEAN, authority : BOOLEAN, scheme : Schemes \union {NoArg}, path : Seq(STRING),
        activated : BOOLEAN, unixSocket : Sockets \union {NoArg},
        jwtKey : {"base64", "text", NoArg}, jwtAlgo : JwtAlgorithms \union {"other"},
        policy : SUBSET Files, policyData : SUBSET Files,
        cert : Files \union {NoArg}, key : Files \union {NoArg}, clientCa : SUBSET Files,
        origins : SUBSET CorsValues, methods : SUBSET CorsValues, headers : SUBSET CorsValues,
        credentials : BOOLEAN, serveDir : {"path:directory", "directory", NoArg}]

Connectors == {"HttpConnector", "HttpsConnector", "UnixConnector"}
Claims == [sub : STRING, algo : STRING, ours : BOOLEAN]
Client == [scheme : Schemes, path : Seq(STRING), connector : Connectors,
           token : Claims \union {NoArg}]

ASSUME ArgsAssumption == Args \subseteq Cli /\ NoArg \notin Args
ASSUME ClientsAssumption == Clients \subseteq Client

VARIABLES
  gateway,     \* how far the gateway has come
  args,        \* its command line
  socketFile,  \* the socket's path exists in the file system
  transport,   \* how the discovery client was built
  expired      \* the client's token has expired

gatewayVars == <<gateway, args, socketFile, transport, expired>>
deploymentVars == <<clientVars, gatewayVars>>

-----------------------------------------------------------------------------
(* The parts of the configuration that may be refused.                      *)

(* FromStr of JwtAlgorithm; the key must be base64.                         *)
CreateJwtAuthenticator(a) == a.jwtAlgo \in JwtAlgorithms /\ a.jwtKey = "base64"

CreateRegoAuthorizer(a) == "broken" \notin a.policy \union a.policyData

(* Without a key there is no authenticator, and policies are not read.      *)
AuthAccepted(a) ==
  a.jwtKey # NoArg =>
    /\ CreateJwtAuthenticator(a)
    /\ a.policy # {} => CreateRegoAuthorizer(a)

(* Certificate and key come together; without them client CAs are not read. *)
TlsArgsBuild(a) ==
  CASE {a.cert, a.key} = {NoArg} -> "none"
    [] {a.cert, a.key} = {"good"} /\ "broken" \notin a.clientCa -> "tls"
    [] OTHER -> "error"

(* "*" makes the other values of a list irrelevant.                         *)
CreateCorsLayer(a) ==
  LET lists == {a.origins, a.methods, a.headers} IN
  CASE a.origins = {} -> "none"
    [] a.origins # {} /\ \/ a.credentials /\ \E values \in lists : "*" \in values
                         \/ \E values \in lists : "*" \notin values /\ "broken" \in values -> "error"
    [] OTHER -> "cors"

ListensOnUnix(a) == ~a.activated /\ a.unixSocket # NoArg

(* Mutated form: "/" is a mount path like any other.                        *)
NormalizeBaseVerbatim(path) == path

NormalizeBase(path) == IF path = <<"">> THEN <<>> ELSE path

(* What is set on the builder of the server, by the time it is built.       *)
ServerBuilder(a) ==
  [unix |-> ListensOnUnix(a),
   tls |-> TlsArgsBuild(a) = "tls",
   authenticator |-> a.jwtKey # NoArg,
   authorizer |-> a.jwtKey # NoArg /\ a.policy # {},
   base |-> [scheme |-> a.scheme, path |-> NormalizeBase(a.path)]]

(* Server::serve refuses TLS on a Unix socket.                              *)
Serves(a) ==
  /\ TlsArgsBuild(a) # "error" /\ CreateCorsLayer(a) # "error" /\ a.serveDir # "directory"
  /\ ~(ServerBuilder(a).tls /\ ServerBuilder(a).unix)

-----------------------------------------------------------------------------
(* Routes and URIs.                                                         *)

(* axum's nest() and the client's build_uri_with_query() join two paths     *)
(* with one slash, whether or not the first ends in one.                    *)
Join(base, path) == (IF base # <<>> /\ Last(base) = "" THEN Front(base) ELSE base) \o path

Routes(a) == {Join(ServerBuilder(a).base.path, path) :
                path \in {<<"version-info">>, <<"v1", "components">>}}

(* Mutated form: a configured scheme wins over local TLS.                   *)
AdvertisedAsConfigured(a) ==
  LET server == ServerBuilder(a) IN
  [scheme |-> IF server.base.scheme # NoArg THEN server.base.scheme
              ELSE IF server.tls THEN "https" ELSE "http",
   path |-> server.base.path \o <<"v1">>]

(* What /version-info advertises: the two halves are joined by format!.     *)
Advertised(a) ==
  LET server == ServerBuilder(a) IN
  [scheme |-> IF server.tls THEN "https"
              ELSE IF server.base.scheme # NoArg THEN server.base.scheme ELSE "http",
   path |-> server.base.path \o <<"v1">>]

ASSUME BodiesAssumption == \A a \in Args : Advertised(a) \in Bodies

(* A Unix connector looks at no URI; an HTTP connector takes "http" only.   *)
Connects(uri) ==
  /\ gateway = "serving"
  /\ IF transport.connector = "UnixConnector" THEN ServerBuilder(args).unix
     ELSE /\ ~ServerBuilder(args).unix
          /\ uri.scheme = "https" => transport.connector = "HttpsConnector"
          /\ uri.scheme = "https" <=> ServerBuilder(args).tls

(* The authenticator and the authorizer of a builder that was given none.   *)
NoAuth == ~ServerBuilder(args).authenticator
AllowAll == ~ServerBuilder(args).authorizer

(* JwtAuthenticator: a Bearer token with the configured algorithm, signed   *)
(* with the configured key, of the expected issuer and not expired.         *)
Authenticates(token) ==
  NoAuth \/ (token # NoArg /\ token.ours /\ token.algo = args.jwtAlgo /\ ~expired)

(* RegorusAuthorizer evaluates data.sovd.authz.allow for subject and path.  *)
Authorizes(token, path) == AllowAll \/ <<token.sub, path>> \in Allow

(* The layers are around all routes, /version-info among them.              *)
Status(path) ==
  CASE ~Authenticates(transport.token) -> 401
    [] Authenticates(transport.token) /\ ~Authorizes(transport.token, path) -> 403
    [] OTHER -> IF path \in Routes(args) THEN 200 ELSE 404

Answers(base, path) ==
  LET uri == [scheme |-> base.scheme, path |-> Join(base.path, path)] IN
  Connects(uri) /\ Status(uri.path) = 200

-----------------------------------------------------------------------------
(* The gateway.                                                             *)

DeploymentInit ==
  /\ ClientInit
  /\ gateway = "down"
  /\ args \in Args
  /\ socketFile = FALSE
  /\ transport \in Clients
  /\ expired = FALSE

(* run(), then serve() up to the authority of the URL.                      *)
Run(a) ==
  /\ gateway \in {"down", "failed"}
  /\ args' = a
  /\ gateway' = IF AuthAccepted(a) /\ a.valid /\ a.authority THEN "configuring" ELSE "failed"
  /\ UNCHANGED <<clientVars, socketFile, transport, expired>>

(* A socket handed over is taken before all others.  Binding fails if the   *)
(* address is another process's, or is none (TCP, or a name or path that is *)
(* not permitted).  Binding to a path of the file system creates it, and    *)
(* fails if it exists; nobody removes it.                                   *)
Bind ==
  /\ gateway = "configuring"
  /\ LET bindsPath == ListensOnUnix(args) /\ args.unixSocket = "path" IN
       \/ /\ gateway' = "failed" /\ UNCHANGED socketFile
       \/ /\ ~(bindsPath /\ socketFile)
          /\ gateway' = "bound"
          /\ socketFile' = (bindsPath \/ socketFile)
  /\ UNCHANGED <<clientVars, args, transport, expired>>

(* From the TLS files to axum::serve.                                       *)
ServeOrFail ==
  /\ gateway = "bound"
  /\ gateway' = IF Serves(args) THEN "serving" ELSE "failed"
  /\ UNCHANGED <<clientVars, args, socketFile, transport, expired>>

(* A shutdown, or a crash at any point.                                     *)
Exit ==
  /\ gateway \in {"configuring", "bound", "serving"}
  /\ gateway' = "down"
  /\ UNCHANGED <<clientVars, args, socketFile, transport, expired>>

RemoveSocketFile ==
  /\ gateway \in {"down", "failed"} /\ socketFile
  /\ socketFile' = FALSE
  /\ UNCHANGED <<clientVars, gateway, args, transport, expired>>

TokenExpires ==
  /\ transport.token # NoArg /\ ~expired
  /\ expired' = TRUE
  /\ UNCHANGED <<clientVars, gateway, args, socketFile, transport>>

-----------------------------------------------------------------------------
(* The client.                                                              *)

(* GET /version-info reaches the gateway, and passes its middleware.        *)
VersionInfoAnswered(c) ==
  /\ Answers(transport, <<"version-info">>)
  /\ ServerReplies(c, Advertised(args))
  /\ UNCHANGED gatewayVars

CallerStep(c) ==
  /\ \/ CallCached(c) \/ CallUncached(c) \/ StartFetch(c) \/ WaiterServed(c)
     \/ FetchSucceeds(c) \/ FetchFails(c) \/ Cancel(c)
  /\ UNCHANGED gatewayVars

-----------------------------------------------------------------------------

DeploymentNext ==
  \/ \E a \in Args : Run(a)
  \/ Bind \/ ServeOrFail \/ Exit \/ RemoveSocketFile \/ TokenExpires
  \/ \E c \in Callers : VersionInfoAnswered(c) \/ CallerStep(c)

DeploymentSpec == DeploymentInit /\ [][DeploymentNext]_deploymentVars

FairDeploymentSpec == DeploymentSpec /\ ClientFairness

-----------------------------------------------------------------------------
(* Properties.                                                              *)

(* The scheme in the URL of the gateway is the one under which its clients  *)
(* reach it, and the mount path does not end in a slash: of "/sovd/" the    *)
(* routes are below /sovd/v1, while /sovd//v1 is advertised.                *)
WellDeployed(a) ==
  /\ a.scheme = "https" => TlsArgsBuild(a) = "tls" \/ ListensOnUnix(a)
  /\ a.path = <<"">> \/ a.path = <<>> \/ Last(a.path) # ""

(* "select() returns a ready, versioned Client": what versions() returns    *)
(* leads to the API of the gateway it came from, as long as that serves as  *)
(* it did, and whoever was let in to ask is let in by the same token.       *)
SelectedReaches ==
  \A c \in Callers :
    /\ result[c] \in Bodies /\ gateway = "serving"
    /\ result[c] = Advertised(args) /\ WellDeployed(args)
    /\ Answers(transport, <<"version-info">>)
    => LET uri == [scheme |-> result[c].scheme,
                   path |-> Join(result[c].path, <<"components">>)] IN
       /\ Connects(uri)
       /\ Status(uri.path) \in {200, 403}

=============================================================================
