---------------------------- MODULE MCDeployment ----------------------------
(***************************************************************************)
(* TLC instance of Deployment: two clones of one discovery client, and a   *)
(* gateway started with command lines of which each differs from the       *)
(* default in one decision; the bodies of /version-info are the URIs they  *)
(* advertise.                                                              *)
(***************************************************************************)
EXTENDS Deployment

CONSTANTS k1, k2

TwoCallers == {k1, k2}

Default == [valid |-> TRUE, authority |-> TRUE, scheme |-> "http", path |-> <<"sovd">>,
            activated |-> FALSE, unixSocket |-> NoArg,
            jwtKey |-> NoArg, jwtAlgo |-> "HS512", policy |-> {}, policyData |-> {},
            cert |-> NoArg, key |-> NoArg, clientCa |-> {},
            origins |-> {}, methods |-> {}, headers |-> {}, credentials |-> FALSE,
            serveDir |-> NoArg]
Tls == [Default EXCEPT !.cert = "good", !.key = "good"]
Unix == [Default EXCEPT !.unixSocket = "path"]
Jwt == [Default EXCEPT !.jwtKey = "base64"]

Serving == {Default, [Default EXCEPT !.path = <<"">>],
            [Default EXCEPT !.path = <<"sovd", "">>], Tls,
            [Tls EXCEPT !.scheme = NoArg, !.path = <<>>],
            [Default EXCEPT !.scheme = "https", !.activated = TRUE, !.unixSocket = "path"],
            Unix, [Unix EXCEPT !.unixSocket = "abstract"], Jwt,
            [Jwt EXCEPT !.policy = {"good"}]}

Failing == {[Default EXCEPT !.authority = FALSE], [Jwt EXCEPT !.jwtKey = "text"],
            [Jwt EXCEPT !.policy = {"broken"}], [Tls EXCEPT !.key = NoArg],
            [Unix EXCEPT !.cert = "good", !.key = "good"],
            [Default EXCEPT !.origins = {"good", "*"}, !.credentials = TRUE],
            [Default EXCEPT !.serveDir = "directory"]}

CommandLines == Serving \union Failing

Plain == [scheme |-> "http", path |-> <<"sovd">>, connector |-> "HttpConnector", token |-> NoArg]
FiveClients ==
  {Plain, [Plain EXCEPT !.path = <<"sovd", "">>, !.connector = "UnixConnector"],
   [Plain EXCEPT !.scheme = "https", !.connector = "HttpsConnector"],
   [Plain EXCEPT !.path = <<"">>],
   [Plain EXCEPT !.token = [sub |-> "reader", algo |-> "HS512", ours |-> TRUE]]}

Policy == {<<"reader", <<"sovd", "version-info">> >>}

AdvertisedUris == {Advertised(a) : a \in Args}

=============================================================================
