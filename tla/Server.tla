------------------------------- MODULE Server -------------------------------
(***************************************************************************)
(* A server from its configuration to its end: the serve() of the gateway  *)
(* (opensovd-cli/gateway/src/main.rs) and Server::serve() that it awaits   *)
(* (opensovd-server/src/server.rs), composed with the discovery task that  *)
(* the latter spawns and never joins, and with the handlers that axum      *)
(* calls.  One shared future is the shutdown of both; it completes only    *)
(* once one of them polls it.  The program is the gateway, or one like it  *)
(* that also registers discovery providers.                                *)
(***************************************************************************)
EXTENDS Discovery

VARIABLES
  boot,      \* how far the program has come
  listener,  \* the listener of the builder
  tls,       \* the builder has a TLS configuration
  notified   \* readiness was notified

bootVars == <<boot, listener, tls, notified>>
serverVars == <<discoveryVars, bootVars>>

BootStates == {"configuring", "bound", "built", "ready", "starting", "serving", "draining",
               "stopped", "failed"}
Listeners == {"Tcp", "Unix"}
NoListener == "none"

ServerInit ==
  /\ DiscoveryInit
  /\ boot = "configuring"
  /\ listener = NoListener
  /\ tls = FALSE
  /\ notified = FALSE

-----------------------------------------------------------------------------
(* The gateway.                                                             *)

(* A socket handed over, a Unix socket, or a TCP socket.                    *)
ConfigureListener ==
  /\ boot = "configuring"
  /\ listener' \in Listeners
  /\ boot' = "bound"
  /\ UNCHANGED <<discoveryVars, tls, notified>>

BuildServer ==
  /\ boot = "bound"
  /\ tls' \in BOOLEAN
  /\ boot' = "built"
  /\ UNCHANGED <<discoveryVars, listener, notified>>

(* The address cannot be bound, or another part of the configuration is     *)
(* wrong: main() ends with an error.                                        *)
ConfigurationFails ==
  /\ boot \in {"configuring", "bound"}
  /\ boot' = "failed"
  /\ UNCHANGED <<discoveryVars, listener, tls, notified>>

(* Mutated form: readiness is notified first of all.                        *)
NotifyReadinessFirst ==
  /\ boot \in {"configuring", "built"} /\ ~notified
  /\ notified' = TRUE
  /\ boot' = IF boot = "built" THEN "ready" ELSE boot
  /\ UNCHANGED <<discoveryVars, listener, tls>>

NotifyReadiness ==
  /\ boot = "built"
  /\ notified' = TRUE
  /\ boot' = "ready"
  /\ UNCHANGED <<discoveryVars, listener, tls>>

-----------------------------------------------------------------------------
(* Server::serve                                                            *)

(* Up to the router; without providers there is no discovery task.          *)
Serve ==
  /\ boot = "ready"
  /\ boot' = "starting"
  /\ IF Providers # {} THEN Spawn ELSE UNCHANGED discoveryVars
  /\ UNCHANGED <<listener, tls, notified>>

(* Mutated form: a Unix socket is served without TLS.                       *)
ListenPlainly ==
  /\ boot = "starting"
  /\ boot' = "serving"
  /\ UNCHANGED <<discoveryVars, listener, tls, notified>>

Listen ==
  /\ boot = "starting"
  /\ tls => listener = "Tcp"
  /\ boot' = "serving"
  /\ UNCHANGED <<discoveryVars, listener, tls, notified>>

(* local_addr() fails, or TLS was configured for a Unix socket.  The        *)
(* discovery task goes on.                                                  *)
ServeFails ==
  /\ boot = "starting"
  /\ boot' = "failed"
  /\ UNCHANGED <<discoveryVars, listener, tls, notified>>

(* The future is polled by axum, and by select! in the discovery task.      *)
ShutdownSeen ==
  /\ boot = "serving" \/ phase \in {"next", "lock"}
  /\ ShutdownFires
  /\ UNCHANGED bootVars

(* No connection is accepted, and no request read, any more.                *)
Drain ==
  /\ boot = "serving"
  /\ shutdown
  /\ boot' = "draining"
  /\ UNCHANGED <<discoveryVars, listener, tls, notified>>

(* Mutated form: the connections are not waited for.                        *)
DrainedEarly ==
  /\ boot = "draining"
  /\ boot' = "stopped"
  /\ UNCHANGED <<discoveryVars, listener, tls, notified>>

(* serve() returns once every connection has finished its request.          *)
Drained ==
  /\ boot = "draining"
  /\ \A r \in Readers : mode[r] = "idle"
  /\ boot' = "stopped"
  /\ UNCHANGED <<discoveryVars, listener, tls, notified>>

(* A request arrives only while axum accepts and reads.                     *)
Handle(r) ==
  /\ \/ boot = "serving" /\ Request(r)
     \/ CancelWait(r) \/ GrantRead(r) \/ DropReadGuard(r)
  /\ UNCHANGED <<taskVars, bootVars>>

-----------------------------------------------------------------------------

ServerNext ==
  \/ ConfigureListener \/ BuildServer \/ ConfigurationFails \/ NotifyReadiness
  \/ Serve \/ Listen \/ ServeFails \/ ShutdownSeen \/ Drain \/ Drained
  \/ \E r \in Readers : Handle(r)
  \/ RunDiscovery /\ UNCHANGED bootVars

ServerSpec == ServerInit /\ [][ServerNext]_serverVars

(* axum looks at the shutdown and at the connections it waits for.          *)
ServerFairness == WF_serverVars(Drain) /\ WF_serverVars(Drained)

FairServerSpec == ServerSpec /\ DiscoveryFairness /\ ServerFairness

-----------------------------------------------------------------------------
(* Properties.                                                              *)

(* Readiness is not notified before there is a socket that queues whoever   *)
(* connects, and the discovery task exists only once serve() was called.    *)
ServerTypeOK ==
  /\ DiscoveryTypeOK
  /\ boot \in BootStates
  /\ listener \in Listeners \union {NoListener}
  /\ tls \in BOOLEAN
  /\ notified => listener # NoListener
  /\ phase # "unspawned" => boot \in {"starting", "serving", "draining", "stopped", "failed"}

(* A request is only ever in the hands of a server that serves or drains:   *)
(* none is cut off by the return of serve(), and none that came over a      *)
(* Unix socket passes in the clear if TLS was asked for.                    *)
ServesAsConfigured ==
  (\E r \in Readers : mode[r] # "idle") =>
    /\ boot \in {"serving", "draining"}
    /\ ~(tls /\ listener = "Unix")
    /\ notified

(* serve() returns after a shutdown, whatever the discovery task was doing: *)
(* a handler that stands in the queue behind the task is still served.      *)
ServeReturns == shutdown /\ boot \in {"serving", "draining"} ~> boot = "stopped"

=============================================================================
