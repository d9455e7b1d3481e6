---------------------------- MODULE McpResource ----------------------------
(***************************************************************************)
(* The MCP server (opensovd-cli/mcp/src/main.rs), composed with the SOVD   *)
(* server it reads from and with that server's discovery task.  A read of  *)
(* the topology resource joins three list requests, a call of a tool makes *)
(* one; the server answers each under a read guard of its own              *)
(* (component_list, area_list, app_list).                                  *)
(*                                                                         *)
(* Each reader of the topology is the handler of one of the three          *)
(* requests.  A request may fail at any point of its way; try_join! then   *)
(* drops the other two, whose handlers the server may finish or cancel.    *)
(* The end of the MCP server drops whatever it does.  One resource is read,*)
(* or one tool called, at a time.                                          *)
(***************************************************************************)
EXTENDS Discovery

CONSTANT KindOf  \* the kind of entity each of the three requests lists

Kinds == {"component", "app", "area"}

(* What list_resources offers; a client may ask for anything.               *)
Resources == {"sovd://topology"}
Uris == Resources \union {"sovd://other"}

ASSUME KindOfAssumption == KindOf \in [Readers -> Kinds]

VARIABLES
  service,   \* how far serve() is
  resource,  \* what read_resource, or the tool, does or returned
  wanted,    \* the requests it consists of
  request,   \* how far each list request got
  list,      \* the list in the response to each request
  versions   \* history: the entities of each version of the registry since
             \* the read of the resource began

mcpVars == <<service, resource, wanted, request, list, versions>>
systemVars == <<discoveryVars, mcpVars>>

McpInit ==
  /\ DiscoveryInit
  /\ service = "starting"
  /\ resource = "none"
  /\ wanted = {}
  /\ request = [r \in Readers |-> "unsent"]
  /\ list = [r \in Readers |-> {}]
  /\ versions = {}

(* What the server has at this point of the read.                           *)
NoteVersion == versions' = IF resource = "joining" THEN versions \union {committed'.entities}
                                                  ELSE versions

-----------------------------------------------------------------------------
(* serve()                                                                  *)

(* Client::connect takes the URL, and a peer shakes hands over stdio.  The  *)
(* peer may start the server again after it failed or stopped.              *)
ServiceStarts ==
  /\ service # "serving"
  /\ service' \in {"serving", "failed"}
  /\ UNCHANGED <<discoveryVars, resource, wanted, request, list, versions>>

(* The peer has closed stdio, or the shutdown signal cancels the service;   *)
(* nobody waits for the requests under way.                                 *)
ServiceStops ==
  /\ service = "serving"
  /\ service' = "stopped"
  /\ resource' = IF resource = "joining" THEN "dropped" ELSE resource
  /\ UNCHANGED <<discoveryVars, wanted, request, list, versions>>

-----------------------------------------------------------------------------
(* The resource and the tools.                                              *)

Join(requests) ==
  /\ service = "serving" /\ resource # "joining"
  /\ \A r \in Readers : mode[r] = "idle"
  /\ resource' = "joining"
  /\ wanted' = requests
  /\ request' = [r \in Readers |-> "unsent"]
  /\ list' = [r \in Readers |-> {}]
  /\ versions' = {committed.entities}
  /\ UNCHANGED <<discoveryVars, service>>

(* Mutated form: the lists of the last read are still there.                *)
ReadResourceKeepsLists(uri) ==
  /\ uri \in Resources
  /\ service = "serving" /\ resource # "joining"
  /\ \A r \in Readers : mode[r] = "idle"
  /\ resource' = "joining"
  /\ wanted' = Readers
  /\ request' = [r \in Readers |-> IF request[r] = "unsent" THEN "unsent" ELSE "answered"]
  /\ versions' = {committed.entities}
  /\ UNCHANGED <<discoveryVars, service, list>>

ReadResource(uri) ==
  \/ uri \in Resources /\ Join(Readers)
  \/ /\ uri \notin Resources
     /\ service = "serving" /\ resource # "joining"
     /\ resource' = "error"
     /\ UNCHANGED <<discoveryVars, service, wanted, request, list, versions>>

(* list_components, list_areas or list_apps.                                *)
CallTool(r) == Join({r})

ReceiveList(r) ==
  /\ resource = "joining" /\ r \in wanted
  /\ request[r] = "answered"
  /\ request' = [request EXCEPT ![r] = "received"]
  /\ resource' = IF \A s \in wanted : request'[s] = "received" THEN "ok" ELSE "joining"
  /\ UNCHANGED <<discoveryVars, service, wanted, list, versions>>

ListFails(r) ==
  /\ resource = "joining" /\ r \in wanted
  /\ request[r] # "received"
  /\ resource' = "error"
  /\ UNCHANGED <<discoveryVars, service, wanted, request, list, versions>>

-----------------------------------------------------------------------------
(* The list handlers of the server.                                         *)

HandleList(r) ==
  /\ resource = "joining" /\ r \in wanted
  /\ request[r] = "unsent"
  /\ Request(r)
  /\ request' = [request EXCEPT ![r] = "sent"]
  /\ UNCHANGED <<taskVars, service, resource, wanted, list, versions>>

LockForList(r) ==
  /\ GrantRead(r)
  /\ UNCHANGED <<taskVars, mcpVars>>

Slice(entities, kind) == {ref \in entities : ref.kind = kind}

(* The response is complete before the guard is dropped.                    *)
AnswerList(r) ==
  /\ DropReadGuard(r)
  /\ list' = [list EXCEPT ![r] = Slice(Present, KindOf[r])]
  /\ request' = [request EXCEPT ![r] = "answered"]
  /\ UNCHANGED <<taskVars, service, resource, wanted, versions>>

(* The client hung up.                                                      *)
HandlerCancelled(r) ==
  /\ resource \in {"error", "dropped"}
  /\ CancelWait(r)
  /\ UNCHANGED <<taskVars, mcpVars>>

-----------------------------------------------------------------------------

McpNext ==
  \/ ServiceStarts \/ ServiceStops
  \/ \E uri \in Uris : ReadResource(uri)
  \/ \E r \in Readers :
       \/ CallTool(r) \/ ReceiveList(r) \/ ListFails(r)
       \/ HandleList(r) \/ LockForList(r) \/ AnswerList(r) \/ HandlerCancelled(r)
  \/ TaskStep /\ NoteVersion /\ UNCHANGED <<service, resource, wanted, request, list>>

McpSpec == McpInit /\ [][McpNext]_systemVars

-----------------------------------------------------------------------------
(* Properties.                                                              *)

(* The entities in what read_resource or the tool returns.                  *)
Text == UNION {list[r] : r \in wanted}

(* Each list is one version's entities of its kind, a version the registry  *)
(* had during the read: no list shows a diff half applied, or what an       *)
(* earlier read found.                                                      *)
ListsAreReal ==
  resource = "ok" =>
    \A r \in wanted : \E entities \in versions : list[r] = Slice(entities, KindOf[r])

(* "Snapshot of the SOVD entity hierarchy: components, areas, and apps":    *)
(* the text shows one version of the registry.  Three requests with three   *)
(* guards do not give that.                                                 *)
TextIsSnapshot == resource = "ok" /\ wanted = Readers => Text \in versions

=============================================================================
