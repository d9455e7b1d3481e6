--------------------------- MODULE TopologyState ---------------------------
(***************************************************************************)
(* The registry behind the topology lock (opensovd-core/src/topology.rs,   *)
(* TopologyState): three maps of entities by ID and three relationship     *)
(* indexes, with one action per insert_* and remove_* method.              *)
(*                                                                         *)
(* A map is a total function in which Absent means "no such key".  Of an   *)
(* entity only its links are kept: the area of a component, the host and   *)
(* the area of an app.  An index entry whose set is empty is removed by    *)
(* the code; here a missing entry and the empty set are the same value.    *)
(* Insertion order of the IndexMaps is not modelled.                       *)
(*                                                                         *)
(* The links with which a discovery provider may announce an ID are a      *)
(* parameter, because what the indexes promise depends on whether an ID    *)
(* can be announced again (overwritten) with other links.                  *)
(***************************************************************************)
EXTENDS Naturals

CONSTANTS
  Components,      \* component IDs
  Apps,            \* app IDs
  Areas,           \* area IDs
  NoArea,          \* the area link of an entity outside every area
  Absent,          \* the value of a map at a key it does not hold
  ComponentLinks,  \* for each component, the area links it may be announced with
  AppLinks         \* for each app, the (host, area) links it may be announced with

AreaLink == Areas \union {NoArea}
AppLink  == [host : Components, area : AreaLink]

ASSUME NullsAssumption ==
  /\ NoArea \notin Areas
  /\ Absent \notin AreaLink
  /\ Absent \notin AppLink

ASSUME LinksAssumption ==
  /\ ComponentLinks \in [Components -> SUBSET AreaLink]
  /\ AppLinks \in [Apps -> SUBSET AppLink]

(* No ID is ever announced with two different links.  The theorems that    *)
(* need it name it; it is not assumed of every instance.                   *)
StableLinks ==
  /\ \A c \in Components : \A k, l \in ComponentLinks[c] : k = l
  /\ \A p \in Apps : \A k, l \in AppLinks[p] : k = l

VARIABLES
  components,        \* component ID -> its area link, or Absent
  apps,              \* app ID -> its links, or Absent
  areas,             \* IDs of the areas present
  appsByComponent,   \* component ID -> set of app IDs hosted on it
  componentsByArea,  \* area ID -> set of component IDs in that area
  appsByArea         \* area ID -> set of app IDs in that area

stateVars == <<components, apps, areas,
               appsByComponent, componentsByArea, appsByArea>>

TypeOK ==
  /\ components \in [Components -> AreaLink \union {Absent}]
  /\ apps \in [Apps -> AppLink \union {Absent}]
  /\ areas \in SUBSET Areas
  /\ appsByComponent \in [Components -> SUBSET Apps]
  /\ componentsByArea \in [Areas -> SUBSET Components]
  /\ appsByArea \in [Areas -> SUBSET Apps]

StateInit ==
  /\ components = [c \in Components |-> Absent]
  /\ apps = [p \in Apps |-> Absent]
  /\ areas = {}
  /\ appsByComponent = [c \in Components |-> {}]
  /\ componentsByArea = [a \in Areas |-> {}]
  /\ appsByArea = [a \in Areas |-> {}]

-----------------------------------------------------------------------------
(* Index updates.  The key is a link, so it may be NoArea: then there is    *)
(* no entry to touch.                                                       *)

Enter(index, key, id) ==
  [k \in DOMAIN index |-> IF k = key THEN index[k] \union {id} ELSE index[k]]

Leave(index, key, id) ==
  [k \in DOMAIN index |-> IF k = key THEN index[k] \ {id} ELSE index[k]]

Forget(index, key) == [index EXCEPT ![key] = {}]

-----------------------------------------------------------------------------
(* The methods.                                                             *)

(* The area of the entry that is overwritten, if any, keeps the ID.         *)
InsertComponent(c, area) ==
  /\ componentsByArea' = Enter(componentsByArea, area, c)
  /\ components' = [components EXCEPT ![c] = area]
  /\ UNCHANGED <<apps, areas, appsByComponent, appsByArea>>

(* Mutated form: the host index is cleaned as remove_area cleans its own.   *)
RemoveComponentCleansHosts(c) ==
  /\ components[c] # Absent
  /\ components' = [components EXCEPT ![c] = Absent]
  /\ componentsByArea' = Leave(componentsByArea, components[c], c)
  /\ appsByComponent' = Forget(appsByComponent, c)
  /\ UNCHANGED <<apps, areas, appsByArea>>

(* Mutated form: the area index is not updated.                             *)
RemoveComponentKeepsIndex(c) ==
  /\ components[c] # Absent
  /\ components' = [components EXCEPT ![c] = Absent]
  /\ UNCHANGED <<apps, areas, appsByComponent, componentsByArea, appsByArea>>

(* Apps hosted on the component stay, and stay indexed under it.            *)
RemoveComponent(c) ==
  /\ components[c] # Absent
  /\ components' = [components EXCEPT ![c] = Absent]
  /\ componentsByArea' = Leave(componentsByArea, components[c], c)
  /\ UNCHANGED <<apps, areas, appsByComponent, appsByArea>>

(* Mutated form: the host index is given the ID of the host, not the app's. *)
InsertAppSwapped(p, link) ==
  /\ appsByComponent' = Enter(appsByComponent, link.host, link.host)
  /\ appsByArea' = Enter(appsByArea, link.area, p)
  /\ apps' = [apps EXCEPT ![p] = link]
  /\ UNCHANGED <<components, areas, componentsByArea>>

InsertApp(p, link) ==
  /\ appsByComponent' = Enter(appsByComponent, link.host, p)
  /\ appsByArea' = Enter(appsByArea, link.area, p)
  /\ apps' = [apps EXCEPT ![p] = link]
  /\ UNCHANGED <<components, areas, componentsByArea>>

(* Mutated form: only the area index is updated.                            *)
RemoveAppKeepsHost(p) ==
  /\ apps[p] # Absent
  /\ apps' = [apps EXCEPT ![p] = Absent]
  /\ appsByArea' = Leave(appsByArea, apps[p].area, p)
  /\ UNCHANGED <<components, areas, appsByComponent, componentsByArea>>

RemoveApp(p) ==
  /\ apps[p] # Absent
  /\ apps' = [apps EXCEPT ![p] = Absent]
  /\ appsByComponent' = Leave(appsByComponent, apps[p].host, p)
  /\ appsByArea' = Leave(appsByArea, apps[p].area, p)
  /\ UNCHANGED <<components, areas, componentsByArea>>

(* Mutated form: inserting an area starts it with an empty index.           *)
InsertAreaResets(a) ==
  /\ areas' = areas \union {a}
  /\ componentsByArea' = Forget(componentsByArea, a)
  /\ UNCHANGED <<components, apps, appsByComponent, appsByArea>>

InsertArea(a) ==
  /\ areas' = areas \union {a}
  /\ UNCHANGED <<components, apps, appsByComponent, componentsByArea, appsByArea>>

(* The entities of the area keep their link to it.                          *)
RemoveArea(a) ==
  /\ a \in areas
  /\ areas' = areas \ {a}
  /\ componentsByArea' = Forget(componentsByArea, a)
  /\ appsByArea' = Forget(appsByArea, a)
  /\ UNCHANGED <<components, apps, appsByComponent>>

-----------------------------------------------------------------------------
(* The relationship queries.  A query that returns at most one entity       *)
(* returns a set of at most one ID.                                         *)

ComponentsPresent == {c \in Components : components[c] # Absent}
AppsPresent == {p \in Apps : apps[p] # Absent}

(* Mutated form: an index entry is listed without looking the app up.       *)
AppsOfComponentUnchecked(c) == appsByComponent[c]

AppsOfComponent(c) == appsByComponent[c] \intersect AppsPresent
ComponentsOfArea(a) == componentsByArea[a] \intersect ComponentsPresent
AppsOfArea(a) == appsByArea[a] \intersect AppsPresent

ComponentOfApp(p) ==
  {c \in ComponentsPresent : p \in AppsPresent /\ apps[p].host = c}
AreaOfComponent(c) == {a \in areas : c \in ComponentsPresent /\ components[c] = a}
AreaOfApp(p) == {a \in areas : p \in AppsPresent /\ apps[p].area = a}

-----------------------------------------------------------------------------

StateNext ==
  \/ \E c \in Components :
       \/ \E area \in ComponentLinks[c] : InsertComponent(c, area)
       \/ RemoveComponent(c)
  \/ \E p \in Apps :
       \/ \E link \in AppLinks[p] : InsertApp(p, link)
       \/ RemoveApp(p)
  \/ \E a \in Areas :
       \/ InsertArea(a)
       \/ RemoveArea(a)

StateSpec == StateInit /\ [][StateNext]_stateVars

-----------------------------------------------------------------------------
(* Properties.                                                              *)

(* However entities are announced, moved and removed, an app that is        *)
(* present is listed by the component it names as its host: also when that  *)
(* component was removed and announced again after the app (the hosts       *)
(* handler and is-located-on read the two sides of this relation).          *)
HostsComplete == \A p \in AppsPresent : p \in AppsOfComponent(apps[p].host)

(* The host index holds only apps hosted on the component ("Component ID -> *)
(* set of app IDs hosted on it"): true while no app moves to another host.  *)
HostsSound ==
  \A c \in Components : \A p \in appsByComponent[c] :
    p \in AppsPresent /\ apps[p].host = c

(* The area indexes hold only entities in the area ("Area ID -> set of      *)
(* component IDs in that area"), so that GET /areas/{id}/contains lists no  *)
(* stranger: true while no entity moves to another area.                    *)
ContainsSound ==
  \A a \in Areas :
    /\ \A c \in componentsByArea[a] : c \in ComponentsPresent /\ components[c] = a
    /\ \A p \in appsByArea[a] : p \in AppsPresent /\ apps[p].area = a

(* No query through an index lists an entity that is gone, or linked        *)
(* elsewhere: a relationship reads the same from both of its ends.          *)
IndexesSound == HostsSound /\ ContainsSound

(* The area that contains a component (area_of_component) lists it among    *)
(* its components (components_of_area): "all components contained in a      *)
(* specific area".  Not so once an area was removed and announced again.    *)
ContainsComplete ==
  \A c \in Components : \A a \in AreaOfComponent(c) : c \in ComponentsOfArea(a)

(* A step after which every membership lost is one of an entity, or of an   *)
(* area, that is gone.                                                      *)
KeepsMemberships ==
  /\ \A c \in Components : \A p \in appsByComponent[c] \ appsByComponent'[c] :
       p \notin AppsPresent'
  /\ \A a \in Areas :
       /\ \A c \in componentsByArea[a] \ componentsByArea'[a] :
            c \notin ComponentsPresent' \/ a \notin areas'
       /\ \A p \in appsByArea[a] \ appsByArea'[a] :
            p \notin AppsPresent' \/ a \notin areas'

(* No method loses a membership by the way: an ID leaves an index only when *)
(* the entity itself or the area it was indexed under is removed, never     *)
(* when something else is inserted, overwritten or removed.                 *)
MembershipKept == [][KeepsMemberships]_stateVars

=============================================================================
