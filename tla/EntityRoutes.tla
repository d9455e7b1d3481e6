---------------------------- MODULE EntityRoutes ----------------------------
(***************************************************************************)
(* The entity routes of the SOVD API (opensovd-server/src/routes, entities *)
(* and version.rs) over the registry they read, and a client that browses  *)
(* it: it starts at the root, or at /version-info, and follows the links   *)
(* of the page it has, while entities are announced, moved and removed,    *)
(* with or without a data provider.                                        *)
(*                                                                         *)
(* A URI is its path below the mount path, a sequence: <<>> is the root of *)
(* the versioned API, <<"apps", p, "belongs-to">> the belongs-to           *)
(* collection of an app.  An entity is named by its own path.  Of a page   *)
(* only the status and the links are kept; names, translations, metadata   *)
(* and schemas are copied from the entity.  A handler answers from one     *)
(* version of the registry, because it holds the read guard throughout     *)
(* (Topology, ReadsAreAtomic), so that a request is one step here.         *)
(***************************************************************************)
EXTENDS TopologyState, Sequences, SequencesExt

CONSTANTS
  TagsOf,  \* for each entity, its tags
  Queries  \* the queries the client asks with

EntityPaths == ({"components"} \X Components) \union ({"apps"} \X Apps)
                 \union ({"areas"} \X Areas)

(* The query of a page: a tag filter, which is empty by default.  The query *)
(* may fail to parse ("include-schema" is a Boolean).                       *)
EntitiesQuery == [wellFormed : BOOLEAN, tags : SUBSET UNION {TagsOf[e] : e \in EntityPaths}]

ASSUME TagsAssumption == DOMAIN TagsOf = EntityPaths
ASSUME QueriesAssumption == Queries \subseteq EntitiesQuery

VARIABLES
  withData,  \* the entities present that have a data provider
  page,      \* the page the client has: its path, status and links
  gone       \* history: resources it knows, lost since that page was served

browserVars == <<stateVars, withData, page, gone>>

PresentEntities == ({"components"} \X ComponentsPresent) \union ({"apps"} \X AppsPresent)
                     \union ({"areas"} \X areas)

(* What a page may be about: an entity, or the data of one.                 *)
Resources == PresentEntities \union {Append(e, "data") : e \in withData}

-----------------------------------------------------------------------------
(* Answers.                                                                 *)

Ok(links) == [status |-> 200, links |-> links]
EntityNotFound == [status |-> 404, links |-> {}]
ProviderNotAvailable == [status |-> 404, links |-> {}]
BadQuery == [status |-> 400, links |-> {}]

(* "Filter entities by tags (OR logic)"; no tags, no filter.                *)
Tagged(entities, query) ==
  {e \in entities : query.tags = {} \/ query.tags \intersect TagsOf[e] # {}}

DataLink(entity) == {Append(entity, "data") : e \in withData \intersect {entity}}

(* GET / links the collections that are not empty.                          *)
RootCapabilities == Ok({<<e[1]>> : e \in PresentEntities})

ComponentList(query) == Ok(Tagged({"components"} \X ComponentsPresent, query))
AppList(query) == Ok(Tagged({"apps"} \X AppsPresent, query))
AreaList(query) == Ok(Tagged({"areas"} \X areas, query))

ComponentCapabilities(c) ==
  LET self == <<"components", c>> IN
  IF c \notin ComponentsPresent THEN EntityNotFound
  ELSE Ok({Append(self, "hosts")} \union DataLink(self)
            \union {Append(self, "belongs-to") : a \in {components[c]} \ {NoArea}})

(* The host is linked by its ID, whether or not it is in the topology.      *)
AppCapabilities(p) ==
  LET self == <<"apps", p>> IN
  IF p \notin AppsPresent THEN EntityNotFound
  ELSE Ok({<<"components", apps[p].host>>} \union DataLink(self)
            \union {Append(self, "belongs-to") : a \in {apps[p].area} \ {NoArea}})

AreaCapabilities(a) ==
  IF a \notin areas THEN EntityNotFound ELSE Ok({<<"areas", a, "contains">>})

(* Mutated form: the tags that count are those of the host.                 *)
ComponentHostsByOwnTags(c, query) ==
  IF c \notin ComponentsPresent THEN EntityNotFound
  ELSE Ok({e \in {"apps"} \X AppsOfComponent(c) :
             Tagged({<<"components", c>>}, query) # {}})

ComponentHosts(c, query) ==
  IF c \notin ComponentsPresent THEN EntityNotFound
  ELSE Ok(Tagged({"apps"} \X AppsOfComponent(c), query))

ComponentBelongsTo(c, query) ==
  IF c \notin ComponentsPresent THEN EntityNotFound
  ELSE Ok(Tagged({"areas"} \X AreaOfComponent(c), query))

(* The tags of the query are not looked at.  That the host is not there is  *)
(* reported as if the app were not.                                         *)
AppIsLocatedOn(p) ==
  IF ComponentOfApp(p) = {} THEN EntityNotFound ELSE Ok({"components"} \X ComponentOfApp(p))

AppBelongsTo(p, query) ==
  IF p \notin AppsPresent THEN EntityNotFound
  ELSE Ok(Tagged({"areas"} \X AreaOfApp(p), query))

AreaContains(a, query) ==
  IF a \notin areas THEN EntityNotFound
  ELSE Ok(Tagged(({"components"} \X ComponentsOfArea(a)) \union ({"apps"} \X AppsOfArea(a)),
                 query))

(* The provider is that of the entity as it was announced last.  A built    *)
(* provider does not fail a list; what it lists is in DataProvider, and one *)
(* that fails in Requests.                                                  *)
DataList(entity) ==
  IF entity \notin PresentEntities THEN EntityNotFound
  ELSE IF entity \notin withData THEN ProviderNotAvailable ELSE Ok({})

(* The one version this server has.                                         *)
VersionInfo == Ok({<<>>})

-----------------------------------------------------------------------------
(* The router.                                                              *)

Collection(name, query) ==
  CASE name = "components" -> ComponentList(query)
    [] name = "apps" -> AppList(query)
    [] name = "areas" -> AreaList(query)
    [] name = "version-info" -> VersionInfo

Capabilities(entity) ==
  CASE entity[1] = "components" -> ComponentCapabilities(entity[2])
    [] entity[1] = "apps" -> AppCapabilities(entity[2])
    [] entity[1] = "areas" -> AreaCapabilities(entity[2])

Relation(entity, name, query) ==
  CASE entity[1] = "components" /\ name = "hosts" -> ComponentHosts(entity[2], query)
    [] entity[1] = "components" /\ name = "belongs-to" -> ComponentBelongsTo(entity[2], query)
    [] entity[1] = "apps" /\ name = "is-located-on" -> AppIsLocatedOn(entity[2])
    [] entity[1] = "apps" /\ name = "belongs-to" -> AppBelongsTo(entity[2], query)
    [] entity[1] = "areas" /\ name = "contains" -> AreaContains(entity[2], query)
    [] entity[1] # "areas" /\ name = "data" -> DataList(entity)

Answer(path, query) ==
  IF ~query.wellFormed THEN BadQuery
  ELSE CASE Len(path) = 0 -> RootCapabilities
         [] Len(path) = 1 -> Collection(path[1], query)
         [] Len(path) = 2 -> Capabilities(path)
         [] Len(path) = 3 -> Relation(<<path[1], path[2]>>, path[3], query)

-----------------------------------------------------------------------------
(* The client, and the registry under it.                                   *)

Served(path, answer) == [path |-> path, status |-> answer.status, links |-> answer.links]

BrowserInit ==
  /\ StateInit
  /\ withData = {}
  /\ page = Served(<<"version-info">>, VersionInfo)
  /\ gone = {}

(* It may always start again; of the collections only is-located-on is      *)
(* linked by no page, and known from the documentation of the API.          *)
Known ==
  page.links \union {<<"version-info">>}
    \union {Append(e, "is-located-on") :
              e \in {e \in {"apps"} \X Apps : page.path = e /\ page.status = 200}}

Browse ==
  /\ \E path \in Known : \E query \in Queries : page' = Served(path, Answer(path, query))
  /\ gone' = {}
  /\ UNCHANGED <<stateVars, withData>>

(* An entity is inserted with a provider or without one, and overwrites     *)
(* what was there under its ID, the provider included.                      *)
Provide(entity) == withData' \in {withData \union {entity}, withData \ {entity}}
Withdraw(entity) == withData' = withData \ {entity}

RegistryMethod ==
  \/ \E c \in Components :
       \/ (\E area \in ComponentLinks[c] : InsertComponent(c, area)) /\ Provide(<<"components", c>>)
       \/ RemoveComponent(c) /\ Withdraw(<<"components", c>>)
  \/ \E p \in Apps :
       \/ (\E link \in AppLinks[p] : InsertApp(p, link)) /\ Provide(<<"apps", p>>)
       \/ RemoveApp(p) /\ Withdraw(<<"apps", p>>)
  \/ \E a \in Areas :
       (InsertArea(a) \/ RemoveArea(a)) /\ UNCHANGED withData

RegistryChanges ==
  /\ RegistryMethod
  /\ gone' = gone \union {r \in Resources \ Resources' :
                            \E path \in Known : IsPrefix(r, path)}
  /\ UNCHANGED page

BrowserNext == Browse \/ RegistryChanges

BrowserSpec == BrowserInit /\ [][BrowserNext]_browserVars

-----------------------------------------------------------------------------
(* Properties.                                                              *)

(* A step that gets "not found" has an entity that was removed meanwhile,   *)
(* or one that was announced again without the data provider it had, to     *)
(* explain it.  The exception is the host of an app, which the app names    *)
(* and discovery may not have announced.                                    *)
NotFoundIsExplained ==
  page' # page /\ page'.status = 404 =>
    \/ \E r \in gone : IsPrefix(r, page'.path)
    \/ /\ page.path \in {"apps"} \X Apps
       /\ \/ page'.path \in {"components"} \X Components
          \/ /\ page'.path = Append(page.path, "is-located-on")
             /\ page.path \in PresentEntities
             /\ <<"components", apps[page.path[2]].host>> \notin PresentEntities

(* Following a link ends at "not found" only if, since the page with the    *)
(* link was served, its entity was removed or, for a link to data, was      *)
(* overwritten by one without a provider: however entities moved before,    *)
(* and whatever the indexes still hold.                                     *)
NotFoundMeansGone == [][NotFoundIsExplained]_browserVars

(* Three handlers agree on an app under one filter: listed by GET /apps and *)
(* located on a component, it is listed by that component's hosts.          *)
HostListsItsApps ==
  \A query \in Queries : \A p \in Apps : \A c \in Components :
    /\ <<"apps", p>> \in Answer(<<"apps">>, query).links
    /\ <<"components", c>> \in Answer(<<"apps", p, "is-located-on">>, query).links
    => <<"apps", p>> \in Answer(<<"components", c, "hosts">>, query).links

=============================================================================
