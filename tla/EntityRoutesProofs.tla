------------------------- MODULE EntityRoutesProofs -------------------------
(***************************************************************************)
(* Proofs about the entity routes: that handlers agree about the host of   *)
(* an app, and that a link of a page leads to an entity or to one that is  *)
(* gone.  Both rest on what TopologyProofs says of the registry.           *)
(***************************************************************************)
EXTENDS EntityRoutes, TopologyProofs

-----------------------------------------------------------------------------
(* Paths.                                                                   *)

(* The path of a page below the capabilities of an entity.                  *)
LEMMA AppendName ==
  ASSUME NEW k, NEW i, NEW n
  PROVE  Append(<<k, i>>, n) = <<k, i, n>>
<1>1. /\ <<k, i>> \in Seq({k, i, n}) /\ Len(<<k, i>>) = 2
      /\ <<k, i, n>> \in Seq({k, i, n}) /\ Len(<<k, i, n>>) = 3
  OBVIOUS
<1>2. /\ Append(<<k, i>>, n) \in Seq({k, i, n})
      /\ Len(Append(<<k, i>>, n)) = 3
      /\ \A j \in 1 .. 3 : Append(<<k, i>>, n)[j] = <<k, i, n>>[j]
  BY <1>1
<1>3. QED
  BY <1>1, <1>2, SeqEqual

(* An entity is named by its own path,                                      *)
LEMMA PrefixOfItself ==
  ASSUME NEW k, NEW i
  PROVE  IsPrefix(<<k, i>>, <<k, i>>)
BY DEF IsPrefix

(* its data by theirs,                                                      *)
LEMMA DataPrefix ==
  ASSUME NEW k, NEW i, NEW n
  PROVE  IsPrefix(<<k, i, n>>, <<k, i, n>>)
BY DEF IsPrefix

(* and an entity by every path below it.                                    *)
LEMMA PrefixOfPage ==
  ASSUME NEW k, NEW i, NEW n
  PROVE  IsPrefix(<<k, i>>, <<k, i, n>>)
<1>1. /\ <<k, i>> \in Seq({k, i, n}) /\ Len(<<k, i>>) = 2
      /\ <<k, i, n>> \in Seq({k, i, n}) /\ Len(<<k, i, n>>) = 3
  OBVIOUS
<1>2. SubSeq(<<k, i>>, 1, 2) = <<k, i>>
  BY <1>1, SubSeqFull
<1>3. SubSeq(<<k, i, n>>, 1, 2) = <<k, i>>
  <2>1. \A j \in 1 .. 2 : <<k, i, n>>[j] \in {k, i, n}
    OBVIOUS
  <2>2. /\ SubSeq(<<k, i, n>>, 1, 2) \in Seq({k, i, n})
        /\ Len(SubSeq(<<k, i, n>>, 1, 2)) = 2
        /\ \A j \in 1 .. 2 : SubSeq(<<k, i, n>>, 1, 2)[j] = <<k, i, n>>[j]
    BY <2>1, SubSeqProperties
  <2>3. \A j \in 1 .. 2 : <<k, i, n>>[j] = <<k, i>>[j]
    OBVIOUS
  <2>4. \A j \in 1 .. Len(SubSeq(<<k, i, n>>, 1, 2)) :
          SubSeq(<<k, i, n>>, 1, 2)[j] = <<k, i>>[j]
    BY <2>2, <2>3, Zenon
  <2>5. QED
    BY <1>1, <2>2, <2>4, SeqEqual, Zenon
<1>4. Len(<<k, i>>) <= Len(<<k, i, n>>)
  OBVIOUS
<1>5. SubSeq(<<k, i>>, 1, Len(<<k, i>>)) = SubSeq(<<k, i, n>>, 1, Len(<<k, i>>))
  BY <1>1, <1>2, <1>3, Zenon
<1>6. QED
  BY <1>4, <1>5, Zenon DEF IsPrefix
(* The two together, for a path that is known to have two segments.         *)
LEMMA PrefixOfAppend ==
  ASSUME NEW k, NEW i, NEW n, NEW path, path = <<k, i>>
  PROVE  IsPrefix(path, Append(path, n)) /\ Append(path, n) = <<k, i, n>>
<1>1. Append(path, n) = <<k, i, n>>
  BY AppendName
<1>2. IsPrefix(<<k, i>>, <<k, i, n>>)
  BY PrefixOfPage
<1>3. IsPrefix(path, <<k, i, n>>)
  BY <1>2
<1>4. QED
  BY <1>1, <1>3

-----------------------------------------------------------------------------
(* The router.                                                              *)

(* The number of segments selects the handlers.                             *)
LEMMA Routes ==
  ASSUME NEW query, query.wellFormed
  PROVE  /\ Answer(<<>>, query) = RootCapabilities
         /\ \A n : Answer(<<n>>, query) = Collection(n, query)
         /\ \A k, i : Answer(<<k, i>>, query) = Capabilities(<<k, i>>)
         /\ \A k, i, n : Answer(<<k, i, n>>, query) = Relation(<<k, i>>, n, query)
<1>1. Answer(<<>>, query) = RootCapabilities
  BY DEF Answer
<1>2. ASSUME NEW n PROVE Answer(<<n>>, query) = Collection(n, query)
  BY DEF Answer
<1>3. ASSUME NEW k, NEW i PROVE Answer(<<k, i>>, query) = Capabilities(<<k, i>>)
  BY DEF Answer
<1>4. ASSUME NEW k, NEW i, NEW n
      PROVE  Answer(<<k, i, n>>, query) = Relation(<<k, i>>, n, query)
  BY DEF Answer
<1> QED
  BY <1>1, <1>2, <1>3, <1>4


(* The first segment, and the third, select the handler.                    *)
LEMMA Dispatch ==
  ASSUME NEW query, NEW id
  PROVE  /\ Collection("components", query) = ComponentList(query)
         /\ Collection("apps", query) = AppList(query)
         /\ Collection("areas", query) = AreaList(query)
         /\ Collection("version-info", query) = VersionInfo
         /\ Capabilities(<<"components", id>>) = ComponentCapabilities(id)
         /\ Capabilities(<<"apps", id>>) = AppCapabilities(id)
         /\ Capabilities(<<"areas", id>>) = AreaCapabilities(id)
         /\ Relation(<<"components", id>>, "hosts", query) = ComponentHosts(id, query)
         /\ Relation(<<"components", id>>, "belongs-to", query) = ComponentBelongsTo(id, query)
         /\ Relation(<<"components", id>>, "data", query) = DataList(<<"components", id>>)
         /\ Relation(<<"apps", id>>, "is-located-on", query) = AppIsLocatedOn(id)
         /\ Relation(<<"apps", id>>, "belongs-to", query) = AppBelongsTo(id, query)
         /\ Relation(<<"apps", id>>, "data", query) = DataList(<<"apps", id>>)
         /\ Relation(<<"areas", id>>, "contains", query) = AreaContains(id, query)
<1>1. /\ Collection("components", query) = ComponentList(query)
      /\ Collection("apps", query) = AppList(query)
      /\ Collection("areas", query) = AreaList(query)
      /\ Collection("version-info", query) = VersionInfo
  BY DEF Collection
<1>2. /\ Capabilities(<<"components", id>>) = ComponentCapabilities(id)
      /\ Capabilities(<<"apps", id>>) = AppCapabilities(id)
      /\ Capabilities(<<"areas", id>>) = AreaCapabilities(id)
  BY DEF Capabilities
<1>3. /\ Relation(<<"components", id>>, "hosts", query) = ComponentHosts(id, query)
      /\ Relation(<<"components", id>>, "belongs-to", query) = ComponentBelongsTo(id, query)
      /\ Relation(<<"components", id>>, "data", query) = DataList(<<"components", id>>)
  BY DEF Relation
<1>4. /\ Relation(<<"apps", id>>, "is-located-on", query) = AppIsLocatedOn(id)
      /\ Relation(<<"apps", id>>, "belongs-to", query) = AppBelongsTo(id, query)
      /\ Relation(<<"apps", id>>, "data", query) = DataList(<<"apps", id>>)
  BY DEF Relation
<1>5. Relation(<<"areas", id>>, "contains", query) = AreaContains(id, query)
  BY DEF Relation
<1> QED
  BY <1>1, <1>2, <1>3, <1>4, <1>5

(* Which handler answers a path with an entity in it.                       *)
LEMMA Answers ==
  ASSUME NEW query, query.wellFormed, NEW id
  PROVE  /\ Answer(<<"components", id>>, query) = ComponentCapabilities(id)
         /\ Answer(<<"components", id, "hosts">>, query) = ComponentHosts(id, query)
         /\ Answer(<<"components", id, "belongs-to">>, query) = ComponentBelongsTo(id, query)
         /\ Answer(<<"components", id, "data">>, query) = DataList(<<"components", id>>)
         /\ Answer(<<"apps", id>>, query) = AppCapabilities(id)
         /\ Answer(<<"apps", id, "is-located-on">>, query) = AppIsLocatedOn(id)
         /\ Answer(<<"apps", id, "belongs-to">>, query) = AppBelongsTo(id, query)
         /\ Answer(<<"apps", id, "data">>, query) = DataList(<<"apps", id>>)
         /\ Answer(<<"areas", id>>, query) = AreaCapabilities(id)
         /\ Answer(<<"areas", id, "contains">>, query) = AreaContains(id, query)
<1>1. /\ Answer(<<"components", id>>, query) = Capabilities(<<"components", id>>)
      /\ Answer(<<"apps", id>>, query) = Capabilities(<<"apps", id>>)
      /\ Answer(<<"areas", id>>, query) = Capabilities(<<"areas", id>>)
  BY Routes, Zenon
<1>2. ASSUME NEW k, NEW n PROVE Answer(<<k, id, n>>, query) = Relation(<<k, id>>, n, query)
  BY Routes, Zenon
<1>3. /\ Capabilities(<<"components", id>>) = ComponentCapabilities(id)
      /\ Capabilities(<<"apps", id>>) = AppCapabilities(id)
      /\ Capabilities(<<"areas", id>>) = AreaCapabilities(id)
  BY Dispatch, Zenon
<1>4. /\ Answer(<<"components", id, "hosts">>, query) = ComponentHosts(id, query)
      /\ Answer(<<"components", id, "belongs-to">>, query) = ComponentBelongsTo(id, query)
      /\ Answer(<<"components", id, "data">>, query) = DataList(<<"components", id>>)
  BY <1>2, Dispatch, Zenon
<1>5. /\ Answer(<<"apps", id, "is-located-on">>, query) = AppIsLocatedOn(id)
      /\ Answer(<<"apps", id, "belongs-to">>, query) = AppBelongsTo(id, query)
      /\ Answer(<<"apps", id, "data">>, query) = DataList(<<"apps", id>>)
      /\ Answer(<<"areas", id, "contains">>, query) = AreaContains(id, query)
  BY <1>2, Dispatch, Zenon
<1> QED
  BY <1>1, <1>3, <1>4, <1>5, Zenon

-----------------------------------------------------------------------------
(* Pages.                                                                   *)

Collections == {<<>>, <<"components">>, <<"apps">>, <<"areas">>, <<"version-info">>}

(* The capabilities of an entity and the pages they may link to below it;   *)
(* its data, which it may have or not, is a page of its own.                *)
DataPaths == {<<k, i, "data">> : k \in {"components", "apps"}, i \in Components \union Apps}

PagesOf(r) ==
  {r} \union
  {<<r[1], r[2], name>> : name \in
     {name \in {"hosts", "belongs-to", "contains"} :
        /\ r \in EntityPaths
        /\ \/ name = "hosts" /\ r[1] = "components"
           \/ name = "belongs-to" /\ r[1] \in {"components", "apps"}
           \/ name = "contains" /\ r[1] = "areas"}}

(* What a page may link to, apart from the host of an app.                  *)
Linked == Collections \union UNION {PagesOf(r) : r \in Resources}
Hosts == {"components"} \X Components
AppPages == {"apps"} \X Apps

(* Entities have paths of two segments, their data have paths of three.     *)
LEMMA TwoOrThree ==
  ASSUME NEW e \in EntityPaths, NEW d \in DataPaths
  PROVE  e # d /\ d \notin EntityPaths
BY DEF EntityPaths, DataPaths

(* The pages of an entity, kind by kind.                                    *)
LEMMA Pages ==
  ASSUME NEW e \in EntityPaths, NEW path \in PagesOf(e)
  PROVE  \/ \E c \in Components : /\ e = <<"components", c>>
                                 /\ \/ path = e
                                    \/ path = <<"components", c, "hosts">>
                                    \/ path = <<"components", c, "belongs-to">>
         \/ \E p \in Apps : /\ e = <<"apps", p>>
                           /\ \/ path = e
                              \/ path = <<"apps", p, "belongs-to">>
         \/ \E a \in Areas : /\ e = <<"areas", a>>
                            /\ \/ path = e
                               \/ path = <<"areas", a, "contains">>
BY DEF EntityPaths, PagesOf

(* Data has no pages below it that anything links.                          *)
LEMMA DataPage ==
  ASSUME NEW d \in DataPaths
  PROVE  PagesOf(d) = {d}
BY TwoOrThree DEF PagesOf

(* Which handler answers which of them.                                     *)
LEMMA PageAnswers ==
  ASSUME NEW e \in EntityPaths, NEW path \in PagesOf(e), NEW query, query.wellFormed
  PROVE  \/ \E c \in Components :
              /\ e = <<"components", c>>
              /\ \/ Answer(path, query) = ComponentCapabilities(c) /\ path = e
                 \/ Answer(path, query) = ComponentHosts(c, query)
                 \/ Answer(path, query) = ComponentBelongsTo(c, query)
         \/ \E p \in Apps :
              /\ e = <<"apps", p>>
              /\ \/ Answer(path, query) = AppCapabilities(p) /\ path = e
                 \/ Answer(path, query) = AppBelongsTo(p, query)
         \/ \E a \in Areas :
              /\ e = <<"areas", a>>
              /\ \/ Answer(path, query) = AreaCapabilities(a) /\ path = e
                 \/ Answer(path, query) = AreaContains(a, query)
<1>1. ASSUME NEW c \in Components, e = <<"components", c>>,
             \/ path = e
             \/ path = <<"components", c, "hosts">>
             \/ path = <<"components", c, "belongs-to">>
      PROVE  \/ Answer(path, query) = ComponentCapabilities(c) /\ path = e
             \/ Answer(path, query) = ComponentHosts(c, query)
             \/ Answer(path, query) = ComponentBelongsTo(c, query)
  BY <1>1, Answers, Zenon
<1>2. ASSUME NEW p \in Apps, e = <<"apps", p>>,
             path = e \/ path = <<"apps", p, "belongs-to">>
      PROVE  \/ Answer(path, query) = AppCapabilities(p) /\ path = e
             \/ Answer(path, query) = AppBelongsTo(p, query)
  BY <1>2, Answers, Zenon
<1>3. ASSUME NEW a \in Areas, e = <<"areas", a>>,
             path = e \/ path = <<"areas", a, "contains">>
      PROVE  \/ Answer(path, query) = AreaCapabilities(a) /\ path = e
             \/ Answer(path, query) = AreaContains(a, query)
  BY <1>3, Answers, Zenon
<1>4. CASE \E c \in Components : e = <<"components", c>>
  BY <1>1, <1>4, Pages
<1>5. CASE \E p \in Apps : e = <<"apps", p>>
  BY <1>2, <1>5, Pages
<1>6. CASE \E a \in Areas : e = <<"areas", a>>
  BY <1>3, <1>6, Pages
<1> QED
  BY <1>4, <1>5, <1>6 DEF EntityPaths

(* Data, and what is asked of it.                                           *)
LEMMA DataAnswer ==
  ASSUME NEW d \in DataPaths, NEW query, query.wellFormed
  PROVE  Answer(d, query) = DataList(<<d[1], d[2]>>)
<1>1. PICK k \in {"components", "apps"}, i \in Components \union Apps : d = <<k, i, "data">>
  BY DEF DataPaths
<1>2. d[1] = k /\ d[2] = i
  BY <1>1
<1>3. Answer(<<k, i, "data">>, query) = DataList(<<k, i>>)
  BY Answers, Zenon
<1> QED
  BY <1>1, <1>2, <1>3

(* The pages of an entity, or of data, lie below its path.                  *)
LEMMA PrefixOfPages ==
  ASSUME NEW r \in EntityPaths \union DataPaths, NEW path \in PagesOf(r)
  PROVE  IsPrefix(r, path)
<1>1. ASSUME r \in EntityPaths PROVE IsPrefix(r, path)
  <2>1. PICK k, i : r = <<k, i>> /\ (path = <<k, i>> \/ \E n : path = <<k, i, n>>)
    BY <1>1 DEF EntityPaths, PagesOf
  <2> QED
    BY <2>1, PrefixOfItself, PrefixOfPage, Zenon
<1>2. ASSUME r \in DataPaths PROVE IsPrefix(r, path)
  <2>1. path = r
    BY <1>2, DataPage
  <2>2. PICK k \in {"components", "apps"}, i \in Components \union Apps : r = <<k, i, "data">>
    BY <1>2 DEF DataPaths
  <2> QED
    BY <2>1, <2>2, DataPrefix, Zenon
<1> QED
  BY <1>1, <1>2

(* An entity is present when the registry has its ID.                       *)
LEMMA PresentIsKept ==
  ASSUME NEW id
  PROVE  /\ <<"components", id>> \in PresentEntities <=> id \in ComponentsPresent
         /\ <<"apps", id>> \in PresentEntities <=> id \in AppsPresent
         /\ <<"areas", id>> \in PresentEntities <=> id \in areas
BY DEF PresentEntities

(* The data that is there is that of entities that are present.             *)
Providing == ({"components"} \X Components) \union ({"apps"} \X Apps)
DataInv == withData \subseteq PresentEntities \intersect Providing

LEMMA DataOfEntity ==
  ASSUME NEW e \in Providing
  PROVE  /\ Append(e, "data") \in DataPaths
         /\ Append(e, "data")[1] = e[1] /\ Append(e, "data")[2] = e[2]
         /\ e = <<e[1], e[2]>>
<1>1. PICK k \in {"components", "apps"}, i \in Components \union Apps : e = <<k, i>>
  BY DEF Providing
<1>2. Append(e, "data") = <<k, i, "data">>
  BY <1>1, AppendName
<1> QED
  BY <1>1, <1>2 DEF DataPaths

(* Resources are entities and their data.                                   *)
LEMMA ResourcesType ==
  ASSUME TypeOK, DataInv
  PROVE  /\ PresentEntities \subseteq EntityPaths
         /\ \A r \in Resources : r \in PresentEntities \/ r \in DataPaths
         /\ \A d \in DataPaths : d \in Resources => <<d[1], d[2]>> \in withData
         /\ \A e \in EntityPaths : e \in Resources => e \in PresentEntities
         /\ \A k, i : <<k, i>> \in withData => <<k, i, "data">> \in Resources \intersect DataPaths
<1>1. PresentEntities \subseteq EntityPaths
  BY DEF TypeOK, PresentEntities, EntityPaths, ComponentsPresent, AppsPresent
<1>2. withData \subseteq Providing
  BY DEF DataInv
<1>3. ASSUME NEW e \in withData PROVE Append(e, "data") \in DataPaths
  BY <1>2, DataOfEntity
<1>4. ASSUME NEW d \in DataPaths, d \in Resources PROVE <<d[1], d[2]>> \in withData
  <2>1. d \notin PresentEntities
    BY <1>1, TwoOrThree
  <2>2. PICK e \in withData : d = Append(e, "data")
    BY <1>4, <2>1 DEF Resources
  <2> QED
    BY <1>2, <2>2, DataOfEntity
<1>5. ASSUME NEW e \in EntityPaths, e \in Resources PROVE e \in PresentEntities
  BY <1>3, <1>5, TwoOrThree DEF Resources
<1>6. ASSUME NEW k, NEW i, <<k, i>> \in withData
      PROVE  <<k, i, "data">> \in Resources \intersect DataPaths
  BY <1>3, <1>6, AppendName DEF Resources
<1>7. ASSUME NEW r \in Resources PROVE r \in PresentEntities \/ r \in DataPaths
  BY <1>3, <1>7 DEF Resources
<1> QED
  BY <1>1, <1>4, <1>5, <1>6, <1>7

(* The pages of an entity that is present, and data that is there, are      *)
(* found.                                                                   *)
LEMMA PresentAnswers ==
  ASSUME TypeOK, DataInv, NEW r \in Resources, NEW path \in PagesOf(r),
         NEW query, query.wellFormed
  PROVE  Answer(path, query).status # 404
<1> USE DEF Ok, EntityNotFound
<1>1. ASSUME NEW c \in Components, r = <<"components", c>>, r \in PresentEntities
      PROVE  /\ ComponentCapabilities(c).status = 200
             /\ ComponentHosts(c, query).status = 200
             /\ ComponentBelongsTo(c, query).status = 200
  <2>1. c \in ComponentsPresent
    BY <1>1, PresentIsKept
  <2> QED
    BY <2>1 DEF ComponentCapabilities, ComponentHosts, ComponentBelongsTo
<1>2. ASSUME NEW p \in Apps, r = <<"apps", p>>, r \in PresentEntities
      PROVE  AppCapabilities(p).status = 200 /\ AppBelongsTo(p, query).status = 200
  <2>1. p \in AppsPresent
    BY <1>2, PresentIsKept
  <2> QED
    BY <2>1 DEF AppCapabilities, AppBelongsTo
<1>3. ASSUME NEW a \in Areas, r = <<"areas", a>>, r \in PresentEntities
      PROVE  AreaCapabilities(a).status = 200 /\ AreaContains(a, query).status = 200
  <2>1. a \in areas
    BY <1>3, PresentIsKept
  <2> QED
    BY <2>1 DEF AreaCapabilities, AreaContains
<1>4. ASSUME r \in PresentEntities PROVE Answer(path, query).status = 200
  <2>1. r \in EntityPaths
    BY <1>4, ResourcesType
  <2> QED
    BY <1>1, <1>2, <1>3, <1>4, <2>1, PageAnswers
<1>5. ASSUME r \in DataPaths PROVE Answer(path, query).status = 200
  <2>1. <<r[1], r[2]>> \in withData
    BY <1>5, ResourcesType
  <2>2. DataList(<<r[1], r[2]>>).status = 200
    BY <2>1 DEF DataList, DataInv
  <2>3. path = r
    BY <1>5, DataPage
  <2>4. Answer(r, query) = DataList(<<r[1], r[2]>>)
    BY <1>5, DataAnswer
  <2> QED
    BY <2>2, <2>3, <2>4
<1> QED
  BY <1>4, <1>5, ResourcesType

(* The root and the lists are always found, and link what is present.       *)
LEMMA CollectionsAnswer ==
  ASSUME NEW path \in Collections, NEW query, query.wellFormed
  PROVE  /\ Answer(path, query).status = 200
         /\ Answer(path, query).links \subseteq Linked
<1> USE DEF Ok, Linked
<1>1. PresentEntities \subseteq Linked
  BY DEF PagesOf, Resources
<1>2. /\ ComponentList(query).links \subseteq PresentEntities
      /\ AppList(query).links \subseteq PresentEntities
      /\ AreaList(query).links \subseteq PresentEntities
      /\ ComponentList(query).status = 200
      /\ AppList(query).status = 200
      /\ AreaList(query).status = 200
  BY DEF ComponentList, AppList, AreaList, Tagged, PresentEntities
<1>3. VersionInfo.status = 200 /\ VersionInfo.links \subseteq Collections
  BY DEF VersionInfo, Collections
<1>4. RootCapabilities.status = 200 /\ RootCapabilities.links \subseteq Collections
  BY DEF RootCapabilities, PresentEntities, Collections
<1>5. \/ Answer(path, query) \in {ComponentList(query), AppList(query), AreaList(query)}
      \/ Answer(path, query) \in {RootCapabilities, VersionInfo}
  BY Routes, Dispatch DEF Collections
<1> QED
  BY <1>1, <1>2, <1>3, <1>4, <1>5

-----------------------------------------------------------------------------
(* Theorems.                                                                *)

(* A step of the browser is one of the registry, or leaves it alone.        *)
LEMMA BrowserSteps == [BrowserNext]_browserVars => [StateNext]_stateVars
<1>1. RegistryMethod => StateNext
  BY DEF RegistryMethod, StateNext
<1> QED
  BY <1>1 DEF BrowserNext, Browse, RegistryChanges, browserVars

(* Requests do not change the registry, whose theorems therefore hold.      *)
LEMMA BrowserLeavesRegistry == BrowserSpec => StateSpec
<1>1. BrowserInit => StateInit
  BY DEF BrowserInit
<1>2. [BrowserNext]_browserVars => [StateNext]_stateVars
  BY BrowserSteps
<1> QED
  BY <1>1, <1>2, PTL DEF BrowserSpec, StateSpec

(* The handlers of GET /apps, is-located-on and hosts agree on an app under *)
(* one filter, whatever is announced, overwritten or removed: the index     *)
(* that hosts reads is complete (HostsCompleteHolds).                       *)
THEOREM HostListsItsAppsHolds == BrowserSpec => []HostListsItsApps
<1>1. HostsComplete => HostListsItsApps
  <2> SUFFICES ASSUME HostsComplete, NEW query \in Queries, NEW p \in Apps, NEW c \in Components,
                      <<"apps", p>> \in Answer(<<"apps">>, query).links,
                      <<"components", c>> \in Answer(<<"apps", p, "is-located-on">>, query).links
               PROVE  <<"apps", p>> \in Answer(<<"components", c, "hosts">>, query).links
    BY DEF HostListsItsApps
  <2>1. query.wellFormed
    BY DEF Answer, BadQuery
  <2>2. <<"apps", p>> \in Tagged({"apps"} \X AppsPresent, query)
    <3>1. Answer(<<"apps">>, query) = AppList(query)
      BY <2>1, Routes, Dispatch, Zenon
    <3>2. AppList(query).links = Tagged({"apps"} \X AppsPresent, query)
      BY DEF AppList, Ok
    <3> QED
      BY <3>1, <3>2, Zenon
  <2>3. c \in ComponentsPresent /\ p \in AppsPresent /\ apps[p].host = c
    <3>1. Answer(<<"apps", p, "is-located-on">>, query) = AppIsLocatedOn(p)
      BY <2>1, Answers, Zenon
    <3> QED
      BY <3>1 DEF AppIsLocatedOn, ComponentOfApp, Ok, EntityNotFound
  <2>4. p \in AppsOfComponent(c)
    BY <2>3 DEF HostsComplete
  <2>5. Answer(<<"components", c, "hosts">>, query) = ComponentHosts(c, query)
    BY <2>1, Answers, Zenon
  <2> QED
    BY <2>2, <2>3, <2>4, <2>5 DEF ComponentHosts, Ok, Tagged
<1> QED
  BY <1>1, BrowserLeavesRegistry, HostsCompleteHolds, PTL

(* Every link of the client's page is to a collection, or to a page of a    *)
(* resource that is there or was lost since the page was served; an app's   *)
(* page also links its host, and is itself that of an app known to the      *)
(* client.                                                                  *)
LinkInv ==
  /\ gone \subseteq EntityPaths \union DataPaths
  /\ \A path \in page.links :
       \/ path \in Collections
       \/ \E r \in Resources \union gone : path \in PagesOf(r)
       \/ path \in Hosts /\ page.path \in AppPages
  /\ page.path \in AppPages /\ page.status = 200 => page.path \in PresentEntities \union gone

(* What capabilities link belongs to the pages of the entity.               *)
LEMMA OwnPages ==
  /\ \A c \in Components : /\ <<"components", c, "hosts">> \in PagesOf(<<"components", c>>)
                           /\ <<"components", c, "belongs-to">> \in PagesOf(<<"components", c>>)
  /\ \A p \in Apps : <<"apps", p, "belongs-to">> \in PagesOf(<<"apps", p>>)
  /\ \A a \in Areas : <<"areas", a, "contains">> \in PagesOf(<<"areas", a>>)
BY DEF PagesOf, EntityPaths

(* The client asks for nothing but collections, pages, and is-located-on.   *)
LEMMA KnownPaths ==
  ASSUME TypeOK, DataInv, LinkInv, NEW path \in Known
  PROVE  \/ path \in Collections
         \/ \E r \in EntityPaths \union DataPaths : path \in PagesOf(r)
         \/ \E p \in Apps : path = <<"apps", p, "is-located-on">>
<1>1. CASE path \in page.links
  <2>1. ASSUME path \in Hosts PROVE path \in EntityPaths /\ path \in PagesOf(path)
    BY <2>1 DEF Hosts, EntityPaths, PagesOf
  <2> QED
    BY <1>1, <2>1, ResourcesType DEF LinkInv
<1>2. CASE path = <<"version-info">>
  BY <1>2 DEF Collections
<1>3. ASSUME NEW e \in {"apps"} \X Apps, path = Append(e, "is-located-on")
      PROVE  \E p \in Apps : path = <<"apps", p, "is-located-on">>
  <2>1. PICK p \in Apps : e = <<"apps", p>>
    BY <1>3
  <2> QED
    BY <1>3, <2>1, AppendName, Zenon
<1> QED
  BY <1>1, <1>2, <1>3 DEF Known

(* A data list links nothing.                                               *)
LEMMA DataLinksNothing ==
  ASSUME NEW d \in DataPaths, NEW path \in PagesOf(d), NEW query, query.wellFormed
  PROVE  Answer(path, query).links = {} /\ path \notin AppPages
<1>1. path = d
  BY DataPage
<1>2. DataList(<<d[1], d[2]>>).links = {}
  BY DEF DataList, ProviderNotAvailable, EntityNotFound, Ok
<1>3. path \notin AppPages
  BY <1>1 DEF DataPaths, AppPages
<1> QED
  BY <1>1, <1>2, <1>3, DataAnswer

(* The pages of an entity link what is there, or the host of an app.        *)
LEMMA EntityLinks ==
  ASSUME TypeOK, DataInv, NEW e \in EntityPaths, NEW path \in PagesOf(e),
         NEW query, query.wellFormed
  PROVE  /\ \A link \in Answer(path, query).links :
               link \in Linked \/ (link \in Hosts /\ path \in AppPages)
         /\ path \in AppPages /\ Answer(path, query).status = 200 => path \in PresentEntities
<1> USE DEF Ok, EntityNotFound
<1>1. ASSUME NEW x \in Resources PROVE PagesOf(x) \subseteq Linked /\ x \in Linked
  BY <1>1 DEF Linked, PagesOf
<1>2. ASSUME NEW k, NEW i PROVE DataLink(<<k, i>>) \subseteq Linked
  <2>1. <<k, i>> \in withData => <<k, i, "data">> \in Resources
    BY ResourcesType
  <2> QED
    BY <1>1, <2>1, AppendName DEF DataLink
<1>3. PresentEntities \subseteq Resources
  BY DEF Resources
<1>4. ASSUME NEW c \in Components
      PROVE  /\ ComponentCapabilities(c).links \subseteq Linked
             /\ ComponentHosts(c, query).links \subseteq Linked
             /\ ComponentBelongsTo(c, query).links \subseteq Linked
  <2>1. ComponentHosts(c, query).links \subseteq PresentEntities
    BY DEF ComponentHosts, AppsOfComponent, Tagged, PresentEntities
  <2>2. ComponentBelongsTo(c, query).links \subseteq PresentEntities
    BY DEF ComponentBelongsTo, AreaOfComponent, Tagged, PresentEntities
  <2>3. CASE c \notin ComponentsPresent
    BY <1>1, <1>3, <2>1, <2>2, <2>3 DEF ComponentCapabilities
  <2>4. CASE c \in ComponentsPresent
    <3> DEFINE self == <<"components", c>>
    <3>1. self \in PresentEntities
      BY <2>4, PresentIsKept
    <3>2. Append(self, "hosts") \in PagesOf(self) /\ Append(self, "belongs-to") \in PagesOf(self)
      BY AppendName, OwnPages, Zenon
    <3>3. DataLink(self) \subseteq Linked
      BY <1>2
    <3>4. ComponentCapabilities(c).links \subseteq PagesOf(self) \union Linked
      BY <2>4, <3>2, <3>3 DEF ComponentCapabilities
    <3> QED
      BY <1>1, <1>3, <2>1, <2>2, <3>1, <3>4
  <2> QED
    BY <2>3, <2>4
<1>5. ASSUME NEW p \in Apps
      PROVE  /\ AppCapabilities(p).links \subseteq Linked \union Hosts
             /\ AppBelongsTo(p, query).links \subseteq Linked
             /\ AppCapabilities(p).status = 200 => <<"apps", p>> \in PresentEntities
  <2>1. AppBelongsTo(p, query).links \subseteq PresentEntities
    BY DEF AppBelongsTo, AreaOfApp, Tagged, PresentEntities
  <2>2. CASE p \notin AppsPresent
    BY <1>1, <1>3, <2>1, <2>2 DEF AppCapabilities
  <2>3. CASE p \in AppsPresent
    <3> DEFINE self == <<"apps", p>>
    <3>1. self \in PresentEntities
      BY <2>3, PresentIsKept
    <3>2. Append(self, "belongs-to") \in PagesOf(self)
      BY AppendName, OwnPages, Zenon
    <3>3. DataLink(self) \subseteq Linked
      BY <1>2
    <3>4. <<"components", apps[p].host>> \in Hosts
      BY <2>3 DEF TypeOK, AppsPresent, AppLink, Hosts
    <3>5. AppCapabilities(p).links \subseteq PagesOf(self) \union Linked \union Hosts
      BY <2>3, <3>2, <3>3, <3>4 DEF AppCapabilities
    <3> QED
      BY <1>1, <1>3, <2>1, <3>1, <3>5
  <2> QED
    BY <2>2, <2>3
<1>6. ASSUME NEW a \in Areas
      PROVE  /\ AreaCapabilities(a).links \subseteq Linked
             /\ AreaContains(a, query).links \subseteq Linked
  <2>1. AreaContains(a, query).links \subseteq PresentEntities
    BY DEF AreaContains, ComponentsOfArea, AppsOfArea, Tagged, PresentEntities
  <2>2. a \in areas => <<"areas", a>> \in PresentEntities
    BY PresentIsKept
  <2>3. AreaCapabilities(a).links \subseteq Linked
    BY <1>1, <1>3, <2>2, OwnPages DEF AreaCapabilities
  <2> QED
    BY <1>1, <1>3, <2>1, <2>3
<1>7. ASSUME NEW p \in Apps, path = <<"apps", p>>, Answer(path, query).status = 200
      PROVE  path \in PresentEntities
  <2>1. Answer(path, query) = AppCapabilities(p)
    BY <1>7, Answers, Zenon
  <2> QED
    BY <1>5, <1>7, <2>1
<1>8. \/ Answer(path, query).links \subseteq Linked
      \/ Answer(path, query).links \subseteq Linked \union Hosts /\ path \in AppPages
  <2>1. ASSUME NEW c \in Components, e = <<"components", c>>
        PROVE  Answer(path, query).links \subseteq Linked
    BY <1>4, <2>1, PageAnswers
  <2>2. ASSUME NEW p \in Apps, e = <<"apps", p>>
        PROVE  \/ Answer(path, query).links \subseteq Linked
               \/ Answer(path, query).links \subseteq Linked \union Hosts /\ path \in AppPages
    BY <1>5, <2>2, PageAnswers DEF AppPages
  <2>3. ASSUME NEW a \in Areas, e = <<"areas", a>>
        PROVE  Answer(path, query).links \subseteq Linked
    BY <1>6, <2>3, PageAnswers
  <2> QED
    BY <2>1, <2>2, <2>3 DEF EntityPaths
<1> QED
  BY <1>7, <1>8 DEF AppPages

(* is-located-on links a component that is present, and is not found for an *)
(* app that is present only if its host is not.                             *)
LEMMA LocatedOnLinks ==
  ASSUME NEW p \in Apps, NEW query, query.wellFormed
  PROVE  /\ Answer(<<"apps", p, "is-located-on">>, query).links \subseteq Linked
         /\ Answer(<<"apps", p, "is-located-on">>, query).status = 404 /\ p \in AppsPresent =>
              apps[p].host \notin ComponentsPresent
<1> USE DEF Ok, EntityNotFound
<1>1. Answer(<<"apps", p, "is-located-on">>, query) = AppIsLocatedOn(p)
  BY Answers, Zenon
<1>2. AppIsLocatedOn(p).links \subseteq PresentEntities
  BY DEF AppIsLocatedOn, ComponentOfApp, PresentEntities
<1>3. PresentEntities \subseteq Linked
  BY DEF Linked, PagesOf, Resources
<1>4. AppIsLocatedOn(p).status = 404 /\ p \in AppsPresent => apps[p].host \notin ComponentsPresent
  BY DEF AppIsLocatedOn, ComponentOfApp
<1> QED
  BY <1>1, <1>2, <1>3, <1>4

(* So does whatever the client asks for, with any query.                    *)
LEMMA BrowseLinks ==
  ASSUME TypeOK, DataInv, LinkInv, NEW path \in Known, NEW query
  PROVE  /\ \A link \in Answer(path, query).links :
               link \in Linked \/ (link \in Hosts /\ path \in AppPages)
         /\ path \in AppPages /\ Answer(path, query).status = 200 => path \in PresentEntities
<1>1. CASE ~query.wellFormed
  <2>1. Answer(path, query) = [status |-> 400, links |-> {}]
    BY <1>1 DEF Answer, BadQuery
  <2> QED
    BY <2>1
<1>2. CASE query.wellFormed /\ path \in Collections
  BY <1>2, CollectionsAnswer DEF Collections, AppPages
<1>3. CASE query.wellFormed /\ \E r \in EntityPaths \union DataPaths : path \in PagesOf(r)
  BY <1>3, EntityLinks, DataLinksNothing
<1>4. CASE query.wellFormed /\ \E p \in Apps : path = <<"apps", p, "is-located-on">>
  <2>1. PICK p \in Apps : path = <<"apps", p, "is-located-on">>
    BY <1>4
  <2>2. Answer(path, query).links \subseteq Linked
    BY <1>4, <2>1, LocatedOnLinks
  <2>3. path \notin AppPages
    BY <2>1 DEF AppPages
  <2> QED
    BY <2>2, <2>3
<1> QED
  BY <1>1, <1>2, <1>3, <1>4, KnownPaths

(* A provider goes with its entity.                                         *)
LEMMA DataInvStep == TypeOK /\ DataInv /\ [BrowserNext]_browserVars => DataInv'
<1> SUFFICES ASSUME TypeOK, DataInv, [BrowserNext]_browserVars PROVE DataInv'
  OBVIOUS
<1> USE DEF DataInv, PresentEntities, ComponentsPresent, AppsPresent, Provide, Withdraw
<1>1. ASSUME NEW c \in Components, NEW area \in ComponentLinks[c],
             InsertComponent(c, area), Provide(<<"components", c>>)
      PROVE  DataInv'
  <2>1. area # Absent
    BY NullsAssumption, LinksAssumption
  <2> QED
    BY <1>1, <2>1 DEF InsertComponent, TypeOK, Providing
<1>2. ASSUME NEW c \in Components, RemoveComponent(c), Withdraw(<<"components", c>>)
      PROVE  DataInv'
  BY <1>2 DEF RemoveComponent, TypeOK
<1>3. ASSUME NEW p \in Apps, NEW link \in AppLinks[p],
             InsertApp(p, link), Provide(<<"apps", p>>)
      PROVE  DataInv'
  <2>1. link # Absent
    BY NullsAssumption, LinksAssumption
  <2> QED
    BY <1>3, <2>1 DEF InsertApp, TypeOK, Providing
<1>4. ASSUME NEW p \in Apps, RemoveApp(p), Withdraw(<<"apps", p>>)
      PROVE  DataInv'
  BY <1>4 DEF RemoveApp, TypeOK
<1>5. ASSUME NEW a \in Areas, InsertArea(a) \/ RemoveArea(a), UNCHANGED withData
      PROVE  DataInv'
  BY <1>5 DEF InsertArea, RemoveArea, Providing
<1>6. CASE RegistryChanges
  BY <1>1, <1>2, <1>3, <1>4, <1>5, <1>6 DEF RegistryChanges, RegistryMethod
<1>7. CASE Browse \/ UNCHANGED browserVars
  BY <1>7 DEF Browse, browserVars, stateVars
<1> QED
  BY <1>6, <1>7 DEF BrowserNext

(* The registry cannot break LinkInv: gone records what a link has lost.    *)
LEMMA RegistryKeepsLinks ==
  ASSUME TypeOK, DataInv, DataInv', LinkInv, RegistryChanges
  PROVE  LinkInv'
<1>1. /\ page' = page
      /\ gone' = gone \union {r \in Resources \ Resources' :
                               \E path \in Known : IsPrefix(r, path)}
  BY DEF RegistryChanges
<1>2. Resources \subseteq EntityPaths \union DataPaths
  BY ResourcesType
<1>3. gone' \subseteq EntityPaths \union DataPaths
  BY <1>1, <1>2 DEF LinkInv
<1>4. ASSUME NEW path \in page.links, NEW r \in Resources \union gone, path \in PagesOf(r)
      PROVE  r \in Resources' \union gone'
  <2>1. r \in EntityPaths \union DataPaths
    BY <1>2 DEF LinkInv
  <2>2. path \in Known /\ IsPrefix(r, path)
    BY <1>4, <2>1, PrefixOfPages DEF Known
  <2>3. r \in Resources \ Resources' => r \in gone'
    BY <1>1, <2>2, Zenon
  <2> QED
    BY <1>1, <2>3
<1>5. ASSUME page.path \in AppPages, page.status = 200
      PROVE  page.path \in PresentEntities' \union gone'
  <2>1. PICK p \in Apps : page.path = <<"apps", p>>
    BY <1>5 DEF AppPages
  <2>2. Append(page.path, "is-located-on") \in Known
    <3>1. page.path \in {e \in {"apps"} \X Apps : page.path = e /\ page.status = 200}
      BY <1>5 DEF AppPages
    <3> QED
      BY <3>1, Zenon DEF Known
  <2>3. IsPrefix(page.path, Append(page.path, "is-located-on"))
    BY <2>1, PrefixOfAppend
  <2>4. page.path \in EntityPaths
    BY <2>1 DEF EntityPaths
  <2>5. page.path \in PresentEntities => page.path \in Resources
    BY DEF Resources
  <2>6. page.path \in Resources' => page.path \in PresentEntities'
    <3>1. withData' \subseteq Providing
      BY DEF DataInv
    <3>2. \A e \in withData' : Append(e, "data") # page.path
      BY <2>4, <3>1, DataOfEntity, TwoOrThree
    <3> QED
      BY <3>2 DEF Resources
  <2> QED
    BY <1>1, <1>5, <2>2, <2>3, <2>5, <2>6 DEF LinkInv
<1> QED
  BY <1>1, <1>3, <1>4, <1>5 DEF LinkInv

(* LinkInv is inductive.                                                    *)
LEMMA LinkInvStep ==
  TypeOK /\ DataInv /\ DataInv' /\ LinkInv /\ [BrowserNext]_browserVars => LinkInv'
<1> SUFFICES ASSUME TypeOK, DataInv, DataInv', LinkInv, [BrowserNext]_browserVars PROVE LinkInv'
  OBVIOUS
<1>1. CASE Browse
  <2>1. PICK path \in Known, query \in Queries : page' = Served(path, Answer(path, query))
    BY <1>1 DEF Browse
  <2>2. gone' = {} /\ PresentEntities' = PresentEntities /\ withData' = withData
    BY <1>1 DEF Browse, stateVars, PresentEntities, ComponentsPresent, AppsPresent
  <2>3. Resources' = Resources
    BY <2>2 DEF Resources
  <2> QED
    BY <2>1, <2>2, <2>3, BrowseLinks DEF LinkInv, Served, Linked
<1>2. CASE RegistryChanges
  BY <1>2, RegistryKeepsLinks
<1>3. CASE UNCHANGED browserVars
  <2>1. PresentEntities' = PresentEntities /\ withData' = withData
    BY <1>3 DEF browserVars, stateVars, PresentEntities, ComponentsPresent, AppsPresent
  <2>2. Resources' = Resources
    BY <2>1 DEF Resources
  <2> QED
    BY <1>3, <2>1, <2>2 DEF browserVars, LinkInv
<1> QED
  BY <1>1, <1>2, <1>3 DEF BrowserNext

(* Under LinkInv, "not found" is explained.                                 *)
LEMMA NotFoundStep ==
  TypeOK /\ DataInv /\ LinkInv /\ [BrowserNext]_browserVars => NotFoundIsExplained
<1> SUFFICES ASSUME TypeOK, DataInv, LinkInv, Browse, page'.status = 404
             PROVE  NotFoundIsExplained
  BY DEF BrowserNext, RegistryChanges, browserVars, NotFoundIsExplained
<1>1. PICK path \in Known, query \in Queries : page' = Served(path, Answer(path, query))
  BY DEF Browse
<1>2. page'.path = path /\ Answer(path, query).status = 404
  BY <1>1 DEF Served
<1>3. query.wellFormed
  BY <1>2 DEF Answer, BadQuery
<1>4. path \notin Collections
  BY <1>2, <1>3, CollectionsAnswer
<1>5. ASSUME path \in page.links PROVE NotFoundIsExplained
  <2>1. ASSUME NEW r \in Resources \union gone, path \in PagesOf(r)
        PROVE  NotFoundIsExplained
    <3>1. r \in EntityPaths \union DataPaths
      BY ResourcesType DEF LinkInv
    <3>2. r \in gone
      BY <1>2, <1>3, <2>1, PresentAnswers
    <3> QED
      BY <1>2, <2>1, <3>1, <3>2, PrefixOfPages DEF NotFoundIsExplained
  <2>2. ASSUME path \in Hosts, page.path \in AppPages PROVE NotFoundIsExplained
    BY <1>2, <2>2 DEF NotFoundIsExplained, Hosts, AppPages
  <2> QED
    BY <1>4, <1>5, <2>1, <2>2 DEF LinkInv
<1>6. ASSUME NEW p \in Apps, page.path = <<"apps", p>>, page.status = 200,
             path = Append(page.path, "is-located-on")
      PROVE  NotFoundIsExplained
  <2>1. path = <<"apps", p, "is-located-on">> /\ IsPrefix(page.path, path)
    BY <1>6, PrefixOfAppend
  <2>2. CASE page.path \in gone
    BY <1>2, <2>1, <2>2 DEF NotFoundIsExplained
  <2>3. CASE page.path \in PresentEntities
    <3>1. p \in AppsPresent
      BY <1>6, <2>3 DEF PresentEntities
    <3>2. apps[p].host \notin ComponentsPresent
      BY <1>2, <1>3, <2>1, <3>1, LocatedOnLinks
    <3>3. <<"components", apps[page.path[2]].host>> \notin PresentEntities
      BY <1>6, <3>2 DEF PresentEntities
    <3> QED
      BY <1>2, <1>6, <2>3, <3>3 DEF NotFoundIsExplained
  <2> QED
    BY <1>6, <2>2, <2>3 DEF LinkInv, AppPages
<1> QED
  BY <1>4, <1>5, <1>6 DEF Known, Collections

(* Following a link ends at "not found" only if, since the page was served,  *)
(* its entity was removed or its data lost with an announcement without     *)
(* provider, or if it leads to the host of an app that is not there, for    *)
(* all entities, links, tags and queries.                                   *)
THEOREM NotFoundMeansGoneHolds == BrowserSpec => NotFoundMeansGone
<1>1. BrowserInit => TypeOK /\ DataInv /\ LinkInv
  <2>1. BrowserInit => DataInv /\ LinkInv
    BY DEF BrowserInit, DataInv, LinkInv, Served, VersionInfo, Ok, Collections, AppPages
  <2> QED
    BY <2>1, StateTypeInit DEF BrowserInit
<1>2. TypeOK /\ [BrowserNext]_browserVars => TypeOK'
  BY BrowserSteps, StateTypeStep
<1>3. TypeOK /\ DataInv /\ LinkInv /\ [BrowserNext]_browserVars
        => (TypeOK /\ DataInv /\ LinkInv)'
  BY <1>2, DataInvStep, LinkInvStep
<1>4. TypeOK /\ DataInv /\ LinkInv /\ [BrowserNext]_browserVars
        => [NotFoundIsExplained]_browserVars
  BY NotFoundStep
<1> QED
  BY <1>1, <1>3, <1>4, PTL DEF BrowserSpec, NotFoundMeansGone
=============================================================================
