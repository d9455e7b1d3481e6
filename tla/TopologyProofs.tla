--------------------------- MODULE TopologyProofs ---------------------------
(***************************************************************************)
(* Theorems about the registry, for all sets of IDs and all links, and     *)
(* about the topology around it, for all sets of tasks, all batches and    *)
(* all channel capacities.                                                 *)
(***************************************************************************)
EXTENDS Topology, SequenceLemmas

-----------------------------------------------------------------------------
(* The registry.                                                            *)

LEMMA StateTypeInit == StateInit => TypeOK
BY DEF StateInit, TypeOK

LEMMA StateTypeStep == TypeOK /\ [StateNext]_stateVars => TypeOK'
<1> SUFFICES ASSUME TypeOK, [StateNext]_stateVars PROVE TypeOK'
  OBVIOUS
<1> USE NullsAssumption, LinksAssumption DEF TypeOK
<1>1. ASSUME NEW c \in Components, NEW area \in ComponentLinks[c], InsertComponent(c, area)
      PROVE  TypeOK'
  <2>1. area \in AreaLink
    OBVIOUS
  <2>2. componentsByArea' \in [Areas -> SUBSET Components]
    BY <1>1 DEF InsertComponent, Enter
  <2> QED
    BY <1>1, <2>1, <2>2 DEF InsertComponent
<1>2. ASSUME NEW c \in Components, RemoveComponent(c) PROVE TypeOK'
  <2>1. componentsByArea' \in [Areas -> SUBSET Components]
    BY <1>2 DEF RemoveComponent, Leave
  <2> QED
    BY <1>2, <2>1 DEF RemoveComponent
<1>3. ASSUME NEW p \in Apps, NEW link \in AppLinks[p], InsertApp(p, link) PROVE TypeOK'
  <2>1. link \in AppLink
    OBVIOUS
  <2>2. /\ appsByComponent' \in [Components -> SUBSET Apps]
        /\ appsByArea' \in [Areas -> SUBSET Apps]
    BY <1>3 DEF InsertApp, Enter
  <2> QED
    BY <1>3, <2>1, <2>2 DEF InsertApp
<1>4. ASSUME NEW p \in Apps, RemoveApp(p) PROVE TypeOK'
  <2>1. /\ appsByComponent' \in [Components -> SUBSET Apps]
        /\ appsByArea' \in [Areas -> SUBSET Apps]
    BY <1>4 DEF RemoveApp, Leave
  <2> QED
    BY <1>4, <2>1 DEF RemoveApp
<1>5. ASSUME NEW a \in Areas, InsertArea(a) PROVE TypeOK'
  BY <1>5 DEF InsertArea
<1>6. ASSUME NEW a \in Areas, RemoveArea(a) PROVE TypeOK'
  BY <1>6 DEF RemoveArea, Forget
<1>7. CASE UNCHANGED stateVars
  BY <1>7 DEF stateVars
<1> QED
  BY <1>1, <1>2, <1>3, <1>4, <1>5, <1>6, <1>7 DEF StateNext

(* Every map and every index holds what its declaration says.               *)
THEOREM StateTypeCorrect == StateSpec => []TypeOK
<1> QED
  BY StateTypeInit, StateTypeStep, PTL DEF StateSpec

-----------------------------------------------------------------------------
(* No present app is ever missing from the apps of its host.                *)

LEMMA HostsCompleteStep == TypeOK /\ HostsComplete /\ [StateNext]_stateVars => HostsComplete'
<1> SUFFICES ASSUME TypeOK, HostsComplete, [StateNext]_stateVars,
                    NEW q \in AppsPresent'
             PROVE  q \in AppsOfComponent(apps[q].host)'
  BY DEF HostsComplete
<1> USE NullsAssumption, LinksAssumption
        DEF TypeOK, HostsComplete, AppsOfComponent, AppsPresent
<1>1. ASSUME NEW c \in Components, NEW area \in ComponentLinks[c], InsertComponent(c, area)
      PROVE  q \in AppsOfComponent(apps[q].host)'
  BY <1>1 DEF InsertComponent
<1>2. ASSUME NEW c \in Components, RemoveComponent(c)
      PROVE  q \in AppsOfComponent(apps[q].host)'
  BY <1>2 DEF RemoveComponent
<1>3. ASSUME NEW p \in Apps, NEW link \in AppLinks[p], InsertApp(p, link)
      PROVE  q \in AppsOfComponent(apps[q].host)'
  <2>1. link \in AppLink
    OBVIOUS
  <2>2. CASE q = p
    BY <1>3, <2>1, <2>2 DEF InsertApp, Enter, AppLink
  <2>3. CASE q # p
    <3>1. q \in appsByComponent[apps[q].host] /\ apps[q] \in AppLink
      BY <1>3, <2>3 DEF InsertApp
    <3> QED
      BY <1>3, <2>3, <3>1 DEF InsertApp, Enter, AppLink
  <2> QED
    BY <2>2, <2>3
<1>4. ASSUME NEW p \in Apps, RemoveApp(p) PROVE q \in AppsOfComponent(apps[q].host)'
  <2>1. q # p /\ q \in appsByComponent[apps[q].host] /\ apps[q] \in AppLink
    BY <1>4 DEF RemoveApp
  <2> QED
    BY <1>4, <2>1 DEF RemoveApp, Leave, AppLink
<1>5. ASSUME NEW a \in Areas, InsertArea(a) PROVE q \in AppsOfComponent(apps[q].host)'
  BY <1>5 DEF InsertArea
<1>6. ASSUME NEW a \in Areas, RemoveArea(a) PROVE q \in AppsOfComponent(apps[q].host)'
  BY <1>6 DEF RemoveArea
<1>7. CASE UNCHANGED stateVars
  BY <1>7 DEF stateVars
<1> QED
  BY <1>1, <1>2, <1>3, <1>4, <1>5, <1>6, <1>7 DEF StateNext

(* remove_component leaves the host index alone, which is why a host that   *)
(* comes back still lists its apps, whatever the order of announcements.    *)
THEOREM HostsCompleteHolds == StateSpec => []HostsComplete
<1>1. StateInit => HostsComplete
  BY DEF StateInit, HostsComplete, AppsPresent
<1> QED
  BY <1>1, StateTypeInit, StateTypeStep, HostsCompleteStep, PTL DEF StateSpec

-----------------------------------------------------------------------------
(* With stable links the indexes are sound.  The invariant that is          *)
(* inductive adds where the links of a present entity come from.            *)

LinksAnnounced ==
  /\ \A c \in ComponentsPresent : components[c] \in ComponentLinks[c]
  /\ \A p \in AppsPresent : apps[p] \in AppLinks[p]

IndexInv == LinksAnnounced /\ HostsSound /\ ContainsSound

LEMMA IndexInvStep ==
  StableLinks /\ TypeOK /\ IndexInv /\ [StateNext]_stateVars => IndexInv'
<1> SUFFICES ASSUME StableLinks, TypeOK, IndexInv, [StateNext]_stateVars PROVE IndexInv'
  OBVIOUS
<1> USE NullsAssumption, LinksAssumption
        DEF TypeOK, IndexInv, LinksAnnounced, HostsSound, ContainsSound,
            AppsPresent, ComponentsPresent
<1>1. ASSUME NEW c \in Components, NEW area \in ComponentLinks[c], InsertComponent(c, area)
      PROVE  IndexInv'
  <2>1. area \in AreaLink /\ (c \in ComponentsPresent => components[c] = area)
    BY DEF StableLinks
  <2>2. \A a \in Areas : \A d \in componentsByArea[a]' : d \in ComponentsPresent' /\ components[d]' = a
    BY <1>1, <2>1 DEF InsertComponent, Enter
  <2> QED
    BY <1>1, <2>1, <2>2 DEF InsertComponent
<1>2. ASSUME NEW c \in Components, RemoveComponent(c) PROVE IndexInv'
  BY <1>2 DEF RemoveComponent, Leave
<1>3. ASSUME NEW p \in Apps, NEW link \in AppLinks[p], InsertApp(p, link) PROVE IndexInv'
  <2>1. link \in AppLink /\ link # Absent /\ (p \in AppsPresent => apps[p] = link)
    BY DEF StableLinks
  <2>2. HostsSound'
    BY <1>3, <2>1 DEF InsertApp, Enter
  <2>3. ContainsSound'
    BY <1>3, <2>1 DEF InsertApp, Enter
  <2>4. LinksAnnounced'
    BY <1>3, <2>1 DEF InsertApp
  <2> QED
    BY <2>2, <2>3, <2>4
<1>4. ASSUME NEW p \in Apps, RemoveApp(p) PROVE IndexInv'
  <2>1. HostsSound'
    BY <1>4 DEF RemoveApp, Leave
  <2>2. ContainsSound'
    BY <1>4 DEF RemoveApp, Leave
  <2>3. LinksAnnounced'
    BY <1>4 DEF RemoveApp
  <2> QED
    BY <2>1, <2>2, <2>3
<1>5. ASSUME NEW a \in Areas, InsertArea(a) PROVE IndexInv'
  BY <1>5 DEF InsertArea
<1>6. ASSUME NEW a \in Areas, RemoveArea(a) PROVE IndexInv'
  BY <1>6 DEF RemoveArea, Forget
<1>7. CASE UNCHANGED stateVars
  BY <1>7 DEF stateVars
<1> QED
  BY <1>1, <1>2, <1>3, <1>4, <1>5, <1>6, <1>7 DEF StateNext

(* While no ID changes its links, every index entry names an entity that    *)
(* is present and has that link, so the two directions of a relationship    *)
(* cannot contradict each other.                                            *)
THEOREM StableLinksSound ==
  ASSUME StableLinks
  PROVE  StateSpec => []IndexesSound
<1>1. StateInit => IndexInv
  BY DEF StateInit, IndexInv, LinksAnnounced, HostsSound, ContainsSound,
         AppsPresent, ComponentsPresent
<1>2. TypeOK /\ IndexInv /\ [StateNext]_stateVars => IndexInv'
  BY StableLinks, IndexInvStep
<1>3. IndexInv => IndexesSound
  BY DEF IndexInv, IndexesSound
<1> QED
  BY <1>1, <1>2, <1>3, StateTypeInit, StateTypeStep, PTL DEF StateSpec

-----------------------------------------------------------------------------

LEMMA KeepsMembershipsStep == TypeOK /\ StateNext => KeepsMemberships
<1> SUFFICES ASSUME TypeOK, StateNext PROVE KeepsMemberships
  OBVIOUS
<1> USE DEF TypeOK, KeepsMemberships, AppsPresent, ComponentsPresent
<1>1. ASSUME NEW c \in Components, NEW area \in ComponentLinks[c], InsertComponent(c, area)
      PROVE  KeepsMemberships
  BY <1>1 DEF InsertComponent, Enter
<1>2. ASSUME NEW c \in Components, RemoveComponent(c) PROVE KeepsMemberships
  BY <1>2 DEF RemoveComponent, Leave
<1>3. ASSUME NEW p \in Apps, NEW link \in AppLinks[p], InsertApp(p, link)
      PROVE  KeepsMemberships
  BY <1>3 DEF InsertApp, Enter
<1>4. ASSUME NEW p \in Apps, RemoveApp(p) PROVE KeepsMemberships
  BY <1>4 DEF RemoveApp, Leave
<1>5. ASSUME NEW a \in Areas, InsertArea(a) PROVE KeepsMemberships
  BY <1>5 DEF InsertArea
<1>6. ASSUME NEW a \in Areas, RemoveArea(a) PROVE KeepsMemberships
  BY <1>6 DEF RemoveArea, Forget
<1> QED
  BY <1>1, <1>2, <1>3, <1>4, <1>5, <1>6 DEF StateNext

(* A membership is lost only with its member or with its area, whatever     *)
(* links are announced.                                                     *)
THEOREM MembershipKeptHolds == StateSpec => MembershipKept
<1>1. TypeOK /\ [StateNext]_stateVars => [KeepsMemberships]_stateVars
  BY KeepsMembershipsStep
<1> QED
  BY <1>1, StateTypeCorrect, PTL DEF StateSpec, MembershipKept

-----------------------------------------------------------------------------
(* Only the removal of an area makes its members go missing.                *)

MembersListed(a) ==
  /\ \A c \in Components : a \in AreaOfComponent(c) => c \in ComponentsOfArea(a)
  /\ \A p \in Apps : a \in AreaOfApp(p) => p \in AppsOfArea(a)

(* Inductive, since it does not ask whether the area is there: the indexes  *)
(* are filled also by members that were announced before their area.        *)
MembersIndexed(a) ==
  /\ \A c \in Components : components[c] = a => c \in componentsByArea[a]
  /\ \A p \in AppsPresent : apps[p].area = a => p \in appsByArea[a]

LEMMA MembersIndexedStep ==
  ASSUME NEW a \in Areas, TypeOK, MembersIndexed(a), [StateNext]_stateVars, ~ RemoveArea(a)
  PROVE  MembersIndexed(a)'
<1> USE NullsAssumption, LinksAssumption DEF TypeOK, MembersIndexed, AppsPresent
<1>1. ASSUME NEW c \in Components, NEW area \in ComponentLinks[c], InsertComponent(c, area)
      PROVE  MembersIndexed(a)'
  BY <1>1 DEF InsertComponent, Enter
<1>2. ASSUME NEW c \in Components, RemoveComponent(c) PROVE MembersIndexed(a)'
  <2>1. a # Absent
    BY DEF AreaLink
  <2>2. ASSUME NEW d \in Components, components'[d] = a PROVE d \in componentsByArea'[a]
    <3>1. d # c /\ components[d] = a
      BY <1>2, <2>1, <2>2 DEF RemoveComponent
    <3> QED
      BY <1>2, <3>1 DEF RemoveComponent, Leave
  <2>3. UNCHANGED <<apps, appsByArea>>
    BY <1>2 DEF RemoveComponent
  <2> QED
    BY <2>2, <2>3
<1>3. ASSUME NEW p \in Apps, NEW link \in AppLinks[p], InsertApp(p, link)
      PROVE  MembersIndexed(a)'
  <2>1. link \in AppLink
    OBVIOUS
  <2>2. ASSUME NEW q \in AppsPresent', apps'[q].area = a PROVE q \in appsByArea'[a]
    <3>1. CASE q = p
      BY <1>3, <2>1, <2>2, <3>1 DEF InsertApp, Enter, AppLink
    <3>2. CASE q # p
      <4>1. q \in appsByArea[a]
        BY <1>3, <2>2, <3>2 DEF InsertApp
      <4> QED
        BY <1>3, <4>1 DEF InsertApp, Enter
    <3> QED
      BY <3>1, <3>2
  <2>3. UNCHANGED <<components, componentsByArea>>
    BY <1>3 DEF InsertApp
  <2> QED
    BY <2>2, <2>3
<1>4. ASSUME NEW p \in Apps, RemoveApp(p) PROVE MembersIndexed(a)'
  BY <1>4 DEF RemoveApp, Leave
<1>5. ASSUME NEW b \in Areas, InsertArea(b) PROVE MembersIndexed(a)'
  BY <1>5 DEF InsertArea
<1>6. ASSUME NEW b \in Areas, RemoveArea(b) PROVE MembersIndexed(a)'
  BY <1>6 DEF RemoveArea, Forget
<1>7. CASE UNCHANGED stateVars
  BY <1>7 DEF stateVars
<1> QED
  BY <1>1, <1>2, <1>3, <1>4, <1>5, <1>6, <1>7 DEF StateNext

(* The finding about areas has no other cause than remove_area: an area     *)
(* that is never removed lists all its members, in whatever order they and  *)
(* the area are announced, and whatever moves or is overwritten.            *)
THEOREM KeptAreasComplete ==
  ASSUME NEW a \in Areas
  PROVE  StateSpec /\ [][~ RemoveArea(a)]_stateVars => []MembersListed(a)
<1>1. StateInit => MembersIndexed(a)
  <2>1. a # Absent
    BY NullsAssumption DEF AreaLink
  <2>2. StateInit => /\ \A c \in Components : components[c] = Absent
                     /\ AppsPresent = {}
    BY DEF StateInit, AppsPresent
  <2> QED
    BY <2>1, <2>2 DEF MembersIndexed
<1>2. TypeOK /\ MembersIndexed(a) /\ [StateNext]_stateVars /\ [~ RemoveArea(a)]_stateVars
        => MembersIndexed(a)'
  <2>1. CASE UNCHANGED stateVars
    BY <2>1 DEF stateVars, MembersIndexed, AppsPresent
  <2> QED
    BY <2>1, MembersIndexedStep
<1>3. MembersIndexed(a) => MembersListed(a)
  BY DEF MembersIndexed, MembersListed, AreaOfComponent, AreaOfApp, ComponentsOfArea, AppsOfArea
<1> QED
  BY <1>1, <1>2, <1>3, StateTypeInit, StateTypeStep, PTL DEF StateSpec

-----------------------------------------------------------------------------
(* Types.                                                                   *)

LockTypeOK ==
  /\ mode \in [Tasks -> Modes]
  /\ queue \in Seq(Tasks)

BatchTypeOK ==
  /\ pending \in [Writers -> Seq(TopologyEvents)]
  /\ \A w \in Writers : Len(pending[w]) <= MaxBatch

ChannelTypeOK ==
  /\ subscribed \in SUBSET Readers
  /\ inbox \in [Readers -> Seq(TopologyEvents)]
  /\ \A r \in Readers : Len(inbox[r]) <= Capacity
  /\ lagged \in SUBSET subscribed
  /\ synced \in SUBSET subscribed

EntitiesTypeOK ==
  /\ mirror \in [Readers -> SUBSET EntityRefs]
  /\ announced \in SUBSET EntityRefs
  /\ committed.entities \in SUBSET EntityRefs

LEMMA TypeParts ==
  TopologyTypeOK <=> TypeOK /\ LockTypeOK /\ BatchTypeOK /\ ChannelTypeOK /\ EntitiesTypeOK
BY DEF TopologyTypeOK, LockTypeOK, BatchTypeOK, ChannelTypeOK, EntitiesTypeOK

LEMMA RefTypes ==
  /\ \A c \in Components : ComponentRef(c) \in EntityRefs
  /\ \A p \in Apps : AppRef(p) \in EntityRefs
  /\ \A a \in Areas : AreaRef(a) \in EntityRefs
BY DEF EntityRefs

LEMMA EventTypes ==
  ASSUME NEW ref \in EntityRefs
  PROVE  Added(ref) \in TopologyEvents /\ Removed(ref) \in TopologyEvents
BY DEF Added, Removed, TopologyEvents

LEMMA ApplyType ==
  ASSUME NEW event \in TopologyEvents, NEW entities \in SUBSET EntityRefs
  PROVE  Apply(event, entities) \in SUBSET EntityRefs
BY DEF Apply, TopologyEvents

LEMMA PresentType == TypeOK => Present \in SUBSET EntityRefs
BY RefTypes DEF TypeOK, Present, ComponentsPresent, AppsPresent

(* What the six methods of the write guard have in common: they touch the   *)
(* registry as TopologyState says, and batch one event.                     *)
LEMMA MutateShape ==
  ASSUME NEW w \in Writers, Mutate(w)
  PROVE  /\ StateNext
         /\ \E event \in TopologyEvents : Batch(w, event)
<1> USE RefTypes, EventTypes
<1>1. ASSUME NEW c \in Components, NEW area \in ComponentLinks[c], AddComponent(w, c, area)
      PROVE  StateNext /\ \E event \in TopologyEvents : Batch(w, event)
  BY <1>1 DEF AddComponent, StateNext
<1>2. ASSUME NEW c \in Components, GuardRemoveComponent(w, c)
      PROVE  StateNext /\ \E event \in TopologyEvents : Batch(w, event)
  BY <1>2 DEF GuardRemoveComponent, StateNext
<1>3. ASSUME NEW p \in Apps, NEW link \in AppLinks[p], AddApp(w, p, link)
      PROVE  StateNext /\ \E event \in TopologyEvents : Batch(w, event)
  BY <1>3 DEF AddApp, StateNext
<1>4. ASSUME NEW p \in Apps, GuardRemoveApp(w, p)
      PROVE  StateNext /\ \E event \in TopologyEvents : Batch(w, event)
  BY <1>4 DEF GuardRemoveApp, StateNext
<1>5. ASSUME NEW a \in Areas, AddArea(w, a)
      PROVE  StateNext /\ \E event \in TopologyEvents : Batch(w, event)
  BY <1>5 DEF AddArea, StateNext
<1>6. ASSUME NEW a \in Areas, GuardRemoveArea(w, a)
      PROVE  StateNext /\ \E event \in TopologyEvents : Batch(w, event)
  BY <1>6 DEF GuardRemoveArea, StateNext
<1> QED
  BY <1>1, <1>2, <1>3, <1>4, <1>5, <1>6 DEF Mutate

LEMMA TopologyTypeInit == Init => TopologyTypeOK
<1> SUFFICES ASSUME Init PROVE TopologyTypeOK
  OBVIOUS
<1>1. TypeOK
  BY StateTypeInit DEF Init
<1>2. Present \in SUBSET EntityRefs
  BY <1>1, PresentType
<1> QED
  BY <1>1, <1>2, BoundsAssumption DEF Init, TopologyTypeOK, Modes, Registry

LEMMA TopologyTypeStep == TopologyTypeOK /\ [Next]_vars => TopologyTypeOK'
<1> DEFINE Parts == TypeOK /\ LockTypeOK /\ BatchTypeOK /\ ChannelTypeOK /\ EntitiesTypeOK
<1> SUFFICES ASSUME Parts, [Next]_vars PROVE Parts'
  BY DEF TopologyTypeOK, LockTypeOK, BatchTypeOK, ChannelTypeOK, EntitiesTypeOK
<1>a. UNCHANGED stateVars => TypeOK'
  BY StateTypeStep
<1> USE DEF LockTypeOK, BatchTypeOK, ChannelTypeOK, EntitiesTypeOK
<1>1. ASSUME NEW t \in Tasks, Request(t) PROVE Parts'
  BY <1>1, <1>a DEF Request, Modes, channelVars, mirrorVars
<1>2. ASSUME NEW t \in Tasks, CancelWait(t) PROVE Parts'
  <2>1. PICK i \in DOMAIN queue : queue' = RemoveAt(queue, i)
    BY <1>2 DEF CancelWait
  <2>2. queue' \in Seq(Tasks)
    <3>1. i \in 1..Len(queue) /\ Len(queue) \in Nat
      BY LenProperties
    <3>2. SubSeq(queue, 1, i - 1) \in Seq(Tasks)
      BY <3>1, SubSeqProperties, ElementOfSeq
    <3>3. SubSeq(queue, i + 1, Len(queue)) \in Seq(Tasks)
      BY <3>1, SubSeqProperties, ElementOfSeq
    <3> QED
      BY <2>1, <3>2, <3>3, ConcatProperties DEF RemoveAt
  <2> QED
    BY <1>2, <1>a, <2>2 DEF CancelWait, Modes, channelVars, mirrorVars
<1>3. ASSUME NEW r \in Readers, GrantRead(r) PROVE Parts'
  BY <1>3, <1>a DEF GrantRead, Modes, Tasks, channelVars, mirrorVars
<1>4. ASSUME NEW w \in Writers, GrantWrite(w) PROVE Parts'
  BY <1>4, <1>a, BoundsAssumption DEF GrantWrite, Modes, Tasks, channelVars, mirrorVars
<1>5. ASSUME NEW r \in Readers, DropReadGuard(r) PROVE Parts'
  BY <1>5, <1>a DEF DropReadGuard, Modes, Tasks, channelVars, mirrorVars
<1>6. ASSUME NEW w \in Writers, Mutate(w) PROVE Parts'
  <2>1. PICK event \in TopologyEvents : Batch(w, event)
    BY <1>6, MutateShape
  <2>2. TypeOK'
    BY <1>6, MutateShape, StateTypeStep
  <2>3. BatchTypeOK'
    BY <2>1, BoundsAssumption DEF Batch
  <2> QED
    BY <2>1, <2>2, <2>3 DEF Batch, lockVars, channelVars, mirrorVars
<1>7. ASSUME NEW w \in Writers, DropWriteGuard(w) PROVE Parts'
  BY <1>7, <1>a DEF DropWriteGuard, Modes, Tasks, channelVars, mirrorVars
<1>8. ASSUME NEW w \in Writers, SendEvent(w) PROVE Parts'
  <2>1. Head(pending[w]) \in TopologyEvents /\ Tail(pending[w]) \in Seq(TopologyEvents)
          /\ Len(Tail(pending[w])) <= MaxBatch
    BY <1>8, BoundsAssumption, HeadTailProperties, LenProperties DEF SendEvent
  <2>2. BatchTypeOK'
    BY <1>8, <2>1 DEF SendEvent
  <2>3. ASSUME NEW r \in Readers
        PROVE  inbox'[r] \in Seq(TopologyEvents) /\ Len(inbox'[r]) <= Capacity
    <3>1. inbox[r] \in Seq(TopologyEvents) /\ Len(inbox[r]) <= Capacity
      OBVIOUS
    <3>2. CASE r \notin subscribed
      BY <1>8, <3>1, <3>2 DEF SendEvent
    <3>3. CASE r \in subscribed /\ Len(inbox[r]) < Capacity
      <4>1. inbox'[r] = Append(inbox[r], Head(pending[w]))
        BY <1>8, <3>3 DEF SendEvent
      <4> QED
        BY <2>1, <3>1, <3>3, <4>1, BoundsAssumption, AppendProperties, LenProperties
    <3>4. CASE r \in subscribed /\ ~(Len(inbox[r]) < Capacity)
      <4>1. inbox'[r] = Append(Tail(inbox[r]), Head(pending[w]))
        BY <1>8, <3>4 DEF SendEvent
      <4>2. inbox[r] # <<>>
        BY <3>1, <3>4, BoundsAssumption, EmptySeq
      <4> QED
        BY <2>1, <3>1, <4>1, <4>2, BoundsAssumption, AppendProperties, HeadTailProperties, LenProperties
    <3> QED
      BY <3>2, <3>3, <3>4
  <2>4. ChannelTypeOK'
    <3>1. inbox' \in [Readers -> Seq(TopologyEvents)]
      BY <1>8, <2>3 DEF SendEvent
    <3> QED
      BY <1>8, <2>3, <3>1 DEF SendEvent, mirrorVars
  <2>5. EntitiesTypeOK'
    BY <1>8, <2>1, ApplyType DEF SendEvent, mirrorVars
  <2> QED
    BY <1>8, <1>a, <2>2, <2>4, <2>5 DEF SendEvent, lockVars
<1>9. ASSUME NEW w \in Writers, Unlock(w) PROVE Parts'
  <2>1. committed'.entities \in SUBSET EntityRefs
    BY <1>9, PresentType DEF Unlock, Registry
  <2> QED
    BY <1>9, <1>a, <2>1 DEF Unlock, Modes, Tasks, channelVars, mirrorVars
<1>10. ASSUME NEW r \in Readers, Subscribe(r) PROVE Parts'
  BY <1>10, <1>a DEF Subscribe, lockVars, mirrorVars
<1>11. ASSUME NEW r \in Readers, CopyEntities(r) PROVE Parts'
  BY <1>11, <1>a, PresentType DEF CopyEntities, lockVars, channelVars
<1>12. ASSUME NEW r \in Readers, Receive(r) PROVE Parts'
  <2>1. Head(inbox[r]) \in TopologyEvents /\ Tail(inbox[r]) \in Seq(TopologyEvents)
          /\ Len(Tail(inbox[r])) <= Capacity
    BY <1>12, BoundsAssumption, HeadTailProperties, LenProperties DEF Receive
  <2>2. Apply(Head(inbox[r]), mirror[r]) \in SUBSET EntityRefs
    BY <2>1, ApplyType
  <2>3. mirror' \in [Readers -> SUBSET EntityRefs]
    BY <1>12, <2>2 DEF Receive
  <2> QED
    BY <1>12, <1>a, <2>1, <2>3 DEF Receive, lockVars
<1>13. ASSUME NEW r \in Readers, ReceiveLagged(r) PROVE Parts'
  BY <1>13, <1>a DEF ReceiveLagged, lockVars
<1>14. CASE UNCHANGED vars
  BY <1>14, <1>a DEF vars, lockVars, channelVars, mirrorVars
<1> QED
  BY <1>1, <1>2, <1>3, <1>4, <1>5, <1>6, <1>7, <1>8, <1>9, <1>10, <1>11, <1>12, <1>13, <1>14
     DEF Next, WriterStep, ReaderStep, Tasks

(* All variables keep their types; batches and inboxes keep their bounds.   *)
THEOREM TopologyTypeCorrect == Spec => []TopologyTypeOK
<1> QED
  BY TopologyTypeInit, TopologyTypeStep, PTL DEF Spec

-----------------------------------------------------------------------------
(* The lock excludes.                                                       *)

LockInv ==
  /\ \A w \in Writers : mode[w] # "reading"
  /\ \A r \in Readers : ~HoldsWrite(r)
  /\ \A v, w \in Writers : HoldsWrite(v) /\ HoldsWrite(w) => v = w
  /\ \A r \in Readers : HoldsRead(r) => ~WriteLocked

LEMMA LockInvInit == Init => LockInv
BY DEF Init, LockInv, HoldsWrite, HoldsRead, Tasks

(* What a step may do to the lock.                                          *)
LockMove ==
  \/ mode' = mode
  \/ \E t \in Tasks : /\ mode' = [mode EXCEPT ![t] = "waiting"] /\ mode[t] = "idle"
  \/ \E t \in Tasks : /\ mode' = [mode EXCEPT ![t] = "idle"]
  \/ \E r \in Readers : /\ mode' = [mode EXCEPT ![r] = "reading"] /\ ~WriteLocked
  \/ \E w \in Writers : /\ mode' = [mode EXCEPT ![w] = "writing"]
                        /\ \A t \in Tasks : ~HoldsWrite(t) /\ ~HoldsRead(t)
  \/ \E w \in Writers : /\ mode' = [mode EXCEPT ![w] = "dropping"] /\ mode[w] = "writing"

LEMMA LockMoves == [Next]_vars => LockMove
<1> SUFFICES ASSUME [Next]_vars PROVE LockMove
  OBVIOUS
<1>1. ASSUME NEW w \in Writers, WriterStep(w) PROVE LockMove
  <2>1. CASE Mutate(w)
    BY <2>1, MutateShape DEF Batch, lockVars, LockMove
  <2>2. CASE Request(w) \/ CancelWait(w) \/ GrantWrite(w) \/ DropWriteGuard(w)
               \/ SendEvent(w) \/ Unlock(w)
    BY <2>2 DEF Request, CancelWait, GrantWrite, DropWriteGuard, SendEvent, Unlock,
                lockVars, LockMove, Tasks
  <2> QED
    BY <1>1, <2>1, <2>2 DEF WriterStep
<1>2. ASSUME NEW r \in Readers, ReaderStep(r) PROVE LockMove
  BY <1>2 DEF ReaderStep, Request, CancelWait, GrantRead, DropReadGuard, Subscribe,
              CopyEntities, Receive, ReceiveLagged, lockVars, LockMove, Tasks
<1>3. CASE UNCHANGED vars
  BY <1>3 DEF vars, lockVars, LockMove
<1> QED
  BY <1>1, <1>2, <1>3 DEF Next

LEMMA LockInvStep == TopologyTypeOK /\ LockInv /\ [Next]_vars => LockInv'
<1> SUFFICES ASSUME TopologyTypeOK, LockInv, LockMove PROVE LockInv'
  BY LockMoves
<1> USE TasksAssumption DEF TopologyTypeOK, LockInv, HoldsWrite, HoldsRead, WriteLocked, Tasks
<1>1. CASE mode' = mode
  BY <1>1
<1>2. ASSUME NEW t \in Tasks, mode' = [mode EXCEPT ![t] = "waiting"] PROVE LockInv'
  BY <1>2
<1>3. ASSUME NEW t \in Tasks, mode' = [mode EXCEPT ![t] = "idle"] PROVE LockInv'
  BY <1>3
<1>4. ASSUME NEW r \in Readers, mode' = [mode EXCEPT ![r] = "reading"], ~WriteLocked
      PROVE  LockInv'
  BY <1>4
<1>5. ASSUME NEW w \in Writers, mode' = [mode EXCEPT ![w] = "writing"],
             \A t \in Tasks : ~HoldsWrite(t) /\ ~HoldsRead(t)
      PROVE  LockInv'
  BY <1>5
<1>6. ASSUME NEW w \in Writers, mode' = [mode EXCEPT ![w] = "dropping"], mode[w] = "writing"
      PROVE  LockInv'
  BY <1>6
<1> QED
  BY <1>1, <1>2, <1>3, <1>4, <1>5, <1>6 DEF LockMove

(* At most one task holds a write guard, and none holds a read guard        *)
(* meanwhile.                                                               *)
THEOREM LockExcludes == Spec => []LockInv
<1> QED
  BY LockInvInit, LockInvStep, TopologyTypeInit, TopologyTypeStep, PTL DEF Spec

-----------------------------------------------------------------------------
(* Events.  Yields says what a sequence of events makes of a set of         *)
(* entities, without recursion: the last event on an entity decides about   *)
(* it, and one without an event stays as it was.                            *)

Agrees(events, entities) ==
  \A i \in 1..Len(events) :
    (\A j \in (i + 1)..Len(events) : events[j].ref # events[i].ref)
      => (events[i].added <=> events[i].ref \in entities)

Silent(events, ref) == \A i \in 1..Len(events) : events[i].ref # ref

Yields(events, before, after) ==
  /\ Agrees(events, after)
  /\ \A ref \in EntityRefs : Silent(events, ref) => (ref \in before <=> ref \in after)

LEMMA AgreesEmpty == \A entities : Agrees(<<>>, entities)
BY DEF Agrees

LEMMA YieldsEmpty ==
  ASSUME NEW before \in SUBSET EntityRefs, NEW after \in SUBSET EntityRefs
  PROVE  Yields(<<>>, before, after) <=> before = after
<1>1. \A ref : Silent(<<>>, ref)
  BY DEF Silent
<1>2. Yields(<<>>, before, after) <=> \A ref \in EntityRefs : ref \in before <=> ref \in after
  BY <1>1, AgreesEmpty DEF Yields
<1>3. (\A ref \in EntityRefs : ref \in before <=> ref \in after) <=> before = after
  OBVIOUS
<1> QED
  BY <1>2, <1>3

LEMMA AgreesYields ==
  ASSUME NEW events, NEW entities, Agrees(events, entities)
  PROVE  Yields(events, entities, entities)
BY DEF Yields

LEMMA AgreesAppend ==
  ASSUME NEW events \in Seq(TopologyEvents), NEW event \in TopologyEvents,
         NEW entities \in SUBSET EntityRefs, Agrees(events, entities)
  PROVE  Agrees(Append(events, event), Apply(event, entities))
<1> DEFINE longer == Append(events, event)
<1>1. /\ Len(events) \in Nat
      /\ Len(longer) = Len(events) + 1
      /\ longer[Len(events) + 1] = event
      /\ \A i \in 1..Len(events) : longer[i] = events[i]
  BY AppendProperties, LenProperties
<1>2. SUFFICES ASSUME NEW i \in 1..Len(longer),
                      \A j \in (i + 1)..Len(longer) : longer[j].ref # longer[i].ref
               PROVE  longer[i].added <=> longer[i].ref \in Apply(event, entities)
  BY DEF Agrees
<1> HIDE DEF longer
<1>3. CASE i = Len(events) + 1
  BY <1>1, <1>3 DEF Apply
<1>4. CASE i # Len(events) + 1
  <2>1. i \in 1..Len(events) /\ longer[i] = events[i]
    BY <1>1, <1>4
  <2>2. event.ref # events[i].ref
    BY <1>1, <1>2, <2>1
  <2>3. \A j \in (i + 1)..Len(events) : events[j].ref # events[i].ref
    BY <1>1, <1>2, <2>1
  <2>4. events[i].added <=> events[i].ref \in entities
    BY <2>1, <2>3 DEF Agrees
  <2> QED
    BY <2>1, <2>2, <2>4 DEF Apply
<1> QED
  BY <1>3, <1>4

LEMMA YieldsAppend ==
  ASSUME NEW events \in Seq(TopologyEvents), NEW event \in TopologyEvents,
         NEW before \in SUBSET EntityRefs, NEW after \in SUBSET EntityRefs,
         Yields(events, before, after)
  PROVE  Yields(Append(events, event), before, Apply(event, after))
<1>1. Agrees(Append(events, event), Apply(event, after))
  BY AgreesAppend DEF Yields
<1>2. ASSUME NEW ref \in EntityRefs, Silent(Append(events, event), ref)
      PROVE  ref \in before <=> ref \in Apply(event, after)
  <2>1. Silent(events, ref) /\ event.ref # ref
    BY <1>2, AppendProperties, LenProperties DEF Silent
  <2> QED
    BY <2>1 DEF Yields, Apply
<1> QED
  BY <1>1, <1>2 DEF Yields

LEMMA AgreesTail ==
  ASSUME NEW events \in Seq(TopologyEvents), events # <<>>, NEW entities,
         Agrees(events, entities)
  PROVE  Agrees(Tail(events), entities)
<1>1. /\ Len(events) \in Nat /\ Len(Tail(events)) = Len(events) - 1
      /\ \A i \in 1..Len(Tail(events)) : Tail(events)[i] = events[i + 1]
  BY HeadTailProperties, LenProperties
<1>2. SUFFICES ASSUME NEW i \in 1..Len(Tail(events)),
                      \A j \in (i + 1)..Len(Tail(events)) : Tail(events)[j].ref # Tail(events)[i].ref
               PROVE  Tail(events)[i].added <=> Tail(events)[i].ref \in entities
  BY DEF Agrees
<1>3. i + 1 \in 1..Len(events) /\ Tail(events)[i] = events[i + 1]
  BY <1>1
<1>4. ASSUME NEW k \in (i + 1 + 1)..Len(events) PROVE events[k].ref # events[i + 1].ref
  <2>1. k - 1 \in (i + 1)..Len(Tail(events)) /\ Tail(events)[k - 1] = events[k]
    BY <1>1
  <2> QED
    BY <1>2, <1>3, <2>1
<1> QED
  BY <1>3, <1>4 DEF Agrees

LEMMA YieldsTail ==
  ASSUME NEW events \in Seq(TopologyEvents), events # <<>>,
         NEW before \in SUBSET EntityRefs, NEW after \in SUBSET EntityRefs,
         Yields(events, before, after)
  PROVE  Yields(Tail(events), Apply(Head(events), before), after)
<1>1. /\ Len(events) \in Nat \ {0} /\ Len(Tail(events)) = Len(events) - 1
      /\ \A i \in 1..Len(Tail(events)) : Tail(events)[i] = events[i + 1]
      /\ Head(events) = events[1] /\ events[1] \in TopologyEvents
  BY HeadTailProperties, LenProperties, EmptySeq, ElementOfSeq
<1>2. Agrees(Tail(events), after)
  BY AgreesTail DEF Yields
<1>3. ASSUME NEW ref \in EntityRefs, Silent(Tail(events), ref)
      PROVE  ref \in Apply(Head(events), before) <=> ref \in after
  <2>1. ASSUME NEW k \in 2..Len(events) PROVE events[k].ref # ref
    <3>1. k - 1 \in 1..Len(Tail(events)) /\ Tail(events)[k - 1] = events[k]
      BY <1>1
    <3> QED
      BY <1>3, <3>1 DEF Silent
  <2>2. CASE events[1].ref = ref
    <3>1. events[1].added <=> ref \in after
      BY <1>1, <2>1, <2>2 DEF Yields, Agrees
    <3> QED
      BY <1>1, <2>2, <3>1 DEF Apply
  <2>3. CASE events[1].ref # ref
    <3>1. Silent(events, ref)
      BY <1>1, <2>1, <2>3 DEF Silent
    <3> QED
      BY <1>1, <2>3, <3>1 DEF Yields, Apply
  <2> QED
    BY <2>2, <2>3
<1> QED
  BY <1>2, <1>3 DEF Yields

-----------------------------------------------------------------------------
(* The events of the guard that is held, if any.                            *)

Unsent == IF WriteLocked THEN pending[CHOOSE w \in Writers : HoldsWrite(w)] ELSE <<>>

LEMMA UnsentOfHolder ==
  ASSUME LockInv, NEW w \in Writers, HoldsWrite(w)
  PROVE  Unsent = pending[w]
<1>1. WriteLocked /\ \A v \in Writers : HoldsWrite(v) => v = w
  BY DEF WriteLocked, LockInv
<1>2. (CHOOSE v \in Writers : HoldsWrite(v)) = w
  BY <1>1
<1> QED
  BY <1>1, <1>2 DEF Unsent

LEMMA UnsentType == BatchTypeOK => Unsent \in Seq(TopologyEvents)
<1> SUFFICES ASSUME BatchTypeOK, WriteLocked
             PROVE  pending[CHOOSE w \in Writers : HoldsWrite(w)] \in Seq(TopologyEvents)
  BY EmptySeq DEF Unsent
<1>1. (CHOOSE w \in Writers : HoldsWrite(w)) \in Writers
  BY DEF WriteLocked
<1> QED
  BY <1>1 DEF BatchTypeOK

(* What each method of the registry does to the entities.                   *)
LEMMA MethodsPresent ==
  ASSUME TypeOK
  PROVE  /\ \A c \in Components :
              /\ \A area \in ComponentLinks[c] :
                   InsertComponent(c, area) => Present' = Present \union {ComponentRef(c)}
              /\ RemoveComponent(c) => Present' = Present \ {ComponentRef(c)}
         /\ \A p \in Apps :
              /\ \A link \in AppLinks[p] :
                   InsertApp(p, link) => Present' = Present \union {AppRef(p)}
              /\ RemoveApp(p) => Present' = Present \ {AppRef(p)}
         /\ \A a \in Areas :
              /\ InsertArea(a) => Present' = Present \union {AreaRef(a)}
              /\ RemoveArea(a) => Present' = Present \ {AreaRef(a)}
<1> USE NullsAssumption, LinksAssumption
        DEF TypeOK, Present, ComponentsPresent, AppsPresent, ComponentRef, AppRef, AreaRef
<1>1. ASSUME NEW c \in Components, NEW area \in ComponentLinks[c], InsertComponent(c, area)
      PROVE  Present' = Present \union {ComponentRef(c)}
  <2>1. ComponentsPresent' = ComponentsPresent \union {c} /\ AppsPresent' = AppsPresent
          /\ areas' = areas
    BY <1>1 DEF InsertComponent
  <2> QED
    BY <2>1
<1>2. ASSUME NEW c \in Components, RemoveComponent(c)
      PROVE  Present' = Present \ {ComponentRef(c)}
  <2>1. ComponentsPresent' = ComponentsPresent \ {c} /\ AppsPresent' = AppsPresent
          /\ areas' = areas
    BY <1>2 DEF RemoveComponent
  <2> QED
    BY <2>1
<1>3. ASSUME NEW p \in Apps, NEW link \in AppLinks[p], InsertApp(p, link)
      PROVE  Present' = Present \union {AppRef(p)}
  <2>1. ComponentsPresent' = ComponentsPresent /\ AppsPresent' = AppsPresent \union {p}
          /\ areas' = areas
    BY <1>3 DEF InsertApp
  <2> QED
    BY <2>1
<1>4. ASSUME NEW p \in Apps, RemoveApp(p)
      PROVE  Present' = Present \ {AppRef(p)}
  <2>1. ComponentsPresent' = ComponentsPresent /\ AppsPresent' = AppsPresent \ {p}
          /\ areas' = areas
    BY <1>4 DEF RemoveApp
  <2> QED
    BY <2>1
<1>5. ASSUME NEW a \in Areas, InsertArea(a)
      PROVE  Present' = Present \union {AreaRef(a)}
  <2>1. ComponentsPresent' = ComponentsPresent /\ AppsPresent' = AppsPresent
          /\ areas' = areas \union {a}
    BY <1>5 DEF InsertArea
  <2> QED
    BY <2>1
<1>6. ASSUME NEW a \in Areas, RemoveArea(a)
      PROVE  Present' = Present \ {AreaRef(a)}
  <2>1. ComponentsPresent' = ComponentsPresent /\ AppsPresent' = AppsPresent
          /\ areas' = areas \ {a}
    BY <1>6 DEF RemoveArea
  <2> QED
    BY <2>1
<1> QED
  BY <1>1, <1>2, <1>3, <1>4, <1>5, <1>6

(* A mutation changes the entities as its event says.                       *)
LEMMA MutatePresent ==
  ASSUME TypeOK, NEW w \in Writers, Mutate(w)
  PROVE  \E event \in TopologyEvents :
           Batch(w, event) /\ Present' = Apply(event, Present)
<1> USE MethodsPresent, RefTypes, EventTypes DEF Apply, Added, Removed
<1> DEFINE Goal == \E event \in TopologyEvents :
                      Batch(w, event) /\ Present' = Apply(event, Present)
<1>1. ASSUME NEW c \in Components, NEW area \in ComponentLinks[c], AddComponent(w, c, area)
      PROVE  Goal
  BY <1>1 DEF AddComponent
<1>2. ASSUME NEW c \in Components, GuardRemoveComponent(w, c) PROVE Goal
  BY <1>2 DEF GuardRemoveComponent
<1>3. ASSUME NEW p \in Apps, NEW link \in AppLinks[p], AddApp(w, p, link) PROVE Goal
  BY <1>3 DEF AddApp
<1>4. ASSUME NEW p \in Apps, GuardRemoveApp(w, p) PROVE Goal
  BY <1>4 DEF GuardRemoveApp
<1>5. ASSUME NEW a \in Areas, AddArea(w, a) PROVE Goal
  BY <1>5 DEF AddArea
<1>6. ASSUME NEW a \in Areas, GuardRemoveArea(w, a) PROVE Goal
  BY <1>6 DEF GuardRemoveArea
<1> QED
  BY <1>1, <1>2, <1>3, <1>4, <1>5, <1>6 DEF Mutate

-----------------------------------------------------------------------------
(* The steps, as far as entities and events are concerned.                  *)

MutateMove ==
  /\ \E event \in TopologyEvents :
       Unsent' = Append(Unsent, event) /\ Present' = Apply(event, Present)
  /\ WriteLocked'
  /\ UNCHANGED <<subscribed, inbox, lagged, synced, mirror, announced, committed>>

SendMove ==
  /\ Unsent # <<>> /\ Unsent' = Tail(Unsent) /\ Present' = Present
  /\ WriteLocked'
  /\ announced' = Apply(Head(Unsent), announced)
  /\ inbox' = [r \in Readers |->
       IF r \notin subscribed THEN inbox[r]
       ELSE IF Len(inbox[r]) < Capacity THEN Append(inbox[r], Head(Unsent))
       ELSE Append(Tail(inbox[r]), Head(Unsent))]
  /\ lagged' = lagged \union {r \in subscribed : Len(inbox[r]) = Capacity}
  /\ UNCHANGED <<subscribed, synced, mirror, committed>>

ReceiverMove ==
  /\ \E r \in Readers : Subscribe(r) \/ CopyEntities(r) \/ Receive(r) \/ ReceiveLagged(r)
  /\ Unsent' = Unsent /\ Present' = Present
  /\ WriteLocked' = WriteLocked

LockOnlyMove ==
  /\ Unsent' = Unsent /\ Present' = Present
  /\ UNCHANGED <<subscribed, inbox, lagged, synced, mirror, announced>>
  /\ \/ committed' = Registry'
     \/ WriteLocked'
     \/ ~WriteLocked /\ committed' = committed
  /\ Registry' = Registry

LEMMA UnsentOfHolderNext ==
  ASSUME LockInv', NEW w \in Writers, HoldsWrite(w)'
  PROVE  Unsent' = pending'[w]
<1>1. WriteLocked' /\ \A v \in Writers : HoldsWrite(v)' => v = w
  BY DEF WriteLocked, LockInv
<1>2. (CHOOSE v \in Writers : HoldsWrite(v)') = w
  BY <1>1
<1> QED
  BY <1>1, <1>2 DEF Unsent

(* Nothing changes about what is unsent while the same writers hold the     *)
(* lock and the batches stay as they are.                                   *)
LEMMA UnsentUnchanged ==
  ASSUME LockInv, LockInv', pending' = pending,
         \A w \in Writers : HoldsWrite(w)' <=> HoldsWrite(w)
  PROVE  Unsent' = Unsent /\ (WriteLocked' <=> WriteLocked)
<1>1. WriteLocked' <=> WriteLocked
  BY DEF WriteLocked
<1>2. CASE WriteLocked
  <2>1. PICK w \in Writers : HoldsWrite(w)
    BY <1>2 DEF WriteLocked
  <2> QED
    BY <1>1, <2>1, UnsentOfHolder, UnsentOfHolderNext
<1>3. CASE ~WriteLocked
  BY <1>1, <1>3 DEF Unsent
<1> QED
  BY <1>1, <1>2, <1>3

LEMMA PresentUnchanged == UNCHANGED stateVars => Present' = Present /\ Registry' = Registry
BY DEF stateVars, Registry, Present, ComponentsPresent, AppsPresent

LEMMA StepMoves ==
  ASSUME TopologyTypeOK, LockInv, LockInv', [Next]_vars
  PROVE  MutateMove \/ SendMove \/ ReceiverMove \/ LockOnlyMove
<1> DEFINE Goal == MutateMove \/ SendMove \/ ReceiverMove \/ LockOnlyMove
<1>a. LockTypeOK /\ BatchTypeOK /\ TypeOK
  BY TypeParts
<1>1. ASSUME NEW t \in Tasks, Request(t) \/ CancelWait(t) PROVE Goal
  <2>1. \A w \in Writers : HoldsWrite(w)' <=> HoldsWrite(w)
    BY <1>1, <1>a DEF Request, CancelWait, HoldsWrite, LockTypeOK, Tasks
  <2>2. pending' = pending /\ UNCHANGED stateVars
    BY <1>1 DEF Request, CancelWait
  <2> QED
    BY <1>1, <2>1, <2>2, UnsentUnchanged, PresentUnchanged
       DEF Request, CancelWait, LockOnlyMove, channelVars, mirrorVars
<1>2. ASSUME NEW r \in Readers, GrantRead(r) \/ DropReadGuard(r) PROVE Goal
  <2>1. \A w \in Writers : HoldsWrite(w)' <=> HoldsWrite(w)
    BY <1>2, <1>a, TasksAssumption DEF GrantRead, DropReadGuard, HoldsWrite, LockTypeOK, Tasks
  <2>2. pending' = pending /\ UNCHANGED stateVars
    BY <1>2 DEF GrantRead, DropReadGuard
  <2> QED
    BY <1>2, <2>1, <2>2, UnsentUnchanged, PresentUnchanged
       DEF GrantRead, DropReadGuard, LockOnlyMove, channelVars, mirrorVars
<1>3. ASSUME NEW w \in Writers, GrantWrite(w) PROVE Goal
  <2>1. ~WriteLocked /\ HoldsWrite(w)' /\ pending'[w] = <<>>
    BY <1>3, <1>a DEF GrantWrite, WriteLocked, HoldsWrite, LockTypeOK, BatchTypeOK, Tasks
  <2>2. Unsent = <<>> /\ Unsent' = <<>> /\ WriteLocked'
    BY <2>1, UnsentOfHolderNext DEF Unsent, WriteLocked
  <2> QED
    BY <1>3, <2>2, PresentUnchanged DEF GrantWrite, LockOnlyMove, channelVars, mirrorVars
<1>4. ASSUME NEW w \in Writers, Mutate(w) PROVE Goal
  <2>1. PICK event \in TopologyEvents : Batch(w, event) /\ Present' = Apply(event, Present)
    BY <1>4, <1>a, MutatePresent
  <2>2. HoldsWrite(w) /\ HoldsWrite(w)' /\ pending'[w] = Append(pending[w], event)
    BY <2>1, <1>a DEF Batch, HoldsWrite, lockVars, BatchTypeOK
  <2>3. Unsent' = Append(Unsent, event) /\ WriteLocked'
    BY <2>2, UnsentOfHolder, UnsentOfHolderNext DEF WriteLocked
  <2> QED
    BY <2>1, <2>3 DEF Batch, MutateMove, channelVars, mirrorVars
<1>5. ASSUME NEW w \in Writers, DropWriteGuard(w) PROVE Goal
  <2>1. \A v \in Writers : HoldsWrite(v)' <=> HoldsWrite(v)
    BY <1>5, <1>a DEF DropWriteGuard, HoldsWrite, LockTypeOK, Tasks
  <2>2. WriteLocked
    BY <1>5 DEF DropWriteGuard, WriteLocked, HoldsWrite
  <2> QED
    BY <1>5, <2>1, <2>2, UnsentUnchanged, PresentUnchanged
       DEF DropWriteGuard, LockOnlyMove, channelVars, mirrorVars
<1>6. ASSUME NEW w \in Writers, SendEvent(w) PROVE Goal
  <2>1. HoldsWrite(w) /\ HoldsWrite(w)' /\ pending'[w] = Tail(pending[w]) /\ pending[w] # <<>>
    BY <1>6, <1>a DEF SendEvent, HoldsWrite, lockVars, BatchTypeOK
  <2>2. Unsent = pending[w] /\ Unsent' = pending'[w] /\ WriteLocked'
    BY <2>1, UnsentOfHolder, UnsentOfHolderNext DEF WriteLocked
  <2> QED
    BY <1>6, <2>1, <2>2, PresentUnchanged DEF SendEvent, SendMove, mirrorVars
<1>7. ASSUME NEW w \in Writers, Unlock(w) PROVE Goal
  <2>1. HoldsWrite(w) /\ pending[w] = <<>>
    BY <1>7 DEF Unlock, HoldsWrite
  <2>2. ~WriteLocked'
    BY <1>7, <2>1, <1>a DEF Unlock, WriteLocked, HoldsWrite, LockInv, LockTypeOK, Tasks
  <2>3. Unsent = <<>> /\ Unsent' = <<>>
    BY <2>1, <2>2, UnsentOfHolder DEF Unsent
  <2> QED
    BY <1>7, <2>3, PresentUnchanged DEF Unlock, LockOnlyMove, channelVars, mirrorVars
<1>8. ASSUME NEW r \in Readers,
             Subscribe(r) \/ CopyEntities(r) \/ Receive(r) \/ ReceiveLagged(r)
      PROVE  Goal
  <2>1. UNCHANGED <<mode, pending>> /\ UNCHANGED stateVars
    BY <1>8 DEF Subscribe, CopyEntities, Receive, ReceiveLagged, lockVars
  <2>2. \A w \in Writers : HoldsWrite(w)' <=> HoldsWrite(w)
    BY <2>1 DEF HoldsWrite
  <2>3. WriteLocked' = WriteLocked
    BY <2>1 DEF WriteLocked, HoldsWrite
  <2> QED
    BY <1>8, <2>1, <2>2, <2>3, UnsentUnchanged, PresentUnchanged DEF ReceiverMove
<1>9. CASE UNCHANGED vars
  <2>1. UNCHANGED <<mode, pending>> /\ UNCHANGED stateVars
    BY <1>9 DEF vars, lockVars
  <2>2. \A w \in Writers : HoldsWrite(w)' <=> HoldsWrite(w)
    BY <2>1 DEF HoldsWrite
  <2> QED
    BY <1>9, <2>1, <2>2, UnsentUnchanged, PresentUnchanged
       DEF vars, channelVars, mirrorVars, LockOnlyMove
<1> QED
  BY <1>1, <1>2, <1>3, <1>4, <1>5, <1>6, <1>7, <1>8, <1>9
     DEF Next, WriterStep, ReaderStep, Tasks

-----------------------------------------------------------------------------
(* Readers see what was announced.                                          *)

(* What was announced and what is still to be sent account for the          *)
(* entities; while nobody writes, the registry is as the last guard left it.*)
EventsInv ==
  /\ Yields(Unsent, announced, Present)
  /\ ~WriteLocked => committed = Registry

LEMMA EventsInvInit == Init => EventsInv
<1> SUFFICES ASSUME Init PROVE EventsInv
  OBVIOUS
<1>1. ~WriteLocked /\ Unsent = <<>>
  BY DEF Init, WriteLocked, HoldsWrite, Unsent, Tasks
<1>2. Present = {}
  BY DEF Init, StateInit, Present, ComponentsPresent, AppsPresent
<1> QED
  BY <1>1, <1>2, YieldsEmpty DEF Init, EventsInv

LEMMA EventsInvStep ==
  TopologyTypeOK /\ LockInv /\ LockInv' /\ EventsInv /\ [Next]_vars => EventsInv'
<1> SUFFICES ASSUME TopologyTypeOK, LockInv, LockInv', EventsInv, [Next]_vars
             PROVE  EventsInv'
  OBVIOUS
<1>a. Unsent \in Seq(TopologyEvents) /\ Present \in SUBSET EntityRefs
        /\ announced \in SUBSET EntityRefs
  BY UnsentType, PresentType, TypeParts DEF EntitiesTypeOK
<1>1. CASE MutateMove
  BY <1>1, <1>a, YieldsAppend DEF MutateMove, EventsInv
<1>2. CASE SendMove
  BY <1>2, <1>a, YieldsTail DEF SendMove, EventsInv
<1>3. CASE ReceiverMove
  <2>1. UNCHANGED <<announced, committed>> /\ UNCHANGED stateVars
    BY <1>3 DEF ReceiverMove, Subscribe, CopyEntities, Receive, ReceiveLagged
  <2> QED
    BY <1>3, <2>1, PresentUnchanged DEF ReceiverMove, EventsInv
<1>4. CASE LockOnlyMove
  BY <1>4 DEF LockOnlyMove, EventsInv
<1> QED
  BY <1>1, <1>2, <1>3, <1>4, StepMoves

LEMMA EventsInvReaders == TopologyTypeOK /\ LockInv /\ EventsInv => ReadersSeeAnnounced
<1> SUFFICES ASSUME TopologyTypeOK, LockInv, EventsInv, NEW r \in Readers, HoldsRead(r)
             PROVE  announced = Present
  BY DEF ReadersSeeAnnounced
<1>1. Unsent = <<>>
  BY DEF LockInv, Unsent
<1> QED
  BY <1>1, YieldsEmpty, PresentType, TypeParts DEF EventsInv, EntitiesTypeOK

(* drop() sends the batch before the lock is released: under a read guard,  *)
(* the entities are exactly those announced.                                *)
THEOREM ReadersSeeAnnouncedHolds == Spec => []ReadersSeeAnnounced
<1> QED
  BY EventsInvInit, EventsInvStep, EventsInvReaders, LockInvInit, LockInvStep,
     TopologyTypeInit, TopologyTypeStep, PTL DEF Spec

-----------------------------------------------------------------------------
(* Mirrors converge.                                                        *)

(* What a receiver has yet to receive ends, for every entity, as the        *)
(* registry has it; applied to a mirror that is valid, it makes it equal.   *)
MirrorsInv ==
  \A r \in Readers :
    /\ r \notin subscribed => inbox[r] = <<>>
    /\ Agrees(inbox[r] \o Unsent, Present)
    /\ r \in synced \ lagged => Yields(inbox[r] \o Unsent, mirror[r], Present)

LEMMA MirrorsInvInit == Init => MirrorsInv
<1> SUFFICES ASSUME Init PROVE MirrorsInv
  OBVIOUS
<1>1. Unsent = <<>>
  BY DEF Init, WriteLocked, HoldsWrite, Unsent, Tasks
<1>2. \A r \in Readers : inbox[r] = <<>> /\ inbox[r] \o Unsent = <<>> /\ r \notin synced
  BY <1>1 DEF Init
<1> QED
  BY <1>2, AgreesEmpty DEF MirrorsInv

LEMMA MoveFirst ==
  ASSUME NEW s \in Seq(TopologyEvents), NEW t \in Seq(TopologyEvents), t # <<>>
  PROVE  Append(s, Head(t)) \o Tail(t) = s \o t
OBVIOUS

LEMMA TailConcat ==
  ASSUME NEW s \in Seq(TopologyEvents), NEW t \in Seq(TopologyEvents), s # <<>>
  PROVE  s \o t # <<>> /\ Head(s \o t) = Head(s) /\ Tail(s \o t) = Tail(s) \o t
OBVIOUS

LEMMA AppendConcat ==
  ASSUME NEW s \in Seq(TopologyEvents), NEW t \in Seq(TopologyEvents),
         NEW event \in TopologyEvents
  PROVE  s \o Append(t, event) = Append(s \o t, event)
OBVIOUS

(* One receiver, when the head of the unsent events is sent.                *)
LEMMA SendToReceiver ==
  ASSUME TopologyTypeOK, SendMove, NEW r \in Readers,
         r \notin subscribed => inbox[r] = <<>>,
         Agrees(inbox[r] \o Unsent, Present),
         r \in synced \ lagged => Yields(inbox[r] \o Unsent, mirror[r], Present)
  PROVE  /\ Agrees(inbox'[r] \o Unsent', Present)
         /\ r \in synced \ lagged' => Yields(inbox'[r] \o Unsent', mirror[r], Present)
<1>a. /\ Unsent \in Seq(TopologyEvents) /\ Unsent # <<>>
      /\ Head(Unsent) \in TopologyEvents /\ Tail(Unsent) \in Seq(TopologyEvents)
      /\ inbox[r] \in Seq(TopologyEvents) /\ Len(inbox[r]) <= Capacity
      /\ synced \subseteq subscribed /\ lagged \subseteq lagged'
      /\ Unsent' = Tail(Unsent)
  BY UnsentType, TypeParts, HeadTailProperties DEF ChannelTypeOK, SendMove
<1>1. CASE r \in subscribed /\ Len(inbox[r]) < Capacity
  <2>1. inbox'[r] \o Unsent' = inbox[r] \o Unsent
    BY <1>1, <1>a, MoveFirst DEF SendMove
  <2> QED
    BY <2>1, <1>a
<1>2. CASE r \in subscribed /\ ~(Len(inbox[r]) < Capacity)
  <2>1. inbox[r] # <<>> /\ Len(inbox[r]) = Capacity
    BY <1>2, <1>a, BoundsAssumption, LenProperties, EmptySeq
  <2>2. inbox'[r] \o Unsent' = Tail(inbox[r] \o Unsent)
    <3>1. Tail(inbox[r]) \in Seq(TopologyEvents)
      BY <1>a, <2>1, HeadTailProperties
    <3>2. inbox'[r] \o Unsent' = Append(Tail(inbox[r]), Head(Unsent)) \o Tail(Unsent)
      BY <1>2, <1>a DEF SendMove
    <3> QED
      <4>1. Append(Tail(inbox[r]), Head(Unsent)) \o Tail(Unsent) = Tail(inbox[r]) \o Unsent
        BY <1>a, <3>1, MoveFirst
      <4>2. Tail(inbox[r] \o Unsent) = Tail(inbox[r]) \o Unsent
        BY <1>a, <2>1, TailConcat
      <4> QED
        BY <3>2, <4>1, <4>2
  <2>3. r \in lagged'
    BY <1>2, <2>1 DEF SendMove
  <2>4. inbox[r] \o Unsent \in Seq(TopologyEvents) /\ inbox[r] \o Unsent # <<>>
    BY <1>a, <2>1, TailConcat, ConcatProperties
  <2> QED
    BY <2>2, <2>3, <2>4, AgreesTail
<1>3. CASE r \notin subscribed
  <2>1. inbox'[r] = inbox[r] /\ r \notin synced
    BY <1>3, <1>a DEF SendMove
  <2>2. inbox[r] \o Unsent = Unsent /\ inbox'[r] \o Unsent' = Tail(Unsent)
    BY <1>a, <1>3, <2>1, ConcatEmptySeq
  <2> QED
    BY <1>a, <2>1, <2>2, AgreesTail
<1> QED
  BY <1>1, <1>2, <1>3

LEMMA MirrorsInvStep ==
  TopologyTypeOK /\ LockInv /\ LockInv' /\ MirrorsInv /\ [Next]_vars => MirrorsInv'
<1> SUFFICES ASSUME TopologyTypeOK, LockInv, LockInv', MirrorsInv, [Next]_vars,
                    NEW r \in Readers
             PROVE  /\ r \notin subscribed' => inbox'[r] = <<>>
                    /\ Agrees(inbox'[r] \o Unsent', Present')
                    /\ r \in synced' \ lagged' => Yields(inbox'[r] \o Unsent', mirror'[r], Present')
  BY DEF MirrorsInv
<1> DEFINE Goal == /\ r \notin subscribed' => inbox'[r] = <<>>
                   /\ Agrees(inbox'[r] \o Unsent', Present')
                   /\ r \in synced' \ lagged' => Yields(inbox'[r] \o Unsent', mirror'[r], Present')
<1>a. /\ r \notin subscribed => inbox[r] = <<>>
      /\ Agrees(inbox[r] \o Unsent, Present)
      /\ r \in synced \ lagged => Yields(inbox[r] \o Unsent, mirror[r], Present)
  BY DEF MirrorsInv
<1>b. /\ Unsent \in Seq(TopologyEvents) /\ inbox[r] \in Seq(TopologyEvents)
      /\ inbox[r] \o Unsent \in Seq(TopologyEvents)
      /\ Present \in SUBSET EntityRefs /\ mirror[r] \in SUBSET EntityRefs
      /\ inbox \in [Readers -> Seq(TopologyEvents)]
      /\ mirror \in [Readers -> SUBSET EntityRefs]
  BY UnsentType, PresentType, TypeParts, ConcatProperties DEF ChannelTypeOK, EntitiesTypeOK
<1>1. CASE MutateMove
  <2>1. PICK event \in TopologyEvents :
          Unsent' = Append(Unsent, event) /\ Present' = Apply(event, Present)
    BY <1>1 DEF MutateMove
  <2>2. inbox'[r] \o Unsent' = Append(inbox[r] \o Unsent, event)
    BY <1>1, <1>b, <2>1, AppendConcat DEF MutateMove
  <2>3. Agrees(Append(inbox[r] \o Unsent, event), Present')
    BY <1>a, <1>b, <2>1, AgreesAppend
  <2>4. r \in synced \ lagged => Yields(Append(inbox[r] \o Unsent, event), mirror[r], Present')
    BY <1>a, <1>b, <2>1, YieldsAppend
  <2> QED
    BY <1>1, <1>a, <2>2, <2>3, <2>4 DEF MutateMove
<1>2. CASE SendMove
  <2>1. r \notin subscribed => inbox'[r] = inbox[r]
    BY <1>2 DEF SendMove
  <2> QED
    BY <1>2, <1>a, <2>1, SendToReceiver DEF SendMove
<1>3. ASSUME ReceiverMove, NEW q \in Readers, Subscribe(q) PROVE Goal
  BY <1>3, <1>a DEF ReceiverMove, Subscribe, mirrorVars
<1>4. ASSUME ReceiverMove, NEW q \in Readers, CopyEntities(q) PROVE Goal
  <2>1. CASE q = r
    <3>1. mirror'[r] = Present
      BY <1>4, <1>b, <2>1 DEF CopyEntities
    <3> QED
      BY <1>4, <1>a, <3>1, AgreesYields DEF ReceiverMove, CopyEntities, channelVars
  <2>2. CASE q # r
    BY <1>4, <1>a, <1>b, <2>2 DEF ReceiverMove, CopyEntities, channelVars
  <2> QED
    BY <2>1, <2>2
<1>5. ASSUME ReceiverMove, NEW q \in Readers, Receive(q) PROVE Goal
  <2>1. CASE q = r
    <3>1. inbox[r] # <<>> /\ inbox'[r] = Tail(inbox[r])
      BY <1>5, <1>b, <2>1 DEF Receive
    <3>2. /\ inbox[r] \o Unsent # <<>> /\ Head(inbox[r] \o Unsent) = Head(inbox[r])
          /\ inbox'[r] \o Unsent' = Tail(inbox[r] \o Unsent)
      BY <1>5, <1>b, <3>1, TailConcat DEF ReceiverMove
    <3>3. Agrees(Tail(inbox[r] \o Unsent), Present)
      BY <1>a, <1>b, <3>2, AgreesTail
    <3>4. ASSUME r \in synced \ lagged
          PROVE  Yields(Tail(inbox[r] \o Unsent), mirror'[r], Present)
      <4>1. mirror'[r] = Apply(Head(inbox[r] \o Unsent), mirror[r])
        BY <1>5, <1>b, <2>1, <3>2, <3>4 DEF Receive
      <4> QED
        BY <1>a, <1>b, <3>2, <3>4, <4>1, YieldsTail
    <3> QED
      BY <1>5, <1>a, <2>1, <3>1, <3>2, <3>3, <3>4 DEF ReceiverMove, Receive
  <2>2. CASE q # r
    <3>1. inbox'[r] = inbox[r] /\ mirror'[r] = mirror[r]
      BY <1>5, <1>b, <2>2 DEF Receive
    <3> QED
      BY <1>5, <1>a, <3>1 DEF ReceiverMove, Receive
  <2> QED
    BY <2>1, <2>2
<1>6. ASSUME ReceiverMove, NEW q \in Readers, ReceiveLagged(q) PROVE Goal
  <2>1. q # r => mirror'[r] = mirror[r]
    BY <1>6, <1>b DEF ReceiveLagged
  <2> QED
    BY <1>6, <1>a, <2>1 DEF ReceiverMove, ReceiveLagged
<1>7. CASE LockOnlyMove
  BY <1>7, <1>a DEF LockOnlyMove
<1> QED
  BY <1>1, <1>2, <1>3, <1>4, <1>5, <1>6, <1>7, StepMoves DEF ReceiverMove

LEMMA MirrorsInvConverges == TopologyTypeOK /\ MirrorsInv => MirrorConverges
<1> SUFFICES ASSUME TopologyTypeOK, MirrorsInv, NEW r \in synced \ lagged,
                    inbox[r] = <<>>, \A w \in Writers : pending[w] = <<>>
             PROVE  mirror[r] = Present
  BY DEF MirrorConverges
<1>1. r \in Readers /\ Present \in SUBSET EntityRefs /\ mirror[r] \in SUBSET EntityRefs
  BY PresentType, TypeParts DEF ChannelTypeOK, EntitiesTypeOK
<1>2. Unsent = <<>>
  BY DEF Unsent, WriteLocked
<1>3. inbox[r] \o Unsent = <<>>
  BY <1>2
<1> QED
  BY <1>1, <1>3, YieldsEmpty DEF MirrorsInv

(* A subscriber that did not lag has the entities of the registry once it   *)
(* has received everything, wherever its subscription and its copy fell     *)
(* among the batches, and however often an event reached it.                *)
THEOREM MirrorConvergesHolds == Spec => []MirrorConverges
<1> QED
  BY MirrorsInvInit, MirrorsInvStep, MirrorsInvConverges, LockInvInit, LockInvStep,
     TopologyTypeInit, TopologyTypeStep, PTL DEF Spec

-----------------------------------------------------------------------------
(* The topology implements the abstract registry.                           *)

SeenBar == [r \in Readers |-> IF HoldsRead(r) THEN <<Registry>> ELSE <<>>]
AnnouncedBar == IF WriteLocked THEN committed.entities ELSE announced

(* What the refinement reads: what is announced is what is committed, and a *)
(* reader reads what is committed.                                          *)
RefinementInv ==
  /\ AnnouncedBar = committed.entities
  /\ committed.entities \in SUBSET EntityRefs
  /\ \A r \in Readers : HoldsRead(r) => Registry = committed

LEMMA RefinementInvHolds == TopologyTypeOK /\ LockInv /\ EventsInv => RefinementInv
<1> SUFFICES ASSUME TopologyTypeOK, LockInv, EventsInv PROVE RefinementInv
  OBVIOUS
<1>1. ASSUME ~WriteLocked PROVE announced = committed.entities
  <2>1. announced = Present
    BY <1>1, YieldsEmpty, PresentType, TypeParts DEF EventsInv, Unsent, EntitiesTypeOK
  <2> QED
    BY <1>1, <2>1 DEF EventsInv, Registry
<1> QED
  BY <1>1, TypeParts DEF RefinementInv, AnnouncedBar, EntitiesTypeOK, LockInv, EventsInv

LEMMA RefinesInit == Init => Atomic!AtomicInit
<1> SUFFICES ASSUME Init PROVE Atomic!AtomicInit
  OBVIOUS
<1>1. Present = {}
  BY DEF Init, StateInit, Present, ComponentsPresent, AppsPresent
<1>2. committed.entities = {}
  BY <1>1 DEF Init, Registry
<1>3. \A r \in Readers : ~HoldsRead(r)
  BY DEF Init, HoldsRead, Tasks
<1> QED
  BY <1>2, <1>3 DEF Init, Atomic!AtomicInit, Atomic!None

(* A step after which the same readers read the same, and nothing new is    *)
(* committed.                                                               *)
LEMMA StutterStep ==
  ASSUME RefinementInv, RefinementInv', committed' = committed,
         \A r \in Readers : HoldsRead(r)' <=> HoldsRead(r)
  PROVE  UNCHANGED <<committed, SeenBar, AnnouncedBar>>
<1>1. \A r \in Readers : HoldsRead(r) => Registry' = Registry
  BY DEF RefinementInv
<1>2. SeenBar' = SeenBar
  BY <1>1 DEF SeenBar
<1> QED
  BY <1>2 DEF RefinementInv

LEMMA RefinesStep ==
  TopologyTypeOK /\ LockInv /\ LockInv' /\ RefinementInv /\ RefinementInv' /\ [Next]_vars
    => [Atomic!AtomicNext]_(Atomic!registryVars)
<1> SUFFICES ASSUME TopologyTypeOK, LockInv, LockInv', RefinementInv, RefinementInv', [Next]_vars
             PROVE  \/ \E r \in Readers : Atomic!BeginRead(r) \/ Atomic!EndRead(r)
                    \/ Atomic!Commit
                    \/ UNCHANGED <<committed, SeenBar, AnnouncedBar>>
  BY DEF Atomic!AtomicNext, Atomic!registryVars, SeenBar, AnnouncedBar
<1> DEFINE Goal == \/ \E r \in Readers : Atomic!BeginRead(r) \/ Atomic!EndRead(r)
                   \/ Atomic!Commit
                   \/ UNCHANGED <<committed, SeenBar, AnnouncedBar>>
<1>a. mode \in [Tasks -> Modes]
  BY DEF TopologyTypeOK
<1>b. ASSUME committed' = committed PROVE AnnouncedBar' = AnnouncedBar
  BY <1>b DEF RefinementInv
<1>1. ASSUME NEW w \in Writers, Unlock(w) PROVE Goal
  <2>1. \A r \in Readers : ~HoldsRead(r)
    BY <1>1 DEF Unlock, LockInv, WriteLocked, HoldsWrite
  <2>2. \A r \in Readers : ~HoldsRead(r)'
    BY <1>1, <1>a, <2>1 DEF Unlock, HoldsRead, Tasks
  <2>3. SeenBar' = SeenBar
    BY <2>1, <2>2 DEF SeenBar
  <2>4. Atomic!Commit
    BY <2>3 DEF Atomic!Commit, SeenBar, AnnouncedBar, RefinementInv
  <2> QED
    BY <2>4
<1>2. ASSUME NEW r \in Readers, GrantRead(r), ~HoldsRead(r) PROVE Goal
  <2>1. committed' = committed /\ HoldsRead(r)'
          /\ \A q \in Readers \ {r} : HoldsRead(q)' <=> HoldsRead(q)
    BY <1>2, <1>a DEF GrantRead, HoldsRead, Tasks
  <2>2. SeenBar' = [SeenBar EXCEPT ![r] = <<committed>>]
    BY <2>1 DEF SeenBar, RefinementInv
  <2>3. SeenBar[r] = <<>>
    BY <1>2 DEF SeenBar
  <2>4. Atomic!BeginRead(r)
    BY <2>1, <2>2, <2>3, <1>b DEF Atomic!BeginRead, Atomic!None, SeenBar, AnnouncedBar
  <2> QED
    BY <2>4
<1>3. ASSUME NEW r \in Readers, DropReadGuard(r) PROVE Goal
  <2>1. committed' = committed /\ ~HoldsRead(r)'
          /\ \A q \in Readers \ {r} : HoldsRead(q)' <=> HoldsRead(q)
    BY <1>3, <1>a DEF DropReadGuard, HoldsRead, Tasks
  <2>2. SeenBar' = [SeenBar EXCEPT ![r] = <<>>]
    BY <2>1 DEF SeenBar, RefinementInv
  <2>3. SeenBar[r] # <<>>
    BY <1>3 DEF SeenBar, DropReadGuard
  <2>4. Atomic!EndRead(r)
    BY <2>1, <2>2, <2>3, <1>b DEF Atomic!EndRead, Atomic!None, SeenBar, AnnouncedBar
  <2> QED
    BY <2>4
<1>4. ASSUME committed' = committed, \A r \in Readers : HoldsRead(r)' <=> HoldsRead(r)
      PROVE  Goal
  BY <1>4, StutterStep
<1>5. ASSUME NEW r \in Readers, GrantRead(r), HoldsRead(r) PROVE Goal
  BY <1>5, <1>4, <1>a DEF GrantRead, HoldsRead, Tasks
<1>6. ASSUME NEW t \in Tasks, Request(t) \/ CancelWait(t) PROVE Goal
  BY <1>6, <1>4, <1>a DEF Request, CancelWait, HoldsRead, Tasks
<1>7. ASSUME NEW w \in Writers, GrantWrite(w) \/ DropWriteGuard(w) PROVE Goal
  <2>1. \A r \in Readers : r # w
    BY TasksAssumption
  <2> QED
    BY <1>7, <1>4, <1>a, <2>1 DEF GrantWrite, DropWriteGuard, HoldsRead, Tasks
<1>8. ASSUME NEW w \in Writers, Mutate(w) \/ SendEvent(w) PROVE Goal
  <2>1. mode' = mode /\ committed' = committed
    BY <1>8, MutateShape DEF Batch, SendEvent, lockVars
  <2> QED
    BY <2>1, <1>4 DEF HoldsRead
<1>9. ASSUME NEW r \in Readers,
             Subscribe(r) \/ CopyEntities(r) \/ Receive(r) \/ ReceiveLagged(r)
      PROVE  Goal
  <2>1. mode' = mode /\ committed' = committed
    BY <1>9 DEF Subscribe, CopyEntities, Receive, ReceiveLagged, lockVars
  <2> QED
    BY <2>1, <1>4 DEF HoldsRead
<1>10. CASE UNCHANGED vars
  <2>1. mode' = mode /\ committed' = committed
    BY <1>10 DEF vars, lockVars
  <2> QED
    BY <2>1, <1>4 DEF HoldsRead
<1> QED
  BY <1>1, <1>2, <1>3, <1>5, <1>6, <1>7, <1>8, <1>9, <1>10
     DEF Next, WriterStep, ReaderStep, Tasks

(* Without its lock, its guards and its batches, the topology is a registry *)
(* that changes in one step per batch: a reader sees one version for as     *)
(* long as it holds its guard, and the announcements of a batch become      *)
(* visible together with it.                                                *)
THEOREM TopologyRefinesAtomic == Spec => ReadsAreAtomic
<1> QED
  BY RefinesInit, RefinesStep, RefinementInvHolds, EventsInvInit, EventsInvStep,
     LockInvInit, LockInvStep, TopologyTypeInit, TopologyTypeStep, PTL
     DEF Spec, ReadsAreAtomic, Atomic!AtomicSpec

-----------------------------------------------------------------------------
(* The registry behind the lock.                                            *)

LEMMA RegistrySteps == [Next]_vars => [StateNext]_stateVars
<1> SUFFICES ASSUME [Next]_vars PROVE StateNext \/ UNCHANGED stateVars
  OBVIOUS
<1>1. ASSUME NEW w \in Writers, WriterStep(w) PROVE StateNext \/ UNCHANGED stateVars
  <2>1. CASE Mutate(w)
    BY <2>1, MutateShape
  <2>2. CASE ~Mutate(w)
    BY <1>1, <2>2
       DEF WriterStep, Request, CancelWait, GrantWrite, DropWriteGuard, SendEvent, Unlock
  <2> QED
    BY <2>1, <2>2
<1>2. ASSUME NEW r \in Readers, ReaderStep(r) PROVE StateNext \/ UNCHANGED stateVars
  BY <1>2 DEF ReaderStep, Request, CancelWait, GrantRead, DropReadGuard, Subscribe,
              CopyEntities, Receive, ReceiveLagged
<1>3. CASE UNCHANGED vars
  BY <1>3 DEF vars
<1> QED
  BY <1>1, <1>2, <1>3 DEF Next

(* Through its guards the registry changes only by its own six methods, one *)
(* at a time: what holds of the registry holds of the topology.             *)
THEOREM TopologyIsRegistry == Spec => StateSpec
<1> QED
  BY RegistrySteps, PTL DEF Spec, StateSpec, Init

(* While no ID changes its links, no query of the topology ever lists an    *)
(* entity that is gone or linked elsewhere, also in the middle of a batch.  *)
THEOREM TopologyLinksSound ==
  ASSUME StableLinks
  PROVE  Spec => []IndexesSound
<1> QED
  BY StableLinksSound, TopologyIsRegistry

-----------------------------------------------------------------------------
(* Who stands in the queue of the lock waits, and stands there once.        *)

QueueInv ==
  /\ \A i \in DOMAIN queue : mode[queue[i]] = "waiting"
  /\ \A i, j \in DOMAIN queue : queue[i] = queue[j] => i = j

QueueMove ==
  \/ mode' = mode /\ queue' = queue
  \/ \E t \in Tasks, m \in Modes :
       mode[t] # "waiting" /\ mode' = [mode EXCEPT ![t] = m] /\ queue' = queue
  \/ \E t \in Tasks :
       mode[t] = "idle" /\ mode' = [mode EXCEPT ![t] = "waiting"] /\ queue' = Append(queue, t)
  \/ \E i \in DOMAIN queue :
       mode' = [mode EXCEPT ![queue[i]] = "idle"] /\ queue' = RemoveAt(queue, i)
  \/ \E m \in Modes :
       queue # <<>> /\ mode' = [mode EXCEPT ![Head(queue)] = m] /\ queue' = Tail(queue)

LEMMA QueueMoves == [Next]_vars => QueueMove
<1> SUFFICES ASSUME [Next]_vars PROVE QueueMove
  OBVIOUS
<1> USE DEF QueueMove, Modes, Tasks, lockVars
<1>1. ASSUME NEW t \in Tasks, Request(t) \/ CancelWait(t) PROVE QueueMove
  BY <1>1 DEF Request, CancelWait
<1>2. ASSUME NEW r \in Readers, ReaderStep(r) PROVE QueueMove
  BY <1>1, <1>2 DEF ReaderStep, GrantRead, DropReadGuard, HoldsRead, Subscribe, CopyEntities,
                    Receive, ReceiveLagged
<1>3. ASSUME NEW w \in Writers, WriterStep(w), ~Mutate(w) PROVE QueueMove
  BY <1>1, <1>3 DEF WriterStep, GrantWrite, DropWriteGuard, SendEvent, Unlock
<1>4. ASSUME NEW w \in Writers, Mutate(w) PROVE QueueMove
  BY <1>4, MutateShape DEF Batch
<1>5. CASE UNCHANGED vars
  BY <1>5 DEF vars
<1> QED
  BY <1>2, <1>3, <1>4, <1>5 DEF Next

LEMMA QueueInvStep == TopologyTypeOK /\ QueueInv /\ [Next]_vars => QueueInv'
<1> SUFFICES ASSUME TopologyTypeOK, QueueInv, QueueMove PROVE QueueInv'
  BY QueueMoves
<1>type. /\ mode \in [Tasks -> Modes] /\ queue \in Seq(Tasks) /\ Len(queue) \in Nat
         /\ DOMAIN queue = 1..Len(queue) /\ \A i \in 1..Len(queue) : queue[i] \in Tasks
  BY DEF TopologyTypeOK
<1> USE DEF QueueInv
<1>1. CASE mode' = mode /\ queue' = queue
  BY <1>1
<1>2. ASSUME NEW t \in Tasks, NEW m \in Modes,
             mode[t] # "waiting", mode' = [mode EXCEPT ![t] = m], queue' = queue
      PROVE  QueueInv'
  BY <1>2, <1>type
<1>3. ASSUME NEW t \in Tasks, mode[t] = "idle", mode' = [mode EXCEPT ![t] = "waiting"],
             queue' = Append(queue, t)
      PROVE  QueueInv'
  <2>1. /\ DOMAIN queue' = 1..(Len(queue) + 1) /\ queue'[Len(queue) + 1] = t
        /\ \A i \in 1..Len(queue) : queue'[i] = queue[i] /\ queue[i] # t
    BY <1>3, <1>type
  <2> QED
    BY <1>3, <1>type, <2>1
<1>4. ASSUME NEW i \in DOMAIN queue, mode' = [mode EXCEPT ![queue[i]] = "idle"],
             queue' = RemoveAt(queue, i)
      PROVE  QueueInv'
  <2>1. /\ DOMAIN queue' = 1..(Len(queue) - 1)
        /\ \A j \in 1..(Len(queue) - 1) : queue'[j] = IF j < i THEN queue[j] ELSE queue[j + 1]
    BY <1>4, <1>type, RemoveAtElements
  <2> DEFINE old(j) == IF j < i THEN j ELSE j + 1
  <2>2. \A j \in DOMAIN queue' : old(j) \in DOMAIN queue /\ old(j) # i /\ queue'[j] = queue[old(j)]
    BY <2>1, <1>type
  <2>3. \A j, k \in DOMAIN queue' : old(j) = old(k) => j = k
    BY <2>1, <1>type
  <2> HIDE DEF old
  <2>4. \A j \in DOMAIN queue' : queue'[j] # queue[i]
    BY <2>2
  <2> QED
    BY <1>4, <1>type, <2>2, <2>3, <2>4
<1>5. ASSUME NEW m \in Modes, queue # <<>>, mode' = [mode EXCEPT ![Head(queue)] = m],
             queue' = Tail(queue)
      PROVE  QueueInv'
  <2>1. /\ DOMAIN queue' = 1..(Len(queue) - 1) /\ Head(queue) = queue[1] /\ 1 \in DOMAIN queue
        /\ \A j \in 1..(Len(queue) - 1) : queue'[j] = queue[j + 1]
    BY <1>5, <1>type
  <2>2. \A j \in DOMAIN queue' : j + 1 \in DOMAIN queue /\ j + 1 # 1 /\ queue'[j] = queue[j + 1]
    BY <2>1, <1>type
  <2>3. \A j \in DOMAIN queue' : queue'[j] # queue[1]
    BY <2>1, <2>2
  <2>4. \A j, k \in DOMAIN queue' : queue'[j] = queue'[k] => j = k
    <3>1. ASSUME NEW j \in DOMAIN queue', NEW k \in DOMAIN queue', queue'[j] = queue'[k]
          PROVE  j = k
      <4>1. j + 1 = k + 1
        BY <3>1, <2>2
      <4> QED
        BY <4>1, <2>1
    <3> QED
      BY <3>1
  <2> QED
    BY <1>5, <1>type, <2>1, <2>2, <2>3, <2>4
<1> QED
  BY <1>1, <1>2, <1>3, <1>4, <1>5 DEF QueueMove

=============================================================================
