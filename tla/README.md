# A TLA+ model of the OpenSOVD server

TLA+ modules, TLC configurations and TLAPS proofs for the Rust workspace in
this repository: an SOVD (Service-Oriented Vehicle Diagnostics) server, its
gateway binary, its client library and an MCP adapter. Paths below are relative
to `src/`; "topology.rs" is `opensovd-core/src/topology.rs`, "server.rs" and
"tls.rs" are in `opensovd-server/src/`.

## 1. Inventory: the system and its parts

| part | code | state it keeps | operations | modelled by |
|---|---|---|---|---|
| topology registry | topology.rs 36-255 | three maps of entities, three relationship indexes | insert and remove a component, app, area; queries | `TopologyState` |
| topology lock, guards, events | topology.rs 257-411 | tokio `RwLock`, the batch of each write guard, a broadcast channel of 64 | `read`, `write`, `subscribe`, the guards' methods and `Drop` | `Topology`, `AtomicRegistry` |
| discovery task | server.rs 422-477 | the provider streams, the diff in hand | start providers, merge streams, apply a diff, stop at shutdown | `Discovery` |
| TLS listener | tls.rs | 256 permits, a channel of 256 finished handshakes | `accept`, one task per handshake | `TlsListener` |
| discovery client | `opensovd-client/src/discovery.rs`, `client.rs` | an `Arc<OnceCell>` shared by clones | `versions`, `select` | `ClientDiscovery`, `Deployment` |
| MCP server | `opensovd-cli/mcp/src/main.rs` | none between requests | start and end, topology resource, three list tools | `McpResource` |
| entity routes | `opensovd-server/src/routes/entities/` | none; they read the topology under a guard | root, lists, capabilities, relations | `EntityRoutes`; the lists also in `McpResource` |
| data routes | `routes/data.rs`, `routes/error.rs` | none; they call a data provider under a read guard | list, read, write, categories, groups, tags | `Requests`, `DataResources` (filter, summaries) |
| middleware | `auth.rs`, `routes/mod.rs` | the identity in the request's extensions | authenticate, authorise, call the inner service | `Requests` |
| JWT, rego | `opensovd-extra/src/auth/` | keys; a policy engine | build, decide | `Deployment` (the decisions are constants of `Requests`) |
| data providers | `opensovd-core/src/data.rs`, `opensovd-providers/src/data/` | the resources of an entity | build, list, read, write, summaries | `DataProvider`, `DataResources` |
| server | server.rs 152-414, 498-587 | one listener, one shared shutdown future | build, mount, advertise, serve, drain | `Server`, `Deployment` |
| gateway | `opensovd-cli/gateway/src/` | configuration; a socket file | refuse, bind, build, notify readiness, serve, start again | `Deployment`, `Server` |
| typed client | `opensovd-client/src/` | base URI, timeout, service, token | GET, PUT, connect | `Requests`, `Deployment`, `EntityRoutes` |
| adapters, wire types, CLI library | see PROJECT.json | none | conversions | not modelled |

**How they interact.** `serve()` spawns one discovery task, which it never
joins, and runs one axum server on its one listener; the task and all handlers
clone the `Arc` of one `Topology`, and a shared future is the shutdown of both.
The discovery task is the only writer of a running server; an embedding program
may be another one. Every HTTP handler takes the topology's read lock and, with
TLS, arrives through the TLS listener. Whoever subscribed to the topology gets
its events through a broadcast channel. The MCP server is a client of the HTTP API
and puts one text together from three of its lists. Clones of the discovery
client share a cell that one of them fills by an HTTP request to
`/version-info`; the URI in the answer was put together by `serve()` from the
gateway's command line and its listener. A client follows the links in the
answers of the entity routes.

**What is hard.** (1) A write guard mutates the registry in place and announces
the changes only in its `Drop`, so the order of mutation, announcement and
release of the lock decides what readers and subscribers may conclude. (2) The
indexes are updated by each method on its own, and IDs come and go in any
order. (3) `select!` drops the work of the discovery task wherever it is
suspended. (4) A write-preferring queue in front of the lock lets a slow guard
hold up everybody. (5) Permits of the TLS listener move between three places
and a handshake ends in five ways. (6) Futures are dropped at any await. (7)
Receivers lag. (8) A text is assembled from requests with no common guard. (9)
A handler awaits code of the embedding program with a read guard in its hand,
while its client may give up at any time. (10) Lists, filters and summaries of
the same resources are computed by different methods and must fit together.
(11) Scheme, mount path, listener and TLS are configured apart and have to
make one URI under which the routes are found, also across restarts. (12) A
page links what another handler has to find later.

**What makes each part correct.**

- *Registry*: the two sides of a relation agree (`HostsComplete`, `HostsSound`,
  `ContainsSound`, `ContainsComplete`); no method loses a membership by the way
  (`MembershipKept`).
- *Topology*: what a reader sees was announced and the reverse
  (`ReadersSeeAnnounced`); a subscriber ends up with the right entities
  (`MirrorConverges`); batches and reads are atomic (`ReadsAreAtomic`); waiting
  tasks are served (`LockServed`).
- *Discovery*: diffs are all or nothing (`DiffsAreAtomic`), the lock is never
  left behind (`EndsWithoutLock`), diffs are applied (`DiffIsApplied`), the task
  stops (`ShutdownEnds`).
- *Server*: a socket exists before readiness is told (`ServerTypeOK`), requests
  are handled only as configured and none is cut off (`ServesAsConfigured`), and
  a shutdown ends in `serve()` returning (`ServeReturns`).
- *TLS*: permits are conserved and return, finished handshakes are neither lost
  nor doubled, the backlog drains as long as accepting does not fail for ever.
- *Discovery client*: one fetch, one answer (`OneAnswer`, `FetchesOnce`), no
  caller stuck (`WaiterEnds`).
- *Deployment*: the client that `select` returns reaches the API it was told of
  (`SelectedReaches`).
- *Entity routes*: a link ends in "not found" only if its entity, or the data
  provider of it, is gone (`NotFoundMeansGone`); the two sides of "hosts" agree
  under a filter (`HostListsItsApps`).
- *MCP*: each list is one version of the registry (`ListsAreReal`). That the
  text is one (`TextIsSnapshot`) is refuted.
- *Data providers*: summaries name what lists find (`SummariesMatchLists`),
  filters compose (`FiltersCompose`), flags say what adapters do
  (`FlagsTruthful`). That filtered groups are a filter of the groups
  (`GroupsFilterAgrees`) is refuted.
- *Requests*: a refusal tells nothing and leaves nothing
  (`RefusedLearnNothing`), an entity stays while its provider works
  (`ServedEntityStays`), writers are served in spite of providers that hang
  (`WritersServed`).

## 2. The modules

    TopologyState <-- Topology <-- Discovery <-- McpResource      TlsListener
          ^              |  \          ^
          |              |   \         +-------- Server           ClientDiscovery
          |              |    \                                        ^
     EntityRoutes        |     +-- Requests --> DataResources          |
                         |                           ^             Deployment
                         +-- AtomicRegistry          |
                             (refined)          DataProvider

    DataResources --> Picking <-- SequenceLemmas <-- TopologyProofs <-- RequestsProofs
                                    ^        ^          ^       ^
                     DataProviderProofs      |          |       +-- DiscoveryProofs
                                    DeploymentProofs    |
                                                        +-- EntityRoutesProofs
    SequenceLemmas <-- TlsListenerProofs

An arrow points to what a module EXTENDS. Each `MC...` module fixes the
constants of the module it is named after. Mutated forms of some actions stand
before the action they are a mutation of; no specification uses them, they serve
to check that each property can fail.

**TopologyState.** The variables are the six fields of the struct, one action
per `insert_*` and `remove_*`. A map is a total function with `Absent` for a
missing key; an entity is its links. A missing index entry and an empty one are
the same value: the code removes an entry that becomes empty and no query can
tell. The links an ID may be announced with are the constants `ComponentLinks`
and `AppLinks`: whether an ID can be announced again with other links decides
what the indexes promise.

**Topology.** `mode` and `queue` are the lock: tokio's `RwLock` serves waiters
in order of arrival, so a waiting writer holds back later readers. `pending`
is the guard's batch. `Drop` is three steps: it begins, sends one event per
step, and then, as the fields are dropped after the body, releases the lock. A
writer may drop its guard at any point of a batch, which also covers a writer
whose future is dropped. `inbox` and `lagged` are the broadcast channel as one
receiver sees it. `mirror` and `synced` are a subscriber that the
documentation of `subscribe` invites: it subscribes, copies the entities under
a read guard, applies what it receives, and starts over when told that it
lagged. `announced` and `committed` are history variables.

**AtomicRegistry.** What the topology promises with no mention of locks: a
batch is one step, a reader sees one version throughout, and the announcements
account for each version. `Topology!Atomic` is the refinement mapping: the
abstract registry is `committed`, what a reader sees is the actual registry.

**Discovery.** `run_discovery` line by line; a diff is applied entity by entity
through the write guard's actions of `Topology`. The shutdown may win wherever
the code awaits: for the next item or for the lock. It cannot between the
grant and the drop of the guard, where the code does not await; that there is
none is what `DiffsAreAtomic` rests on. `expected` is a history variable that
applies whole diffs in one step.

**Server.** The gateway's `serve` up to the notification of readiness, then
`Server::serve`: the task is spawned (`Spawn` of `Discovery`), the last checks
may fail, axum serves, drains after the shutdown, and returns. Handlers are the
readers of `Topology`; one begins only while the server serves. The shared
shutdown completes only when somebody polls it: axum, or the `select!` of the
task. The listener was bound by the gateway before, which is why readiness may
be told early.

**TlsListener.** `accept()` is a loop state plus one action per outcome of a
branch of `select!`; a connection's stage says which task owns it. What
`inner.accept()` takes is the head of the `backlog`; an error may take it too, or
leave everything as it was and come back. The permit is held in
the stages `handshake` and `sending`. `SendDone` puts the stream into the
channel and ends the task; `Shutdown` is axum dropping the listener.

**ClientDiscovery.** `get_or_try_init` as the cell, the queue for its single
permit, and the fetch; every await may be dropped; the server may answer every
request differently; re-typing the vendor metadata may fail for one caller.
`ServerReplies` is the environment here; `Deployment` takes it over.

**Deployment.** A gateway that is started with a command line, refuses it, or
binds and serves; ends at any point; and is started again with the same command
line or another one. Operators decide what the functions of `main.rs`,
`cli.rs`, `cors.rs`, `jwt.rs` and `rego.rs` decide: which command lines are
refused, and where; what the builder of the server ends up with; the mount path
and the routes; the URI that `/version-info` advertises; what a connector
reaches; the status the middleware gives. `Bind` may fail for every kind of
socket, and does for a path that exists; the file outlives the process until
somebody removes it. `VersionInfoAnswered` lets
`ServerReplies` happen only if the request gets through all that, with the
advertised URI as its body; `CallerStep` is everything else the clones do. The
scheme and the path of a URI are kept, as sequences of segments whose last one
is empty after a final slash, because that slash is what two of the joins
disagree about.

**EntityRoutes.** One operator per handler: its status, and the links of the
page, over the registry as it is. `Answer` is the router. The state is a client
that has one page and follows one of its links (`Browse`) while the registry
takes any of its six mutations (`RegistryChanges`); that one request is one
step is the refinement `ReadsAreAtomic` of `Topology`. The data provider belongs
to the entity as it was inserted last: every insert overwrites it, with another
one or with none (`withData`). `gone` is a history variable.

**McpResource.** The service from its start to its end; a read of a resource,
which is three joined list requests or an unknown URI, or a call of one of the
tools, which is one; each request with its handler on the server, on top of the
discovery task that changes the topology meanwhile.

**DataResources.** No state: a provider is the sequence of its resources, in
the order of the `IndexMap`; the adapters are the ways a read or a write is
refused before the resource is reached; `DataFilter` is `data_filter`; the
summaries share `FirstBy`, the `seen.insert` of the code. The builder's
summaries and the trait's default ones compute the same from the list of all
resources. What a `filter` of the code leaves of a list is `Picked` of the
module `Picking`, a recursive function over the places where the predicate
holds.

**DataProvider.** The builder as a chain of calls: three ways to register a
resource, three options that go to the resource registered last, and `build`,
which uses the builder up and fails on an ID registered twice.

**Requests.** Each reader of `Topology` is a request: authenticated, authorised,
its query or body extracted, its handler waiting for the lock, its data provider
awaited under the read guard, answered. `Authenticate` and `Authorize` are the
two middleware services; what they decide are the constants `Identity` and
`Permitted`. `ResourceTakes` is apart from `ProviderAnswers`, so that a client
may give up between the two, and `ProviderFails` may come after it. `DropFuture`
is hyper dropping the handler of a client that is gone, at any await. A call is
a list of data, a summary, or a read or write of one resource, of a component or
an app; the two differ in the map they look into only, which `Present` covers.
All of them await the provider, which may answer, fail or hang; what a list or a
summary contains is the subject of `DataProvider`. A query or body that does not
parse is refused by its extractor, with the codes of `Rejections`. Each ID is
announced with the same provider every time, unlike in `EntityRoutes`. `touched`
is a history variable.

## 3. The runs

| run | instance | shows |
|---|---|---|
| registry_free | `EntityRoutes`: 2 components, 1 area, 1 app, any links, 4 queries | `TypeOK`, `HostsComplete`, `MembershipKept`, `HostListsItsApps`, `NotFoundMeansGone`, whatever is announced again, with or without a data provider |
| registry_moved_app | 2 components, 2 areas, 1 app, any links | **violated**: `HostsSound`; an app announced again on another component stays listed by the first |
| registry_area_again | the same, fixed links | **violated**: `ContainsComplete`; an area that is removed and added again is empty although its members name it |
| topology | 1 component, 1 app, 1 area, fixed links, 2 writers, 1 reader, batches of 2, channel of 2 | `TopologyTypeOK`, `ReadersSeeAnnounced`, `MirrorConverges`, `IndexesSound`, and the refinement `ReadsAreAtomic` |
| server | 2 providers, 4 diffs, 3 items, 2 handlers, each listener with and without TLS | the safety and liveness properties of the discovery task and of the server, and `LockServed` |
| tls | 4 connections, 2 permits | all properties of the listener |
| client_discovery | `Deployment`: 2 clones, 5 ways to build the client, 17 command lines | the properties of the cell, `SelectedReaches` |
| mcp_resource | 3 requests, 2 diffs, 2 items | `ListsAreReal` |
| mcp_snapshot | the same | **violated**: `TextIsSnapshot` |
| data_provider | 2 IDs, 2 categories, 2 groups, 1 tag, up to 2 resources | `ProviderTypeOK`, `SummariesMatchLists`, `FiltersCompose`, `FlagsTruthful` for every chain of calls |
| data_groups | the same | **violated**: `GroupsFilterAgrees`; a group of two categories is listed with the first only |
| requests | 2 requests out of 9 calls, 1 writer, a component with three resources, an app without | the safety properties of requests, and `WritersServed` |

**Findings.** The violated properties quote the documentation; see "findings"
in PROJECT.json. (a) `insert_component` and `insert_app` overwrite an entry
without taking the ID out of the index of the links it had. (b) `remove_area`
forgets the members of the area while they keep their `area_id`, so the two
directions of the relation disagree once the area is back. (c) the MCP
"snapshot" is three requests. (d) `groups` drops a group that occurred before
even if it now occurs in another category, so that asking for the groups of
that category finds one the complete list does not have.

**Bounds, and why they are enough.** Two components and two areas are what a
move needs, and the methods treat all IDs alike. A batch of two events is the
shortest with an intermediate state; with a channel of two, one full batch and
one more event make a receiver lag. Two writers are the fewest that make two
batches meet in the queue. Diffs of up to three removals and three additions
visit every loop of the task and the orders remove-add and add-remove across
diffs. With four connections over two permits, connections are refused, the
channel fills, a task waits in `send()`, and one more waits in the backlog. Two
resources are what it takes to share, or to differ in, an ID, a category, a
group; their summaries treat all names alike. Two requests meet in the queue
with a writer between them; the nine calls end in each status a handler or a
layer can give. Two clones give a fetch and a waiter, and the cell treats
further waiters as it does the first. The command lines differ from the default
in one decision each, since no two decisions of `main.rs` but the ones about
listener and TLS depend on each other; those pairs are among them. A client that
browses needs two components, one app and one area for an app that moves between
hosts and loses one; the run takes the two components, which have the same tags
and links, as interchangeable (`SYMMETRY`, sound there because no liveness is
checked). `MaxBatch`, `MaxItems` and `MaxResources` are the only bounds without
a counterpart in the code: `Capacity` and `MaxPendingHandshakes` are its
constants, made small.

`IndexesSound` in the run `topology` needs links that do not change, as its
theorem does. In `SelectedReaches`, `WellDeployed` excludes two command lines
under which the advertised URI is of no use: a scheme "https" without TLS of the
gateway's own, meant for a proxy that the model does not have, and a mount path
that ends in a slash. Of `/sovd/` the routes are below `/sovd/v1`,
for axum's `nest` joins two halves with one slash, while `/version-info`
advertises `/sovd//v1`. No document says that such a path is allowed.

**Deadlock** is checked in all runs but `tls`, where the listener really stops
after a shutdown, `server`, where the program ends, and those of `DataProvider`,
where `build` ends the chain of calls.

**Fairness.** Liveness is checked under weak fairness of the steps that tokio
owes: a task that is ready is polled, the head of the lock's queue is served, a
guard that was obtained is dropped. Handlers hold a guard for a bounded time
only if the data provider they call answers: `Discovery` assumes it, the code
does not enforce it. `Requests` does not assume it: there a provider may hang,
and `WritersServed` rests on the timeouts of the clients instead, and on hyper
noticing that a client is gone. The timeout of the Rust client is `None` unless
it is set (client.rs 63), so that the assumption is one about deployments; a
single client without a timeout and a provider that hangs stop discovery for
good. `discover()` is assumed to return; nothing in the code bounds it either.
No stream is assumed to yield or end, no waiter to wait on, no client to finish
a handshake: that one ends by its timeout (`HandshakeFails`). `select!` polls
its branches in random order, so a branch that is ready again and again is
taken: strong fairness of `ReturnDone`, and of `TcpBranch` as a whole while the
backlog is not empty. Which outcome that branch has, a connection or an error,
nothing decides: `BacklogDrains` says that every connection leaves the backlog
unless, from some time on, errors are all that `accept()` returns
(`AcceptFailsForEver`). `send()` serves its waiters in order, which gives
`SendDone` strong fairness. A fetch of the client ends by its timeout: without
one, a server that never answers would keep the waiters for ever.

## 4. The proofs

TLAPS proves the following for every value of the constants: sets of IDs, links,
readers and writers, bounds on batches, channel capacities, connections and
permits, callers and bodies, command lines, calls, policies and providers.
The assumptions are the named ones of the modules: `NullsAssumption` and
`LinksAssumption` (the null values are not IDs; links name IDs),
`TasksAssumption` and `BoundsAssumption` (a task is a reader or a writer; the
channel holds at least one event), `PermitsAssumption` (at least one permit),
`UnsetAssumption` (null values are not bodies), `ArgsAssumption` and
`BodiesAssumption` (the command lines are command lines, and `Bodies` has the
URIs they advertise), `FilterAssumption` and `ListsAssumption` (null values are
not names; the builder is given lists of names), `CallsAssumption`,
`ProvidersAssumption` and `TimeoutsAssumption` (a call is one of the requests there
are; a provider is a sequence of resources; who has a timeout is a request),
`TaskAssumption` (the discovery task is one of the writers), `ItemsAssumption`
and `DiffsAssumption` (diffs are sequences of links that IDs may have).

Every invariant and every action property that a passing run checks is the
subject of a theorem; for three of the four refuted properties another one says
under which condition it does hold (`StableLinksSound`, `KeptAreasComplete`,
`GroupsAgreeUnlessShared`). Where a result is about what a recursive function computes
for every length, the induction is one over a set: `SetInduction` of
`SequenceLemmas` says that a set with 0 and with the successor of each of its
elements has all natural numbers, which follows from the well-foundedness of
`<` (`LeastNumber`), and a proof defines the set of lengths for which its claim
is true.

`SequenceLemmas` has what the other modules need to know of sequences:
`PickedElements`, `PickedOnce` and `NothingPicked` (what is picked, from which
places, and when it is nothing), `FlattenElements` (the elements of a sequence
of sequences), and `AppendQueue`, `TailQueue` and `RemoveFirstQueue` (a queue in
which nothing waits twice).

`TopologyProofs` is about the registry first.

- `StateTypeCorrect`: `TypeOK`.
- `HostsCompleteHolds`: a present app is in the index of its host. It is
  inductive together with `TypeOK`, and needs no assumption about links.
- `StableLinksSound`: `HostsSound` and `ContainsSound` if no ID changes its
  links (`StableLinks`). They are not inductive: an insert enters the links it
  is given, so `IndexInv` adds that every present entity and every index entry
  carries one of the links its ID may have (`LinksAnnounced`). The run
  registry_moved_app shows that the assumption is needed.
- `MembershipKeptHolds`: the action property `MembershipKept`.
- `KeptAreasComplete`: an area that is never removed lists all its members, so
  that `remove_area` is the only way to what the run registry_area_again finds.
  The inductive `MembersIndexed` does not ask whether the area is there, for the
  members may be announced before it.

The rest of it is about the topology with its lock, guards and channel.

- `TopologyTypeCorrect`: `TopologyTypeOK`, with the bounds of batches and
  inboxes.
- `LockExcludes`: one writer, or readers, or nobody. `LockMoves` first reduces
  a step to the six things it may do to `mode`.
- `TopologyIsRegistry`: `Spec` implies the specification of the registry, so
  that its theorems carry over; `TopologyLinksSound` is `StableLinksSound` for
  the topology.
- `ReadersSeeAnnouncedHolds`. The invariant has to say what is still to be
  announced in the middle of a batch or of a drop. `Unsent` is the rest of the
  batch of whoever holds the write lock, and `EventsInv` says that it turns
  `announced` into `Present`. What a sequence of events makes of a set is a
  fold; to keep induction out of the proofs, `Yields` says it without recursion:
  the last event on an entity decides about it, and an entity without an event
  stays as it was. That form can be extended by one event at its end
  (`YieldsAppend`, a mutation) and shortened by one at its front (`YieldsTail`,
  a send or a receive). `StepMoves` sorts the steps into the four kinds that
  matter to it: mutations, sends, receivers' steps, and steps of the lock.
- `MirrorConvergesHolds`. `MirrorsInv` says that the inbox followed by `Unsent`
  turns a valid mirror into `Present`, and that also for a mirror that is not
  valid the last event on each entity agrees with the registry (`Agrees`). The
  second part makes the copy sound: events the receiver already held when it
  copied are applied on top of a newer set, and do no harm because what they
  end in is what is there.
- `TopologyRefinesAtomic`: the refinement `ReadsAreAtomic`. `Unlock` is the
  abstract `Commit`, a granted read and a dropped read guard are `BeginRead` and
  `EndRead`, every other step stutters. `RefinementInv` gives what the mapping
  needs: a reader reads what is committed, and what is committed is announced.

`TlsListenerProofs` is about the TLS listener.

- `TlsTypeCorrect`, `PermitsConservedHolds`, `DoneExactHolds`. The three need
  each other (`TlsInv`): that a permit is there to give back follows from the
  conservation, and that what leaves the backlog or the channel is a connection
  without a permit follows from both being exact (`QueueExact`). There may be
  infinitely many connections; that those with a permit are finitely many is
  part of the invariant, and `PermitsMove` says what a step of one connection
  does to them.

`DeploymentProofs` is about the clones of a discovery client, and about a
gateway that is started again and again.

- `OneAnswerHolds`, `FetchesOnceHolds`, by `ClientInv`: no result is a body that
  is not in the cell, at most one caller fetches, and only while the cell is
  empty.
- `ClientTypeCorrect`: `ClientTypeOK`, by `WaitersInv`: exactly the callers that
  wait are in the queue of the permit, each once. Without "once", a cancelled
  caller could be taken out of the queue and still stand in it.
- `DeploymentImplementsClient`: a deployment implements `ClientDiscovery`, with
  its gateway as one of the servers that answer as they like.
- `SelectedReachesHolds`, in three parts. `AdvertisedIsRouted`: the path that
  `format!` puts together, joined by the client, is one that `nest()` put
  together. `AdvertisedConnects`: a connector that reached `/version-info`
  reaches the advertised scheme. `KnownEverywhere`: whoever was authenticated
  for one path is for every path.

`RequestsProofs` is about requests, and rests on `TopologyProofs`.

- `RequestsImplementTopology`: `RequestsSpec` implies the specification of the
  topology, whose theorems therefore hold while requests are served.
- `RequestsTypeCorrect`: `RequestsTypeOK`.
- `RefusedLearnNothingHolds`. `RequestOK` says what is true of a request at
  each point of its way, and `OthersUntouched` that no request disturbs
  another's. It needs to know that a request whose wait is cancelled leaves the
  queue, hence `QueueInv` of `TopologyProofs`: who stands in the queue waits,
  and stands there once.
- `ServedEntityStaysHolds`: by `LockExcludes` nobody mutates the registry while
  a handler with a read guard awaits its provider.

`DiscoveryProofs` is about the discovery task, and rests on `TopologyProofs`.

- `DiscoveryImplementsTopology`: the task and the handlers are tasks of the
  topology.
- `EndsWithoutLockHolds`, by `TaskInv`: what the task does with the lock at each
  point of the loop.
- `DiffsAreAtomicHolds`. The history variable `expected` takes a diff at once,
  the task applies it entity by entity; `DiffInv` says that what is left of the
  diff still turns the registry into `expected`. One lemma for each loop of the
  task (`OutcomeOfRemove`, `OutcomeOfComponent`, ...) says that applying the
  first entry leaves the outcome of the rest the same, which for the removals
  needs that all of them precede the additions.

It goes on with the discovery task together with the server it belongs to, and
with the MCP server in front of it.

- `ServerImplementsDiscovery`: `serve()` starts the task and stops it, and no
  more.
- `ServerTypeCorrect` and `ServesAsConfiguredHolds`, by `BootInv`. That a server
  which is not serving yet has no request needs `QueueInv`: nobody obtains a
  guard who does not stand in the queue.
- `ListsAreRealHolds`, by `McpInv`: the versions since
  a read began include the one that is there, and each finished list is a slice
  of one of them.

`DataProviderProofs` is about the builder of data providers and about what the
provider it builds lists and summarises.

- `ProviderTypeCorrect`, `FlagsTruthfulHolds`, by `ProviderInv`: flags and
  adapter of every resource registered so far agree (`FlagsAgree`), which no
  option changes, and no ID is in a built provider twice (`UniqueIds`).
- `FiltersComposeHolds`. `FoundElements` says which resources are in a filtered
  list, for each of the three scopes.
- `SummariesMatchListsHolds`. `FirstByCounts` says that `seen.insert` keeps each
  key that occurs exactly once, `GroupPairsElements` which pairs the groups of
  all resources make.
- `GroupsAgreeUnlessShared`: `GroupsFilterAgrees` for providers without a group of
  two categories, which are therefore the only cause of what the run data_groups
  finds.

`EntityRoutesProofs` is about the entity routes, and rests on
`TopologyProofs`.

- `HostListsItsAppsHolds` follows from `HostsCompleteHolds`, since requests leave
  the registry alone (`BrowserLeavesRegistry`).
- `NotFoundMeansGoneHolds`, by `DataInv` (what has a provider is present) and
  `LinkInv`: every link of the client's page is to a collection, or lies below a
  resource, an entity or its data, that is there or in `gone`, or is the host of
  an app. `EntityLinks` says that no handler links anything else, and
  `PresentAnswers` that what lies below a resource that is there is found. No
  assumption about the indexes is needed, because no handler links what an index
  says of an entity without looking the entity up.

Model-checked only: everything about liveness (`LockServed`, `DiffIsApplied`,
`ShutdownEnds`, `ServeReturns`, `WritersServed`, `WaiterEnds`, and the three of
the TLS listener), because it needs `ENABLED`, which is beyond the prover. The
refuted properties have counterexamples, no proof.

## 5. Not modelled

Names, schemas, JSON, translation IDs of entities and insertion order; the
encoding of IDs in paths and of query strings. Whether a signature, a
certificate, a policy or a header value is good, which libraries decide: their
verdicts are constants or part of a command line. The headers of CORS, the files
that the gateway serves, and the entities of its mock topology. User layers, and
the services nested beside the routes. Signals that arrive before anybody polls
the shutdown, which kill the process. The maximal number of readers of tokio's
lock. Adapters between library types (connect info, bodies), the table of units,
logging, the prompts of the MCP server, examples, mocks and tests. The internals
of tokio, hyper, axum and rustls: their promises are the actions marked external
in PROJECT.json.

A provider that changes under one ID is in `EntityRoutes`, not in `Requests`; a
provider that fails or hangs is in `Requests`, not in `EntityRoutes`, where a list
of data is one step.

Some hazards are modelled and have no property because nothing says what should
happen: a provider whose `discover()` never returns keeps the other providers
waiting; a `serve()` that fails leaves its discovery task running; the file of a
Unix socket, left behind, keeps the same command line from starting again; an
error, or a timeout, of a PUT does not tell whether the value was taken. See
"hazards" in PROJECT.json for these and the others.

## 6. Plan

Done: the registry, the topology with its refinement and proofs, discovery, the
server and the gateway, TLS, the discovery client and the deployment it is part
of, the entity routes, the MCP server, data providers, requests.

1. `Server` composed with `TlsListener`: connections that reach the handlers
   through handshakes, and the drop of the listener by the shutdown.
2. Proofs, if item 1 is done: that the composed server implements `Server` and
   `TlsListener`, so that their theorems carry over to it.
