# A verification development for go-hamqtt

TLA+ models of go-hamqtt, the library that publishes Home Assistant discovery
over MQTT, the TLC instances that check them, and proofs of the results that
matter for every instance. Paths below are relative to the repository;
`publisher.go` without a directory means `publisher/publisher.go`.

## 1. Inventory

The library is a set of pure layers (describe a device, lay out its topics,
render a document, validate it) under one stateful package, `publisher`, which
owns everything that is concurrent, retained or retried. Each stateful type has
a mutex of its own, calls the transport with that mutex released, and keeps
memos of what the broker is believed to retain. The believed state and the
broker's drift apart through failed and half-failed calls, reconnects, restarts
and sibling goroutines, and that drift is what this development is about.

| Component | State | Operations | Talks to |
| --- | --- | --- | --- |
| `Runtime`, discovery (`publisher.go`) | `declared` (payload, gated), `announced`, `superseded`, `claimed`, `kept`/`keptCount`, `observed`, `epoch`, `gen`, under `mu` | `Publish`, `PublishBundle`, `PublishComponent`, `Retract`, `Republish`, `Reset`, `checkGeneration` | transport; containment's verdict; the sweep |
| Sweep and snapshot window (`sweep.go`) | `sweepMu`, the slot; a window's lists | `Sweep` (scoped, `SelfClaimed`, `ReportOnly`), `snapshot`, `acquireSweepSlot` | transport (subscribe); `claims` |
| Birth watch, announce, level (`birth.go`) | `connected`; `dispatcher`: pending job, running, closed | `WatchBirth`, `SetConnected`, `AnnounceOnline/Offline`, `Close` | read loop; `Republish` |
| `CommandRouter`, pool (`command.go`, `command_pool.go`) | routes, subscriptions, life-cycle lock, in-flight count; a queue per worker | `Handle`, `Start`, `Resubscribe`, `Stop`, `WaitIdle`, `deliver` | transport (subscribe); handlers |
| `StatePublisher`, status (`state.go`, `status.go`) | last accepted payload per topic, evictions; last change `lc` | `Publish`, `PublishStatus`, `Evict`, `Republish`, `Reset` | transport |
| `AvailabilityPublisher` (`availability.go`) | `last`: accepted marker per topic | online/offline writes, `Retract`, `Republish`, `Sweep`, `Reset` | transport; the slot |
| Instance, statistics, supervision (`instance.go`, `stats.go`, `supervised.go`) | log level, sample of process counters | `info`, `meta`, maintenance commands | command router |
| Config topics (`topic.go`) | none | render and parse the three topic forms, superseded and legacy topics | discovery plane |
| Set payloads, QoS (`set.go`, `qos.go`) | none | parse, round, clamp; resolve a QoS | command router, every writer |
| go-mqtt adapter (`publisher/gomqtt`) | none | `Publish`, `Subscribe`, options | the MQTT client |
| Containment and validation (`discovery/contain.go`, `inspect.go`, `validate.go`, `availability_check.go`) | none | which components and keys Home Assistant would refuse | `PublishBundle` through `Config.Contain` |
| Bundles and removal (`discovery/bundle.go`) | components by key, what was published before | build, `KeepSet`, `RemoveComponents` | containment; `PublishBundle` |
| Contexts (`discovery/context.go`) | none | slots, levels and modes a config declares of availability | model, topic; must agree with `AvailabilityPublisher` |
| Rendering and naming (`discovery/render*.go`, ...) | none | render a component, translate, name | model, topic |
| Topic layouts (`topic/`) | none | names of every topic written or subscribed to | every writer |
| Model, payload, catalog | none | data types, conversions, lookups | everything above |
| Tools (`cmd/hacheck`, `cmd/hadoctor`, `internal/dump`, `script/genfields`) | none | read-only diagnostics, a code generator | dumps of a broker |

**Interactions.** Callers' goroutines enter `Runtime` methods concurrently; the
client's read loop calls the handlers of windows, of the birth topic and of
command routes; a birth starts a replay on the dispatcher's worker; a window and
an observing bundle share `sweepMu`; a new connection shows only as a changed
`ConnectionGeneration`, which each method looks at on entry; the broker's
retained tree is shared with every sibling process and every earlier build.

**Hard behaviours and what makes each component correct.**

- *Discovery plane.* Home Assistant refuses an entity described both by a
  document and by a config of its own, so the other form has to be retracted
  before a document is written, once, across restarts, lost connections and
  failures. The dedup gate must never suppress a write the broker lacks. A
  component withheld by containment must not lose its old config to a sweep.
- *Sweep.* It deletes, on another process's namespace if it is wrong. It must
  touch only what it owns, spare what somebody claims, overlook no orphan, and
  always give the slot back.
- *Birth watch.* A replay must follow every birth without running on the read
  loop; close must drain; the retained level must end as the level remembered.
- *Command router.* An accepted command runs exactly once, in order for its
  topic, never after `Stop` returned; `Start` and `Stop` may fail half way.
- *State, status, availability.* The gate, as above; `lc` never runs backwards;
  a failed `offline` stays on the lists that repair it.
- *Topics, sets, containment.* Pure rules whose exceptions (ambiguous topics,
  legacy forms, rounding at a limit) decide what the stateful parts delete or run.

The `hazards` of `PROJECT.json` name each of these at the line where it bites.

## 2. Modules

| Module | What it is |
| --- | --- |
| `DiscoveryRuntime` | The discovery plane and the sweep: `publisher.go`, `sweep.go`, over a faulty transport and a broker. The properties. |
| `ConfigTree` | The abstract specification: what may happen to a tree of retained configs. |
| `DiscoveryInvariant` | The two regimes the theorems assume, the inductive invariants `IInv` and `GateInv`, the refinement mapping. |
| `MCDiscovery`, `MCOneForm` | Instances for TLC; `MCOneForm` adds the assumption that the instance is in the regime. |
| `DiscoveryProofs` | Facts about the operators, frame lemmas, one lemma per action, and seven theorems. |
| `TopicFilter` | Pure: what a filter matches, when two overlap, which is the narrower (`command.go`). |
| `FilterProofs`, `MCFilterProofs` | The overlap test and the ranking, for filters of any depth; and that the properties of `MCFilters` hold at any depth, that of two instances on one broker included. |
| `CommandRouter` | Routes, subscriptions, the pool and its workers (`command.go`, `command_pool.go`), over a broker that refuses and vanishes. Extends `TopicFilter`. |
| `CommandProperties` | The router's properties and its fairness. |
| `CommandProofs` | Its types and inductive invariant, and six theorems. Extends `FilterProofs`. |
| `RetainedBroker` | What the four planes below publish through: a transport that answers, refuses or gives up, one connection in order, the broker's retained tree. External. |
| `StateGate` | `StatePublisher` (`state.go`, `status.go`): gate, value memory, index. Extends `RetainedBroker`. |
| `StateProofs` | The state plane's two inductive invariants, proved, and where a topic settles once the broker has read what is on the wire. |
| `TopicLayout` | Pure: coordinates, layouts, the topics they name (`topic/`, `model/slot.go`). |
| `AvailabilityRules` | Pure: what a config declares about availability, what is published for it, what Home Assistant reads (`context.go`, `availability.go`). Extends `TopicLayout`. |
| `AvailabilityGate` | `AvailabilityPublisher`, composed with `RetainedBroker`, the declarations and Home Assistant. |
| `AvailabilityProofs` | Its inductive invariants `AvInv` and `ToldInv`, and three theorems. |
| `Lifecycle` | One adapter's life (`birth.go`, `instance.go`): level, will, birth watch, dispatcher, maintenance commands, shutdown. Extends `RetainedBroker`. |
| `Document` | Pure: a device document, `Inspect`, `Validate`, `Contain`, `Remove`, `KeepSet` (`inspect.go`, `validate.go`, `contain.go`, `bundle.go`). |
| `ConfigTopics` | Pure: config topics rendered and parsed, superseded and withheld topics (`topic.go`). Extends `Document`. |
| `BundleCycles` | A consumer's publish cycles over the two: render, contain, tombstone, supersede, publish, remember, sweep. |
| `CycleProofs` | What inspection, containment and removal do to a document, whatever it holds; the inductive invariants `CycleInv`, `ClearInv` and `AcceptInv`; inspection and validation compared; seven theorems. |
| `MCFilters`, `MCCommands`, `MCStates`, `MCAvailability`, `MCLifecycle`, `MCCycles` | Instances for TLC. `MCFilters` compares filters, and instances' topics by `TopicLayout`. |

`PROJECT.json` maps each definition to its lines. A definition that stands for a
whole function or type is mapped from its doc comment, which is where this code
states the contract the definition follows, to its closing brace; one that
stands for a section of a function, to that section.

### How `DiscoveryRuntime` corresponds to the code

A *caller* is a goroutine inside one method; `pc` says where. What the code does
under one hold of `mu` is one action; a transport call is a `Send`, then the
broker or the socket, then an answer, because `mu` is never held across it.
`call` is the call's arguments, `todo` the topics a loop has left, `msg` the
message handed to the transport, `view` the snapshot (`held`, or a window's
deliveries), `seen` the generation read before `mu`, `mark` the epoch read by
`retainedConfigs`.

| Code | Model |
| --- | --- |
| `declared[t].payload`, `.gated` | `declared[t]` (`Empty`: absent), `t \in gated` |
| `announced`, `superseded`, `claimed`, `observed`, `observedTaken`, `epoch` | the same names |
| `kept`, `keptCount` | `kept[d]`, and `Kept`, their union: a reference count is positive exactly then |
| `gen`, `genKnown` | `gen`, `genSeen` |
| `sweepMu` | `slot` |
| `checkGeneration` | `ReadGeneration` (outside `mu`), `SyncGeneration` |
| `PublishBundle` | `KeepWithheld`, `FormGate`, `Observe`..`CloseWindow`, `SupersedeStep`, `SupersedeAnswered`, `SupersedeEnds`, then `Publish` from its own entry, generation check included |
| `PublishComponent` | `FormGate` and on, with the document as the one topic replaced |
| `Publish` | `PublishGate`, `Announce`, `PublishAnswered`, `Refused` |
| `Retract`, `Republish` | `CopyDeclared`, `WalkStep`, `RetractAnswered`, `RepublishAnswered`, `WalkEnds` |
| `Sweep` | `TakeSlot`, `Collect`, `CloseWindow`, `SweepStep`, `SweepAnswered`, `WalkEnds` |
| QoS 1 | `BrokerApplies`, then the answer, which may be lost |
| QoS 0 | `SocketTakes` (which is the answer), `BrokerReads`; a reconnect empties the socket |
| a deployment | `Crash`: the process state is new, `plan` may be another build's, `retained` stays |

`plan` fixes what each goroutine of a process life may call: the inputs. It is
state, so that a restart can change it.

### How `CommandRouter` corresponds to the code

`Start`, `Resubscribe` and `Stop` hold `lifeMu` from entry to return, so their
frame is one set of variables: `life` (the holder), `op`, `phase`, and the loop's
`todo`, `done`, `at`, `live`. Each section under `mu` is one action, each transport
call is a step of the holder, and in between anything else may happen: a
`SUBSCRIBE` is sent, granted by the broker, answered, three steps apart.

| Code | Model |
| --- | --- |
| `routes`, `attributed`, `started`, `stopped` | the same names |
| `pool`, `pool == nil` | `pool`, a number, 0 for nil; `made` counts them, so that a `WaitIdle` can hold one that is gone |
| `handle` | `Handle`: its refusals are the guard |
| `Start` | `StartGate` or `Refused`, `SubscribeSent`, `SubscribeAnswered`/`SubscribeFails`, `SubscribeEnds`; on failure `RollbackStep`, `RollbackEnds`, `CloseQueue`, `Drained` |
| `Resubscribe` | `ResubscribeGate`, then as `Start`, going on after a failure |
| `Stop` | `StopGate`, `UnsubscribeStep`, `CloseQueue`, `Drained` |
| `WaitIdle`, `flush` | `ReadPool`, `PushSentinel`, `FlushEnds` |
| `deliver`, `enqueue` | `Deliver`, one step: `mu` is held across the enqueue |
| `work`, `pop` | `Pop`, `HandlerReturns`, `Exit` |
| the broker | `Publish`, `Grant`, `Reconnect`, one copy per matching subscription |

The rest is history: `log` gives a message its number, `ran` the order handlers
started in, `missed` what met a closed gate or a lost connection. A copy is
addressed to a filter, which is what a Subscription Identifier gives the router;
the numbers themselves are left out, and so are `OnUnroutable` (a route is never
removed, so an unclaimed copy does not occur), `NormalizeSet`, the backlog's log
line and the time a broker takes. The transport is one that does not replay its
subscriptions after a reconnect, the one `Resubscribe` is for. A handler calls
back into the router first thing, or not at all.

### How `StateGate` and `AvailabilityGate` correspond to the code

Both are one shape: a call reads its gate under `mu` (`PublishBytes`,
`PublishStatus`, `Write`), is handed to the transport without it (`HandOver`),
and is recorded under it again (`Record`), or not (`CallFails`, `WriteFails`).
Everybody else runs between the three. A list of topics is a walk: `WalkStep`
sends one, `WalkAnswered` takes its answer, `WalkEnds` returns, early when the
context ended.

| Code | Model |
| --- | --- |
| `published[t].payload`, `.gated`; `last[t]` likewise | `published[t]`, `last[t]` (`Empty`: absent), `t \in gated` |
| `status[t]`: `statusMemo` | `status[t]`: `val`, `ext`, `lc`, or `None` |
| `guard` (`CommandFilters`) | `Collides`: the topic is in `Guarded` |
| `PublishStatus`'s `lc` | `ChangedAt` |
| `Evict`, `EvictPrefix`, `Republish`; `Retract`, `Sweep`, `Republish` | walks with `op` |
| `Forget`, `Reset` | one action each |
| `DeviceTopic`, `ParentTopic`, the state topic of `Self` | `TargetsIn`, tabulated per setting |
| `StdContext.Availability`, `AvailabilityFrom` | `Declared`, `DeclaredFrom` |
| Home Assistant's reading of an entry | `Rendered`, `SeenAvailable` |

`told` is history: what the last call that returned nil promised, until the next
call or connection. A *fact* is what the consumer knows (a device is reachable, a
datapoint usable), apart from the topics it is told through, so that
`HomeAssistantSees` compares two independent paths from it. The caller contract,
one goroutine at a time on a topic, is `OneWriter`.

### How `Lifecycle` corresponds to the code

`pc` places the announcers (`upstream` calls `SetConnected`; `connect` is the
on-connect handler, which announces, then watches; `shutdown` stops the router,
announces, closes) and the dispatcher's workers. `birth` is the dispatcher
(`pending`, `running`, `closed`); `enqueue` picks an idle identity for the
goroutine it starts. `loop` is the message the client's read loop is inside the
handler of: while it is, no acknowledgement is delivered (`Read` waits for it),
which is what makes a replay in the handler a deadlock. `jobs` and `handler` are
the command router reduced to what the shutdown waits for; the router has its own
module. The log level command and the info documents are left out.

### How `Document`, `ConfigTopics` and `BundleCycles` correspond to the code

A component is its typed half, its platform `Fields`, its `Extra`; `Encoded`
merges them as `MarshalJSON` does. `Inspect` is a set of findings with the scope,
severity and keys the code gives them; `Validate` a set of issues by kind. The
catalogue's tables are an input with the shapes the code reads: schemas with and
without variants, classes, units. Order of keys is `KeyOrder`, which decides who
registers an identity first. `BundleCycles` is what `contain.go` describes under
"Order", both orders of its steps 2 and 3, over `PublishBundle`; its stages are
the consumer's and the publisher's, its failures the ones `supersede` and
`Publish` return. Concurrency, gates and lost answers are `DiscoveryRuntime`'s.

### Abstractions of `DiscoveryRuntime`

- Topics and payloads are model values; `Legacy` and `Withheld` give the topics
  `SupersededTopics` and `WithheldTopics` would compute for a document.
- The order of `supersede`'s list and of a replay's sorted topics is any order.
- Containment's verdict is an input here; `BundleCycles` computes it. A document
  it refuses whole (`ErrUnpublishable`) writes nothing and has no action.
- `acquireSweepSlot`'s helper goroutine is merged with its caller: a caller that
  gives up takes no slot.
- A window delivers from the tree as it stands, one delivery per `Collect`, so
  a delivery is never stale. `LongWindow` says that a window outlasts the
  delivery of the retained configs; without it, a window may close at any time.
- The window's budget arithmetic is `SnapshotRefused`.
- A message refused by the transport is never applied later; a message applied
  may be reported as refused (`lostAck`).
- `AnnounceOnline`, the will and the birth watch are `Lifecycle`'s. A birth shows
  here as a goroutine calling `Republish`.

## 3. Runs

**The discovery instances** (`MCDiscovery`) have one device (document topic `d`),
its entities `e1` and `e2`, and a sibling instance's entity `f` under the same
prefix; two renderings of the document (`x` with both components, `y` with `e2`
withheld), two per-entity configs, two goroutines, at most one reconnect and one
explicit `Reset` per process life, and any number of restarts. Two goroutines and
one reconnect are enough for every race between two critical sections and a new
connection; the second entity separates a retraction done from one pending; the
sibling's topic is what a sweep or snapshot must not reach. `MaxWire` bounds the
QoS 0 backlog at two messages.

**The command instances** (`MCCommands`) have a general route and a narrower one
inside it, in `Commands` also one that crosses both and must be refused; two
topics, of which one is claimed by both routes; two workers; two commands; two
goroutines; two pools, so that a failed `Start` can be tried again; one
reconnect. Two commands are enough for order and duplication (both are relations
between two), two pools for a pointer that outlives its pool.

**`MCFilters`** compares filters of up to three levels with topics of up to four,
reserved, shared and malformed ones included, and names two instances under one
parent, beside or below each other.

**`MCStates`** has a datapoint's topic and one that is also a command topic, two
values, an extension that comes and goes, a clock that may run back, one writer
and one maintainer (eviction by prefix, replay, `Forget`), one reconnect with or
without the broker's store, and leftovers of another process on any topic. Two
values and two times separate "moved" from "stood still" in `val` and `lc`. Between
the three steps of a write fall `Forget` of its own topic, a reconnect, and the
eviction of the other topic; an `EvictPrefix` that reaches its own topic, and a
`Republish`, which reaches all, wait for the write to end (`Free`, the contract of
one writer per topic).

**`MCAvailability`** has a battery pack under an inverter: an entity that declares
bridge, parent and self, one that declares bridge and parent, one that declares
self alone, one that declares nothing (which is bridge and device), in three
settings: the default layout with envelopes, a layout with availability per channel
and status objects, mqtt-smarthome with raw values. Every level, resolver and
encoding that `context.go` distinguishes occurs.

**`MCLifecycle`** has two boots of Home Assistant, three process lives, one command
published (and retained, so that every subscription replays it), one level moved,
one reconnect per run, two worker identities, one config: one restart asked for
and two taken would be one too many, a boot can fall before, into or after the gap,
and a second worker shows if two ever run.

**`MCCycles`** has two entities migrated from per-entity configs and a third
component rendered in each of some fifty ways, at least one per rule of `Inspect`
and `Validate` and per side of it; four settings that differ in stripping, legacy
forms (each of the three), prefix (default, with a trailing slash, plain) and
whether the device is identified; one change of the catalogue, which may be a
component leaving, arriving or rendered anew, in a fleet whose cycles may fail at
any step. A change after a change repeats a cycle from a remembered set like the
one Init starts from.

| Run | Checks | Shows |
| --- | --- | --- |
| `OneForm` | `IInv`, `NoFormConflict`, `OneWindow`, `ImplementsTree` | In the regime of the theorems, with `SupersedeObserved`, `e1` outside the prefix a snapshot covers, every fault but lost sockets: the forms never meet, windows never overlap, the runtime implements `ConfigTree`. |
| `Gate` | `GateSound`, `WindowMissesNoOrphan` | Every method in any order from one goroutine, or two writers: the gate describes the broker; a window overlooks no orphan. |
| `AtMostOnce` | `GateSound`, `GatedDocsStandAlone`, `KeptSurvive` | QoS 0 with sockets lost between calls and a store that may be lost with them. |
| `Returns` | `CallsReturn` | Under fairness, every call returns, whatever window is refused, cancelled or contended. |
| `Filters` | `OverlapIsExact`, `WinnerIsNarrower`, `RankingIsAnOrder`, `InstancesKeepApart` | The filter algebra agrees with matching by enumeration; instances of one family do not write each other's topics. |
| `Commands` | `TypeOK`, `OneOwner`, `CommandsInOrder`, `StopDrains`, `NoLiveRouteUnlessClosed`, `OwnerServed`, `WaitIdleIsABarrier` | Exactly one handler per command and in order; an exact boundary at `Stop` and at a failed `Start`; nothing swallowed on one connection. |
| `CommandsReturn` | `AcceptedRuns`, `CallsReturn` | With every refusal, lost answers, a reconnect and a retained command: what was accepted runs, what was called returns. |
| `States` | `IInv`, `AcceptedIsRetained`, `NothingLeftBehind`, `LcStandsStill` | The state gate's three maps agree; a call that returned nil, suppressed or sent, is true of the broker; nothing retained is out of the index; `lc` moves only with `val`, seen from the broker. |
| `Availability` | `HomeAssistantSees`, `NothingLeftBehind`, `ReportedIsGone` | Home Assistant shows an entity available exactly when the flips of all its levels say so; a sweep that failed half way does not report what stands. |
| `Lifecycle` | `OneWorker`, `LevelShown`, `RestartsWereAsked`, `BootReplayed`, `ShutdownEnds` | No birth lost and none run twice; the retained level honest over wills and reconnects; no restart loop; no deadlock between replay, read loop, handler and shutdown. |
| `Cycles` | `NoDeclaredEntityDeleted`, `GoneLeaves`, `LeftoversParse`, `ContainedIsAccepted`, `VerdictsAgree` | Containment and removal composed over cycles: withheld is not removed, removed does not come back, contained is accepted, and over a document on common ground inspection and validation differ only where the code says so. |
| `SwapOrder` | `ContainedIsAccepted` | violated, see below |

What a passing run leaves out is stated in its `.cfg` and in the plans of
`MCDiscovery`: `Gate` gives each topic one writer and keeps the broker's store;
`AtMostOnce` loses connections between calls only and refuses no call; `OneForm`
gives each process life one form; `Commands` lets the broker refuse what `Start`,
its rollback and `Stop` ask; `States` and `Availability` have one writer per topic,
lose connections between calls, and claim nothing of a topic whose last answer was
lost (`unheard`) until a call there is accepted again; in `Lifecycle`
announcements do not overlap, the transport answers every publish, `OnResync`
does not call `Close`, and the on-connect handler watches no more once the
shutdown began. Below are the promises that fail where a condition is dropped.
`OwnerServed` is claimed for one connection (the comment it comes from says so),
for commands published while the pool that reads them is the router's, and not
while a failed `Start` is rolled back: what a rolled-back `Start` left on its way
may meet the next one before its owner is subscribed again, which takes three
routes inside each other.

Deadlock is checked except in `Lifecycle` (an adapter that exited unsupervised, or
used its lives up, is done) and in `Cycles` and `SwapOrder` (a published device
that changes no more is done).

**Fairness.** In `Returns`, weak fairness of `Step`: goroutines are scheduled,
timers fire, a transport call ends by its own deadline. Strong fairness of
`TakeSlot`: `sync.Mutex` hands itself to a starved waiter. Weak fairness of
`BrokerReads`. Nothing is assumed of `Begin`, `Collect`, faults or
cancellation. In `CommandsReturn`, weak fairness of the holder's steps and of
`Grant` (a transport call ends by its context), of each worker and of each
`WaitIdle`, strong fairness of `Acquire` (`lifeMu` again); a handler returns, as
`CommandHandler` asks. Nothing is assumed of deliveries or of the consumer. In
`Lifecycle`, weak fairness of the goroutines (announcers, dispatcher, router
worker, shutdown), of the read loop and of the broker; nothing makes anybody
publish, and nothing is assumed of connections, of Home Assistant, of operators or
of the supervisor.

### What the violated run found

**`SwapOrder`** (`bundle.go:459`, `contain.go:140-146`). "Steps 2 and 3 may be
swapped": a component withheld because its platform is not in the catalogue stays
remembered by `KeepSet`. When it leaves, `RemoveComponents` writes a tombstone
that names that platform. Contained afterwards the tombstone is withheld again,
for good, and costs nothing; contained before, as the comment allows, the document
is published with it and Home Assistant refuses all of it.

### Known limits

Promises that fail where a run's conditions are dropped. Each is a hazard in
`PROJECT.json` or a condition named in a property's comment.

- *One form per process life.* Bundle, component, bundle in one process leaves both
  forms retained: the superseded memo is never undone (`publisher.go:798`).
- *No failed publish between two documents.* The kept topics are those of the
  document attempted last, so a sweep after a failure deletes a withheld
  component's config (`publisher.go:633`).
- *No publish between a sweep's re-check and its retraction* (`sweep.go:340`).
- *No replay beside a publish of the same topic*: the older copy may land last
  (`publisher.go:1084`).
- *No reconnect inside `PublishBundle` at QoS 0*: the memo of the retraction lost
  with the socket is reset and the document recorded (`publisher.go:648`).
- *No `Forget` beside a `Sweep`* that fails or is cancelled: what is forgotten
  meanwhile is missing from the index the report is made from, and is reported as
  cleared although it still stands (`availability.go:735-745`).
- *No acknowledgement lost*: the gates keep the payload before it, and suppress it
  when it comes again; a topic never published before stays out of the index.
- *No narrower subscription refused by a `Resubscribe`*: the general route is live
  alone, and `deliver` drops what the narrower owns (`command.go:897`).
- *No handler that calls `Stop`, `Resubscribe` or `Start`* while a `Stop` drains:
  each waits for the other (`command.go:952`).
- *No `WaitIdle` while `Stop` drains* (`command.go:971`); *no `SUBSCRIBE` granted
  and answered too late* (`command.go:825`).
- *Announcements do not overlap*: `AnnounceOnline` reads the level and sends it in
  two steps, so a `SetConnected` between them reaches the broker first
  (`birth.go:160-162`).
- *No `last_reset_value_template` beside an impossible `state_class: total`*:
  `StripWarnings` takes the class away, and Home Assistant refuses the entity for
  the template that stays (`contain.go:27-31`).
- *Two components of one unique id*: containment withholds a second one although
  the first, which registered the identity, is withheld itself; a removed one takes
  the per-entity config the withheld other still uses (`inspect.go:555-568`).
- *A component remembered without its unique id* cannot be retracted from the
  unique-id form once it is gone (`bundle.go:473-482`).
- *`Inspect` and `Validate` read some documents apart and no comment says so*;
  `VerdictsAgree` speaks of the documents that are without (`CommonGround`):
  - `Validate` reports an availability entry with an empty topic although
    `availability` is ignored or `Inspect` stopped at the component
    (`validate.go:283-287`, `inspect.go:573`). Its own comment says an ignored key
    "is not checked for anything" (`validate.go:128-129`): the code contradicts it;
  - `Validate` reads `platform` and `availability` of the typed component
    (`validate.go:283`, `294`), `Inspect` what is published (`inspect.go:539`), so
    they differ where `Extra` overrides either; the comment at `validate.go:201-204`
    promises the encoded form;
  - `Validate` applies the `state_class` rule on every platform
    (`validate.go:429`), `Inspect` on sensors;
  - `Validate` trims no unit (`validate.go:452`, `inspect.go:702`) and takes an
    empty list of options for none (`validate.go:445`, `inspect.go:713`);
  - a node id such as `no.de` passes `Validate` and not `Inspect`
    (`validate.go:138`, `inspect.go:368`).
- *Instances whose name ends in a function* (`home/set`): `NewSmartHomeMultiLevel`
  accepts them; `InstancesKeepApart` takes the consumer's guard with
  `IsReservedFunction` for given.
- `filtersOverlap` takes `+/b` and `$SYS/b` for overlapping although no topic
  matches both; `OverlapIsExact` claims exactness outside the reserved trees.

## 4. Proofs

Everything below holds for any sets of callers, topics, payloads, filters or
workers, any faults and any number of messages, reconnects and restarts. Each
module assumes the named assumptions on its constants (`RuntimeAssumption`,
`RouterAssumption`, `BrokerAssumption`, `StateAssumption`, `PayloadAssumption`,
`GateAssumption`, `TargetAssumption`, `LayoutAssumption`, `LifecycleAssumption`,
`LevelsAssumption`, `NamesAssumption`, `OrderAssumption`), which give their types and
say which model values differ;
what a theorem asks beyond them is in its own `ASSUME`.

| Theorem | States | Where |
| --- | --- | --- |
| `TypeCorrect` | `[]TypeOK` of the discovery plane | always |
| `Invariance` | `[]IInv` of the discovery plane | `Regime` |
| `FormsNeverMeet` | `[]NoFormConflict` | `Regime` |
| `Implementation` | `ImplementsTree`: the runtime implements `ConfigTree` | `Regime` |
| `GatedDocumentsStandAlone` | `[]GatedDocsStandAlone` | `Regime` |
| `TheGateDescribesTheBroker` | `[]GateSound` | `GateRegime` |
| `WindowsKeepApart` | `[]OneWindow` | always |
| `SweepsOverlookNoOrphan` | `WindowMissesNoOrphan` | `OrphanRegime` |
| `WithheldConfigsSurvive` | `KeptSurvive` | `KeepRegime` |
| `OverlapSound`, `OverlapComplete`, `OutranksIsAnOrder`, `WinnerMatchesLess`, `EqualStrengthIsEqual`, `ScoreAgrees` | the filter algebra, for filters of any depth | always |
| `OverlapIsExactAtAnyDepth`, `WinnerIsNarrowerAtAnyDepth`, `RankingIsAnOrderAtAnyDepth` | `[]OverlapIsExact`, `[]WinnerIsNarrower`, `[]RankingIsAnOrder` | always |
| `TwoInstancesKeepApart`, `InstancesAlwaysKeepApart` | two instances on one broker, for names of any depth and any coordinate; `[]InstancesKeepApart` | names the guard accepts |
| `CommandTypes`, `OneOwnerOfEveryTopic` | `[]TypeOK`, `[]OneOwner` of the router | always |
| `CommandsRunInOrder`, `StopDrainsThePool`, `WaitIdleWaits` | `[]CommandsInOrder`, `[]StopDrains`, `WaitIdleIsABarrier` | always |
| `NoRouteOutlivesAFailedStart` | `[]NoLiveRouteUnlessClosed` | no lost answer |
| `NoCommandIsSwallowed` | `OwnerServed` | no lost answer, no refused `Resubscribe` |
| `MapsAgree` | `[]IInv` of the state plane | always |
| `ToldIsRetained`, `NothingOutOfSight`, `LcMovesWithTheValue` | `[]AcceptedIsRetained`, `[]NothingLeftBehind`, `LcStandsStill` of the state plane | one writer per topic, no new connection under a call |
| `ReportedGoneIsGone`, `TheIndexReachesAll` | `[]ReportedIsGone`, `[]NothingLeftBehind` of the availability plane | `AvailabilityProofs!Regime` |
| `HomeAssistantIsTold` | `[]HomeAssistantSees` | the same, and `AvailabilityProofs!Naming` |
| `OneWorkerAtATime`, `EveryRestartWasAsked` | `[]OneWorker`, `[]RestartsWereAsked` | always |
| `TheLevelIsShown` | `[]LevelShown` | announcements do not overlap |
| `CyclesInvariant`, `GoneAlwaysLeaves` | `[]CycleInv`, `[]GoneLeaves` | `NamingCatalog`, `NamedDevice` |
| `UnstrippedIsAccepted` | `[](setting.strip \/ ContainedIsAccepted)` | the same |
| `ContainmentIsAccepted` | `[]ContainedIsAccepted` | the same, `KnowingCatalog`, `SeparableDevice` |
| `VerdictsAlwaysAgree` | `[]VerdictsAgree` | always |
| `LeftoversAlwaysParse` | `[]LeftoversParse` | `NamingCatalog`, `NamedDevice`, `NamedTopics` |
| `NothingDeclaredIsDeleted` | `NoDeclaredEntityDeleted` | `NamingCatalog`, `NamedDevice`, `NamedTopics`, `DistinctDevice` |

"Always" is under the assumptions on the constants alone. Every hypothesis in the
last column is a caller contract the code states, a configuration without clashes,
or a limit listed above, and each holds in the instance that checks the property.

### Discovery: the two forms

`Regime` is

1. `QoS = 1`, so a write answered was applied;
2. `OneFormPerLife`: in one process life no call writes a topic that another
   call replaces, and a document covers entities of its own node; a raw `Publish`
   only retracts. The next life may be in the other form. Without
   it the property fails: the first of the known limits above;
3. `LeftoversConsistent`: what was retained before the first life is consistent;
4. with `SupersedeObserved`, windows that see everything under the prefix: the
   trade-off the option's own comment names.

`NoFormConflict` is not inductive: a document about to be applied conflicts unless
its replaced topics are empty *now*, with other goroutines at work. `IInv` adds

- `OwnNode`: a retained document describes entities of its own node, so the one
  topic `PublishComponent` retracts is the only document in its way;
- `MemoryOK`: what `declared` holds, and so what a replay may send, is a config
  of this life whose place is clear; `superseded` never claims a retraction the
  broker has not applied; a snapshot kept is truthful of the topics this life
  replaces (`Off`);
- `CallerOK`, per goroutine: its label fits its call; every config it holds, is
  about to send or has queued is `Sound`; while `supersede` walks, each topic to
  be replaced is empty, queued, or in flight (`WalkCovers`); a finished snapshot
  is truthful (`SnapshotTruthful`).

The key is `OffStays`: in the regime nobody writes a topic of `Off`, so once
empty it stays empty, whatever the other goroutines do. Each action has its
lemma (`PublishGateKeeps`, `CollectKeeps`, ...); most move one goroutine's frame
and follow from `LocalStep` and the frame lemmas at the head of the module; the two
that write the tree (`BrokerApplies`, and `Reconnect` losing the store) follow from
`SoundWrite` and `OffStays`. `Implementation` maps `retained` to the abstract
`tree`: an applied message is a `Write` or a `Clear` of a topic some call reaches,
a lost store is `Lose`, everything else stutters. `GatedDocumentsStandAlone` needs
one fact more, that what is gated is declared: then its place is clear by
`MemoryOK`.

### Discovery: the gate and the window

`GateRegime` asks for QoS 1, answers that arrive, one goroutine per topic
(`May` of two callers' calls never meet), and a broker that loses its store, if at
all, between calls and on a transport that can name its connection. `GateInv` ties
the three places a config is at once, the goroutine's frame, `declared` and the
broker: `Attributed` (a goroutine holds messages of its own topics alone, which is
what keeps everybody else out), `Faithful` (a publish has its own config under way,
a replay what is declared, everything else an empty payload; what is applied is
retained), `Current` and `Dated` (who has passed `checkGeneration` knows a
connection, and no gate is younger than the connection it was written on), and
`Described`, which is `GateSound` where no write is applied and unanswered.

`OneWindow` needs no regime: whoever has a window open holds the slot (`Held`).

### Discovery: frames, and sweeps beside other calls

`Typed` is what holds of a frame whatever is called: the types; its call is of the
caller's plan, or the closing `Publish` of one (`Planned`); its label fits its call
(`Labelled`); its messages are about topics its call alters (`InScope`). It is
inductive without any condition, gives `TypeCorrect`, and is what lets the two
action properties below say who can have changed a topic.

`OrphanRegime` asks for a window that outlasts the broker's delivery, for a sweep
whose topics nobody else alters meanwhile (`SweeperAlone`; a replay may run: it
declares nothing), and for one writer per document (`BundlesApart`). Faults are
free: a publish may fail, an answer be lost, the process die. `Listed` says that
of what an open window was shown, all that is unclaimed is on its list. It needs
`ClaimsFounded`: a topic announced is declared, or its publish is still on the way.
A claim that outlived a failed publish would break it, and shield the orphan for
the rest of the process. `KeptFounded` says the same of containment's kept topics.
Where another caller publishes a swept topic meanwhile the property does not hold:
a publish that fails between the delivery and the end of the window leaves its topic
off the list of that sweep; the next one finds it.

`KeepRegime` asks for one writer per document who publishes it as a bundle, and that
no such call fails between containment's bookkeeping and its answer: no refused
or lost answer, and no cancellation while `supersede` waits for a snapshot. That
failure is the second of the known limits. QoS, crashes, reconnects, and a store
lost with them are free, and so is what else runs on the swept topics. `KeptCurrent`
says that what a declared document withholds is kept, or its successor is on its way
(`Keeping`) and `kept` already the successor's. A sweep that looks just then is
another caller's, since the writer is busy, and another caller's sweep owns nothing
that the writer's documents withhold (`OneKeeper`, `SweepsElsewhere`).

### Filters

The recursive definitions are functions over a finite range of levels. What they
compute at every depth needs induction, and induction theorems take an operator as
a parameter, which no backend instantiates; the proofs use the least (or last)
level where a statement fails instead, which exists because the range is finite.
`OverlapFrom` gives the recursion of `filtersOverlap` a closed form: it answers
TRUE exactly where the two filters are compatible at every level before the first
that closes one of them. From there `OverlapSound` is pointwise, and
`OverlapComplete` builds the common topic: the literal where one filter has it, a
fresh name elsewhere. `OutranksIsAnOrder` rests on `AtLeast`, a comparison of ranks
at all levels, which needs no common width. `ScoreAgrees` adds the ranks up
(`Sums`): one level higher, none lower, so a greater sum. `MCFilterProofs` carries
the results over to the properties TLC evaluates, for any `MaxLevels` and any names:
its `Pair` says that the model only ever compares registrable filters.

`TwoInstancesKeepApart` is about `TopicLayout`. `Join` is a recursion over the
levels of a coordinate: `KeepingExists` shows that the recursion has a solution,
`JoinKeeps` what it keeps, levels that are neither empty nor wildcards, the address
always among them. So every topic an instance publishes lies on a `Branch`: its name,
one of the functions, safe levels (`PublishedBranches`). A tree filter `name/f/#`
matches what begins with the name and `f` (`TreeMatches`). Suppose a branch of one
name lies in a tree of another. If the names are of one length they are the same name;
otherwise the longer one has the function of the other below its first level, which
the guard excludes (`TreesApart`). An instance listens below `set` and
`maintenance/set` itself; it publishes below neither, because the only thing it
publishes below `maintenance` is `stats` (`NeverItsOwnCommand`).

### Commands

The invariant is a conjunction of layers, each proved over those before it:

- `Types`, `Gate`, `Holding`, `Emptied`: where the frame of `Start`, `Resubscribe`
  or `Stop` stands and what the pool is then; what `StopDrains` needs besides
  `Accounted`;
- `Owners`: for each topic a route that outranks all others that match. `Handle`
  preserves it because a new route is compared with every one it overlaps
  (`OverlapSound`: so with every one that shares a topic) and outranking is
  transitive (`OutranksIsAnOrder`);
- `Asked`, `Copies`, `Once`: copies on their way came for registered routes, in
  order; of a command accepted already only copies are left that another route
  outranks. This is what makes delivery of several copies run one handler;
- `Queued`, `Accounted`, `Ran`: a queue holds commands of its own topics, oldest
  first; an accepted command has finished or is in its worker's hands or queue;
  what a worker ran is older than what it still has;
- `Sentinels`, `Behind`: a caller's sentinel lies once in each queue it waits for,
  and every command it waits for is finished, in a queue it has not come to, or
  ahead of its sentinel;
- `Known`: as long as no answer is lost, the broker's subscriptions are those the
  frame knows of;
- `Order`, for `OwnerServed` alone. `Bounded` gives the width of the score a value
  (the greatest length of a route, `GreatestElement`) so that `ScoreAgrees` applies;
  `InOrder` then says that between two walks the broker has every route or none, and
  during one none that scores below a route still to come, so a published command
  that reaches any route reaches its owner (`PublishReachesOwner`); `OwnerReached`
  keeps that true of the copies on their way, and `Dated` keeps the next pool apart
  from what came in for this one.

### States and availability

Both gates record after the answer what they sent before it, so both proofs follow
a message through three places. Both begin with the same notion: `t`
*settles on* `S` when its last message on the wire, or, without one, what is
retained, is in `S`; a message sent, read, refused or lost changes what a topic
settles on in one way each.

`MapsAgree` is the memory alone, under no condition on the callers: `gated
\subseteq Known` (nothing is suppressed for a topic the index does not hold);
`MemoFits` (the value memory of a topic describes the bytes in its index, or a
repeat would be compared with bytes the broker no longer holds); `ItemFits` (a call
carries through its three steps the kind of payload its record will keep). The time
of the last change stays a time of the clock because `ChangedAt` returns either the
remembered one or the present.

`ToldIsRetained` adds `Facts`: no topic has two writers (`Alone`) and nobody was
told anything of a topic being written (`Unclaimed`); a message awaited is its
topic's last (`Sent`), an accepted one is what the topic settles on (`Landed`);
what a gate would suppress a repeat for is what its topic settles on (`Gated`),
which is why a suppressed call may be told the same as a sent one; what a replay
copied is still what the gate compares with (`Copied`); what somebody was told is
what the topic settles on (`Claimed`); and a topic nobody has in mind holds nothing
of this process (`Traced`).

`LcMovesWithTheValue` is a property of two successive payloads on the broker, which
no part of `Facts` compares. `Lineage` makes of everything said about a topic one
chain (`Chained`): what the broker holds of this connection, the payloads on the
wire, and the bytes in the index, each carrying `lc` on from the one before. The
chain grows only at its end, by a payload rendered on the memo of the bytes in the
index (`Minded`, `Rendered`) or by a copy of those bytes (`Steady`, which holds for
a gate that `Reset` opened, where `Copied` says nothing); the broker's reading takes
its first link. An answer lost, or a `Forget`, breaks the chain of its topic; it
begins again at the next accepted publish with nothing of the topic on the wire,
which at QoS 1 acceptance implies and at QoS 0 no answer is lost (`Prompt`).

`AvInv` of the availability plane has the same skeleton and two parts of its own:
`Walked` (of the list a `Retract` or `Sweep` is on, what was answered without an
error, or has left the index since, settles on nothing) and `Reported` (so does
what was reported gone). Its regime is: one goroutine at a time on a topic; no new
connection under a call; `Forget` only in the goroutine that sweeps, because a
`Sweep` that failed reports what is missing from the index; and the bridge's topic,
the announcer's, is neither swept nor a flip's target.

`HomeAssistantIsTold` adds `ToldInv`, which follows what a flip was told from its
call to the broker: a flip under way carries the word for what it will say
(`Flipping`), and so does its publish on the wire (`Carried`); what it said of a fact
is what the fact's topic settles on, with nobody about to change it (`Said`); an
entry that may suppress the next flip is what its topic settles on too (`Gate`), and
what a replay has still to send is what the gate holds (`Copies`); the announcer's
topic settles on its own last word (`BridgeSays`). Under it lies a static part, which
is where a mistake in the code would be: whichever of the two contexts declares an
entity, the rendered topic is the one the flip writes (`BothName`), a fact has one
topic (`FactFixesTopic`), and the word the flip writes is the one the config calls
available (`WordsAgree`). `Naming` is what they take from the consumer:

1. the layout is one of the three, and the levels are the four of the code;
2. an entity with a level of its own binds its availability. Without a binding the
   config reads the state envelope, which is the state plane's to keep;
3. the first binding carries the device's address. `AvailabilityFrom` renders the
   device's topic from the binding and `Device` flips the one of the device's UID
   (`BindingSlot` against `DeviceSlot`); nothing in the code compares the two;
4. no datapoint `Self` writes is some device's availability topic.

The SmartHome layout's device level and a `status` encoded self level have no flip
in this publisher; nothing is told of them, and the property asks nothing there.

### The adapter's life

`Runner` ties `running` to the one worker between its first and last step, and a
pending job to a worker that runs; `Shut` follows `Close` from the moment it shuts
the dispatcher. `Asked` counts: a life beyond the first was asked for, and one more
whenever a live command is on its way, in the reader's hands or queued, `Deaf` that
an exited process receives none. `LevelSpoken`, `LevelSent` and `LevelKnown` follow
the level from the caller's mouth over the wire to the broker.

### The publish cycles

`CycleProofs` is about any tables of the catalogue, any components and any settings.
It goes up in three steps.

*A component.* What `Inspect` finds of a body is about its own component and lets
nothing be stripped but unknown keys, keys of an availability entry and `state_class`
(`BodyIsMinor`); what identifies a component is none of those (`IdentityIsNotSpare`),
nor is what its schema requires, so `StripComponent` leaves an entity that is still
inspected and has the identity it had (`StripIs`).

*A document.* `ContainIs`: every component is kept, as it is or stripped, or
withheld, and those with a document error are withheld. So what containment calls
publishable has a document without errors (`PublishableIsAddressed`), and Home
Assistant's registry after it is known (`ProcessedIs`). `RemoveEachIs` does the same
for the tombstones, which are sound and no entity.

*A cycle.* `GoneLeaves` is not inductive: it speaks of the end of a cycle and says
nothing of one that failed. `CycleInv` adds what the failure may not destroy: an
entity Home Assistant has is remembered by its platform (`RegistryInv`); of an
entity whose old config stands, what that config is keyed on is remembered, and no
document that was taken describes it (`LegacyInv`); the bundle in hand has every
declared component, published or withheld, and, after the removals, a tombstone
with the remembered unique id for each that left (`BundleInv`); and what it
describes of the old configs is in the list still to be retracted (`SendingInv`).
`KeepSet` is why `RegistryInv` survives a publish with something withheld
(`KeepSetIs`).

`LeftoversParse` follows from `LegacyInv` by the shapes of the three forms: a topic
of three or of four levels below the prefix, read back from its end.
`NoDeclaredEntityDeleted` needs `ClearInv` as well: what is withheld and what is
published are two identities (`Apart`, since containment withholds both or the
later), the list of retractions is the document's, and `kept` is what is withheld.
Then a retracted topic belongs to a published or a removed component, and
`SharedTopic` says that two components with a common old topic are one, or share a
platform and a unique id.

`ContainedIsAccepted` needs `AcceptInv`. One half, `Clean`: containment keeps nothing
that is refused, because what it drops only makes the duplicate check milder, and
a tombstone has no identity. The other, `Excused`, is about what is withheld: it is
refused in any document it is put in (`Faulty`), or an earlier component has its
identity (`Beaten`), or another withheld one has (`Paired`). Containing a second time
keeps both, though the component that beats it may by then be withheld as well.

Where warnings are stripped the kept component is not the one that was inspected,
and `AcceptInv` must say that what is in hand can be stripped (`Whole`). What a
strippable finding names is a key the schema does not know, an impossible state
class, or a key no availability entry has (`BodyStrips`), so what is left is
`LeftOf` the body. The rules read none of those, given that the schema knows what
they read; the state class alone they do read, and without one a sensor breaks
fewer rules, but for the template that asks for `total` (`SensorStays`). And the
schema of what is left is the schema there was, the key it is chosen by being one
it allows (`MissingStays`). So stripping makes no error (`ErrorsStay`), keeps the
identity, and leaves what can be stripped again (`KeptIsSame`).

`VerdictsAgree` is no induction: it holds of every document on common ground
(`CommonGround`), by the rules of `Inspect` and `Validate` side by side. `Agree`
tolerates only what the code documents: the rules only `Inspect` has (`NewRules`,
`inspect.go:343-348`), the unique id `Validate` asks of a tag (`inspect.go:144-149`,
`validate.go:321`), after which it looks at the tag no further, and the four kinds
that are warnings to Home Assistant (`OnlyWarned`, the `FindingKind` comments from
`inspect.go:98` on); any other issue must be an error of `Inspect`. What the two read
apart without saying so is not tolerated but outside common ground, named there and
listed above under the known limits.

The theorems suppose six things, stated in `BundleCycles` and evaluated by TLC on
the instance `Cycles` checks (`MCCycles`' `NamedAssumption`):

1. `NamingCatalog`, of the tables the catalogue generates: the schema of an entity
   platform knows `unique_id`, that of a platform without entities is flat and
   requires a key of its own;
2. `NamedDevice`, of the consumer: a component's platform is one Home Assistant has
   or none, `Extra` does not overwrite the identity, and an entity installed before
   keeps platform and unique id when it is rendered anew;
3. `NamedTopics`: the node id is not empty, no platform is called `device`, the
   forms are the three that are exported;
4. `DistinctDevice`: no fleet names both short forms, which differ only in whether
   the last level is a unique id or a key and so can collide; what is rendered of an
   installed entity gets as far as the duplicate check; and a component that takes
   an installed entity's identity comes after it in the order of keys. Where it
   comes before, the limit *Two components of one unique id* bites;
5. `KnowingCatalog`, where warnings are stripped: every schema allows what it
   requires, the key it is chosen by and the keys the rules of its platform read, and
   requires no `state_class`; no state class is the empty one;
6. `SeparableDevice`, where warnings are stripped: no sensor has
   `last_reset_value_template` beside an impossible `state_class: total` (a known
   limit above), and what registers no entity has no `unique_id`, which, an unknown
   key, would be stripped from one twin and leave nothing wrong with the other.

### Only model-checked

- `BootReplayed`, `ShutdownEnds`, `CallsReturn`, `AcceptedRuns`: liveness under
  fairness is outside what the backends do.

## 5. Not modelled, and the plan

Modules to come:

1. `acquireSweepSlot` with the goroutine a caller that gave up leaves behind
   (`sweep.go:481`), and the budget a window gets from an expiring deadline
   (`sweep.go:428`).
2. Set payloads: parsing, rounding and clamping (`set.go`).

Not planned, and why:

- `availability_check.go` is a lint: it reports and changes nothing, and no
  stateful part reads its report.
- Rendering proper (`render*.go`, naming, the generated `gen_fields.go`): wording
  and tables without control. `Document` keeps of a rendered component what the
  rules of `Inspect` and `Validate` tell apart.
- `payload/` and `catalog/`: conversions and lookups without state.
- Statistics, `info`, supervision and the log level: samples of the operating
  system and one level switch; what they publish goes through the state gate,
  which is modelled.
- The latency between a window's last message and its end: time is not modelled, a
  window ends at any moment the code allows.
- QoS 2: for this library a level to hand through (`qos.go`); what it would add
  over QoS 1, no duplicates, no retained write can tell.
- Subscription identifiers as numbers: a copy names the filter it was sent for.
- `stripComponent`'s fallback to the component as it was when the rebuilt one does
  not encode to the same bytes (`contain.go:231-234`): what it keeps is what
  `Inspect` only warned of, so it adds no error.
- The broker's refusal of the lifecycle's `Subscribe` (`birth.go:242`), which is
  returned to the consumer.
- The extraction of command topics from documents and `CheckDisjoint`: read-only.
- The command line tools, whose whole behaviour is input and output, and the code
  generator.

`PROJECT.json` lists every component with its status.
