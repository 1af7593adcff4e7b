# A verification of manba-ingress

manba-ingress is a Kubernetes ingress controller for the Manba API gateway. It
watches `ManbaIngress` and `ManbaCluster` resources with the Services, Endpoints
and Secrets they lead to, computes the servers, clusters, binds, APIs and
routings that the gateway should have, compares them with what Manba's API
server stores and makes the calls that take Manba from one to the other.

This directory holds TLA+ modules translated from that code, the TLC
configurations that check them on small instances, and proofs, checked by TLAPS,
that hold for instances of any size. `PROJECT.json` says for each definition
which lines it models.

## 1. The system

```
 Kubernetes --watch--> informers --> event handlers --> ring channel (1024)
                          |                                   |
                          v                                   v
                        store                        Start's loop --Enqueue--> task.Queue
                          |                                                        |
                          +------------- Parser.Build <--- syncManbaIngress <--- worker
                                              |
                                              v
                      OnUpdate: hash -> dump -> ids -> filter -> NewSyncer -> Solve
                                                                               |
                         producer --eventChan(10)--> workers --calls--> Manba API server

 elector --OnStartedLeading--> status queue --> worker --> batch of jobs --> status of Ingresses
 admission webhook: a ManbaIngress and the informer's ManbaClusters --> Allowed or Denied
```

All of it is in every replica of the controller. Only the status syncer asks
whether its replica leads; the sync loop runs in each of them.

| Part | State | Operations | Hard to get right |
|---|---|---|---|
| Diff syncer, `pkg/manba/diff` | current and target state, `eventChan`, `errChan`, `stopChan`, `InFlightOps` | `Run`: ten phases, queue, handle, collect | phases held apart by a polled counter, failures in the middle, who still listens on a channel |
| Solver and CRUD, `pkg/manba/solver`, `pkg/manba/crud` | none but the two registries | one call to Manba, then the same on the in-memory state | a call that was applied and reported as failed |
| In-memory state, `pkg/manba/state` | a memdb table per kind, indexed by id, name, address | `Add`, `Get`, `Update`, `Delete`, `GetAll` | unique indexes, what counts as equal |
| Dump, `pkg/manba/dump` | none | lists Manba | not atomic with what others change |
| Task queue, `pkg/ingress/task` | work queue, delayed retries, `lastSync`, `workerDone` | `Enqueue`, worker, `Shutdown` | skipping by timestamp, retry, shutdown at any moment |
| Controller, `pkg/ingress/controller` | `runningConfigHash`, `isShuttingDown`, `stopCh` | `Start`, `syncManbaIngress`, `OnUpdate`, `Stop` | a hash that outlives a failed sync; unlocked flag |
| Event handlers and informers, `event_handler.go`, `pkg/cache` | ring channel | `OnAdd`, `OnUpdate`, `OnDelete` | filters and drops that may lose an update |
| Store, `pkg/ingress/store` | the informers' caches | getters, `ListManbaIngresses` | read piece by piece while it changes |
| Parser, `.../parser` | none | `Build` | names, sharing between rules and routes, ports |
| Target ids, `manba.go` | none | `toStable`, `setTargetsIDs`, `filterInvalidations` | id collisions, objects whose reference is dropped |
| Status and election, `pkg/ingress/status`, `pkg/ingress/election` | leader lock, ingress status | leader callbacks, periodic update, shutdown | who is leader, conflicts, a worker that never started |
| Admission, `pkg/admission` | none | validate a request | agreeing with what Build does later |
| `cmd`, API types, generated client, pod information | none | wiring | - |

What makes each part correct:

* **Diff syncer and solver.** Every object is moved straight to its target, one
  call each; objects exist before others refer to them and as long as others do;
  the caller learns of every failure, and a Run without failure leaves Manba at
  the target; Run returns.
* **Task queue.** An element is dropped only when a sync that began after it
  has succeeded; a failed sync is tried again; Shutdown is acknowledged.
* **Controller.** Whatever the store settles on is synced in the end; `nil` from
  OnUpdate means that Manba has it.
* **Event handlers.** A change that Build would see leads to a sync.
* **In-memory state, target ids, parser.** `Get` after `Add` finds the object;
  ids are unique and stable across syncs; the built configuration does not
  depend on the order in which maps and caches are walked; a route gets the APIs
  of its rule, and of no rule after it. (It also gets those of the rules before
  it, see "What was found".)
* **Admission.** An ingress that was allowed is served in full.
* **Status.** Only the leader writes, all ingresses converge to the address, and
  a SIGTERM ends the process whatever the status syncer is doing.

## 2. Modules

| Module | Models | Checked by |
|---|---|---|
| `Reconcile` | what Solve's caller may rely on (abstract) | refinement in `DiffSyncer` |
| `DiffSyncer` | one `Syncer.Run` under `Solve` | `MCDiffSyncer`, three configurations |
| `DiffSyncerProofs` | theorems about `DiffSyncer` | TLAPS |
| `TaskQueue` | `task.Queue` over the Kubernetes work queue, as operators | through `SyncLoop` |
| `SyncLoop` | handlers, ring, Start, queue, Build, OnUpdate, Stop, composed | `MCSyncLoop`, three configurations |
| `SyncLoopProofs` | theorems about `SyncLoop` | TLAPS |
| `Collections` | package `state`: indexed tables, and the post actions on them, as operators | through `StateCalls` and `IdSync` |
| `NamedObjects` | what the diff takes the in-memory state for (abstract) | refinement in `StateCalls` |
| `StateCalls` | the life of a `currentState`: `state.Get`, then post actions | `MCStateCalls` |
| `StateCallsProofs` | theorems about `StateCalls`, the refinement among them | TLAPS |
| `IdSync` | `OnUpdate` with ids, by one or several replicas: dump, ids, filter, `state.Get`, Solve | `MCIdSync`, three configurations |
| `IdSyncProofs` | theorems about `IdSync` | TLAPS |
| `Admission` | the webhook's answer, as operators | through `Parser` |
| `Parser` | `Build` and `toStable` | `MCParser` |
| `Validations` | `ToManbaValidations`, as operators | through `Parser` |
| `ParserProofs` | theorems about `Parser` and `Admission` | TLAPS |
| `FoldTheorems` | induction on numbers, and what a loop over a list keeps; one instance per loop | TLAPS |
| `ListTheorems` | lists: places, flattening, insertion sort, and the lists that `ToManbaValidations` makes | TLAPS |
| `StatusSync` | election, status queue, batch of updates, Stop and exit | `MCStatusSync` |
| `StatusSyncProofs` | theorems about `StatusSync` | TLAPS |

The modules look at one pipeline at different magnifications. `Parser` says what
a Build of a store that stands still returns; in `SyncLoop` a Build is a reading
of a store that moves, and its result is opaque. `IdSync` begins with what Build
returned and ends with Solve, whose events it takes one at a time; `DiffSyncer`
opens Solve up into goroutines and takes ids for granted. `Collections` is what
`DiffSyncer` takes for a function from identifiers to configurations, which
`StateCalls` justifies by refinement.

### DiffSyncer

An object is known by its `Identifier()`. `manba`, `cur` and `tgt` map
identifiers to configurations, or `Absent`; `Refs[o][v]` are the objects that
`o` names by id when its configuration is `v`. Goroutines are control points:

* the **producer** (`ppc`): `PList` takes `GetAll` of a phase, `PScan` looks at
  one object and raises `InFlightOps` when it differs, `PSend` / `PSendStopped`
  are the two branches of `queueEvent`'s select, `PWait` is `wait()`, `PFail`
  hands `errEnqueueFailed` to Run, `PClose` closes `eventChan`;
* each **worker** (`wpc[w]`): `WReceive`, the call (`WDo`; `WDoError`, before or
  after Manba applied it), `WPost` on the in-memory state, `WCompleted`, and
  `WReport` over the unbuffered `errChan`, a rendezvous with Run;
* **Run** itself (`mpc`): its select, `MStop`, the collecting loop, `MReturn`;
  and the goroutine that closes `errChan`.

A read or write of one shared variable is one step. `PScan` joins a lookup and
the increment after it: no other goroutine can change the looked-up object, since
an object gets at most one event in a phase. The initial states are those in
which `Solve` is called: any content of Manba, with `cur` equal to it, and any
target.

Left out: `done` (nil in the only call), the Stats (dropped by the caller), and
errors of the in-memory database, which arise only when two objects share an id.

### TaskQueue and SyncLoop

A resource is something the configuration is built from, with an informer of its
own; its value stands for what Build reads of it. Informers change `store` and
notify handlers later; `Reported` is the handlers' filter. Events go through the
ring channel to Start, which reads the clock (`LoopStamp`) and adds (`LoopAdd`)
in two steps. The worker gets elements, skips those older than `lastSync`, and
runs `syncManbaIngress`: `SyncRefused` during shutdown, `Build` one resource per
step, then OnUpdate in one of four ways: hash unchanged, solved, failed, or hung.
A Solve in which a call failed leaves any part of the target in Manba, which is
what `Reconcile` allows it, and it need not return: `diffsyncer_stop` shows that
Run may poll for ever, and then the queue's only worker stays in `OnUpdateHangs`,
in spite of Stop. The clock may stand still and does not go back. `StopFlag`,
`StopClose`, `StopShutDown`, `StopAcked` are the steps of Stop and of the
Shutdown goroutine it spawns.

External, modelled from how the code uses them: the Kubernetes work queue
(`Add`, `Done`, delayed adds), the ring channel, the informers and the clock.
Elements that the work queue hands out again carry their old timestamp; a retry
is a new element with a new one. The rate limiter's delay is any delay.

### Collections and StateCalls

A table has rows by id and an index from names to ids. memdb's unique index
does not refuse a second row of one name: the new row takes over the entry, and
the entry goes when either row goes; `memdbInsert` and `memdbDelete` say so.
`multiIndexLookup` searches the name index before the ids, with the same string.
`Add`, `Get`, `Update`, `Delete` and `GetAll` are the operations of a collection,
and each of the four named kinds and the binds has its own, after the code.
`PostProcess` is the registry's `Do` for the current state. `StateCalls` loads a
state as `state.Get` does and then makes any post action that the diff could
find (`Found`). `NamedObjects` is a set of objects that are created, updated and
deleted by calls that say what they were given; once Manba has repeated a name
(`twins`) it allows any change, since the diff then has no such set to rely on.

### IdSync

Per replica: `wish` is what Build returned, `raw` what has been dumped, `cur`
and `tgt` the two states, `hash` the configuration of `runningConfigHash`.
`Start` compares hashes; `DumpClusters` to `DumpRoutings` are the calls of
`dump.Get`, binds one cluster at a time; `Prepare` is `state.Get`,
`setTargetsIDs`, `filterInvalidations` and `state.Get` again, for any order in
which Manba listed its objects; `SolveEvent` is an event of the current phase,
with what its post action returns; `SolveReturn` ends a Solve, anywhere after an
error. `SolveEventFailed` is a call that fails, applied or not, `Crash` loses
everything but Manba, `Drift` removes an object behind the controller's back.
`SnowID` takes sonyflake's numbers, which count up with jumps, modulo `IdMod`.
`Only` is the filtering loop, `AddAll` one of the loops of `state.Get` with
`Added` as its body. The history `clash` (`Clashes`) is set when a new id is 0 or
not free: Manba or the dump has it, another object of the target gets it, or
binds are left of a cluster that had it. The history `lost` is set when a call of
the sync under way returns an error, and cleared when a sync starts.
`PostBind` has no Update: a bind that is found under its identifier is equal to it,
so no event updates one.

Assumed of Manba, which is external: an id has one object of a kind, and
committing one replaces it; removing a cluster leaves its binds, which are seen
no more unless a cluster of that id comes back.

### Parser, Admission and Validations

The steps are those of Build: `List` sorts the ingresses by creation time (equal
times in any order of the cache), `ParseRule` and `NextIngress` go through rules,
`Fill(s)` and `Collect(s)` visit the services in any order, as loops over maps
do. APIs are pointers into `heap`, since services share them. `toStable` keeps
the lists that are sorted by a unique name as sets, and sorts the binds with the
insertion sort that `sort.SliceStable` uses for short lists, under the code's
own less function. `Again` builds the same store a second time.

A service is known by its cluster reference: the text
`namespace.name.subset.port.svc` is taken to be injective, though dots in names
could make two references agree. There is one namespace. An API's name is kept as
digits, because their lack of a separator matters.

`Handle` is the webhook's answer; `AdmittedIsServed` compares it with what Build
makes of the same clusters. `ToManbaValidations` goes through the six maps of a
match in any order and sorts the entries with `SortSlice`, after the `sort.Slice`
of Go 1.13 (the version of go.mod and of the Dockerfile): insertion sort, from
seven elements on with a pass of gap six before it (`GapPass`), and above twelve
quicksort, of which only that it permutes the list is kept. The less function is
no strict weak order, so that from seven parameters on one match may become
several lists. The list is part of a dispatch node, so `SameStoreSameConfig`
covers its order, up to six parameters (`ShortMatches`).

### StatusSync

Per replica: the `elector` (candidate, leading, done), the `callback` with its
poll, the worker `wpc` with its `jobs`, the goroutine `down` that shuts the queue
down, and Stop with the exit (`spc`). `holder` maps ConfigMaps to the identity
in their election record; the lock and the ConfigMap that Shutdown asks for have
the names that the code gives them. `flag` is `--publish-status-address`; the
replicas are those of one Deployment and share it. Without it, that is with
`--publish-service` alone, `runningAddresses` fails and the sync is retried. Ingresses have a resource version only in
that `fresh` tells whether a job's reading is still the latest: otherwise its
update is a conflict. Elements of the status queue differ in their timestamps
alone, so `pending` is a Boolean; `TaskQueue` has the rule that makes older ones
superfluous. `UpdateStatusOnShutdown` is false, as nothing sets it.

The history variables are `clash`, `meddled` and `lost` in IdSync, `repeated` in
StateCalls, `prev` in Parser, `failed` in DiffSyncer, `built`, `ret`, `partial` and
`unreported` in SyncLoop; no guard of an action reads them but the bounds.

## 3. Runs

| Run | Instance | Result |
|---|---|---|
| `diffsyncer_safety` | an object of every kind, two clusters, an API that can move between them; 2 workers, buffer 1, 1 failing call | `TypeOK`, `InFlightExact`, `PhaseBarrier`, `MirrorsManba`, `SuccessMeansSynced`, `DanglingBlamesFailure` hold |
| `diffsyncer_refinement` | 3 clusters, 3 workers, buffer 2, 2 failing calls, fair | `NoErrorLost` holds, `DiffSyncer` implements `Reconcile`, and Run returns (`Termination`) |
| `diffsyncer_stop` | 3 clusters, 2 workers, 2 failing calls, fair | `StopStopsProducer` is **violated** |
| `syncloop_safety` | an ingress (absent, in or out of the class) and endpoints; ring of 1, 2 notifications, 1 failing sync, clock 1..2 | `TypeOK`, `NoLostUpdate`, `NilMeansSyncedIfWhole` hold |
| `syncloop_liveness` | the same two resources; 1 notification, which may come between the two readings of a Build, 1 failing sync, clock 1..2, fair | `EventuallySynced`, `ShutdownAcked` hold |
| `syncloop_revert` | a ManbaCluster (absent, in or out of the class), the bounds of `syncloop_safety` | `NilMeansSynced` is **violated** |
| `statecalls_safety` | 2 ids, 2 names and none, one name may repeat, 2 objects | `TypeOK`, `PostErrorBlamesRepeat`, `FoundByIdentifier` hold, and the collections implement `NamedObjects` (`ObjectsSpec`) |
| `idsync_safety` | 1 replica, 4 syncs between 3 configurations with every kind of object, an invalid server, a bind twice; 1 failure or crash, 1 change by someone else | `TypeOK`, `OneRowPerName`, `ErrorsExplained`, `NilMeansFaithful`, `WishedKept` hold |
| `idsync_restart` | 2 replicas, 2 syncs each, a crash | `ReplicasServe` is **violated** |
| `idsync_collision` | 1 replica, ids modulo 5, 3 syncs | `NilMeansCorrect` is **violated** |
| `parser_safety` | 2 Builds of each of 3208 stores: two ingresses with three rules out of seven between them; matches on up to six parameters of several sources, and one on seven; missing clusters, subsets and endpoints; shared servers, services, endpoints; external services, one of them with the host of an endpoint; equal times; twelve matches of up to eleven rules | `TypeOK`, `RoutesReached`, `AdmittedIsServed`, `SameStoreSameConfig`, `RepeatedBlamesServices`, `RoutingsAnchored`, `QPSDivided`, `NameClashNeedsTwoDigits`, `EveryParameterOnce` hold |
| `status_sync` | 2 replicas with one election id, with an address or none, 1 Ingress; one lost lease, failed call or foreign write; fair | `TypeOK`, `WritersAccountable`, `StatusConverges`, `StopReturns` hold |

**Bounds.** Two workers and a buffer of one make the producer block, a worker
fail while another is in a call, and a phase end with calls under way. In the
flat instance one phase has more events than the buffer and one worker can take;
two failures with three workers need both the select and the collecting loop of
Run. A ring of one overflows at the second event, and a Build mixes two moments
when two resources change while it reads (`syncloop_safety`); two clock readings
are enough for an element that is as old as, or older than, the last sync.
`MaxFailures`, `MaxEvents` and `MaxClock` only bound the search. Workers are interchangeable,
so `diffsyncer_safety` uses symmetry; runs with liveness properties do not.

Two ids and a name that may repeat are enough for an index entry to be taken
over and then lost. In `idsync_safety` each pair of configurations needs
creations, updates and deletions of several kinds; four syncs leave room for a
failed one, a drift, and two to recover; `IdMod` is larger than `MaxStamp`, so
that ids do not clash there, while in `idsync_collision` they do. In the Parser
two ingresses, three rules and two shared clusters give every way in which APIs,
services and servers can be shared. In `status_sync` two leaders write one
Ingress at the same time, so that each can make the other's update a conflict,
and one fault can fall anywhere. Six parameters are the most that `sort.Slice`
sorts by insertion alone; the match on seven becomes two different lists. Binds
stay below twenty, where `sort.SliceStable` stops being an insertion sort; no
property looks at their order. Names, ids and addresses in cfg files are strings
rather than model values where the code compares or concatenates them.

**Fairness.** Weak fairness of each goroutine (the Go scheduler is preemptive
and the rendezvous partners keep waiting), of a call to Manba returning (the
client has timeouts), of informers delivering and of timers firing. None for
the clock, for failures, for new notifications, for SIGTERM or for a lease being
lost. Fairness of the queue's worker in `SyncLoop` does not make a Solve with a
failed call return, as `OnUpdateHangs` is one of its steps: `EventuallySynced` and
`ShutdownAcked` except the worker that hangs. In `StatusSync` the elector retries every two seconds, `PollUntil` ticks
every minute, jobs run in a pool of ten and the process exits ten seconds after
Stop: weak fairness of each. `StatusConverges` is about replicas that keep the
lead, since the code promises nothing after a lost lease (below). In Start's loop
`ring` is served whether or not `stopCh` is closed, since `break` leaves only
the select.

**Deadlock** is checked in every run but `diffsyncer_stop` and `status_sync`:
`Returned`, `Stopped`, `Finished` and `Done` are the only states in which nothing
more happens. The replicas of `StatusSync` may all exit. In `diffsyncer_stop` the
program really comes to a halt, with the producer polling a counter that nobody
will lower; the run shows it as the violation of what the code's comment says.

### What was found

* `diffsyncer_stop`: `wait()` (diff.go:48) does not look at `stopChan`. When
  every worker has left with an error and an event is still buffered,
  `InFlightOps` cannot reach zero: the producer polls for ever, `Run` does not
  return, and the queue's only worker hangs with it. The comment at diff.go:107
  says "stop the producer".
* `syncloop_revert`: a Solve that fails half-way changes Manba but not
  `runningConfigHash`. When the cluster then returns to the configuration of
  that hash, OnUpdate skips it and returns nil (manba.go:45), while its comment
  (manba.go:35) says "returning nil implies the synchronization finished
  correctly."
* `idsync_collision`: ids are drawn modulo 20000000 (snow.go:14). A new server may
  draw the id of another. `state.Get` passes the second server of an id over
  (state.go:83), so the target state does not have it and no call is made for it:
  it is missing from Manba, its cluster is bound to the server whose id it drew,
  and OnUpdate returns nil.
* `idsync_restart`: every replica runs the sync loop (controller.go:171). Two of
  them create each object twice. That still serves, but a replica that restarts
  takes one twin of a cluster for its own, and deletes the binds of the other,
  which the other replica's API leads to; neither replica syncs again until the
  configuration changes.

Met while modelling; the modules follow the code here, and the properties say
what holds in spite of it:

* `Add` searches its id among the names too (server.go:48, utils.go:65), so an
  object named "7" would keep the object of id 7 out. The instances have no name
  that is a number, and the theorems about lookups have that as a hypothesis.
* A resync leads to a sync that compares hashes and returns (manba.go:46), though
  flag.go:75 says that it confirms resources: what someone else removed from
  Manba stays away until the configuration changes. `NilMeansFaithful` is about
  the syncs that do look.
* `apis` is not reset between rules (parser.go:220): an API is sent to the
  clusters of all later rules of its ingress, with the settings of its own first
  route. `Reached` in `RoutesReached` says so.
* A cluster used by a mirror or a split alone is not created (parser.go:349), the
  exception in `RoutingsAnchored`. A port given by name, or a service port other
  than the target port, finds no endpoint (parser.go:427). A server of two
  clusters gets the rate of one, which one being up to the map (parser.go:156),
  the exception in `QPSDivided`. With ten or more matches or rules two APIs may
  share a name, and one is dropped (parser.go:195).
* The less functions of the binds (manba.go:162) and of the validations
  (types.go:152) are no strict weak orders: an unchanged store may hash
  differently, through its binds or through a match with more than six
  parameters, and is synced again. For binds the effect is none; an API with such
  a match is updated.
* The election's lock excludes nobody, as its name and its identity are both the
  election id (election.go:67); Shutdown looks for a ConfigMap of another name
  (status.go:107); the status of the networking Ingress is written and that of
  the ManbaIngress is not (status.go:271); after a lost lease the elector is not
  run again (controller.go:165); `--publish-service` is not what
  `runningAddresses` reads (status.go:197).
* An API's name has the position of its ingress in the sorted list, so removing
  an older ingress, or a tie in creation times, renames the APIs of the others,
  which are then deleted and created; servers without a traffic policy get a
  MaxQPS of 0; an API goes on referring to a cluster that `filterInvalidations`
  has dropped.

`NoLostUpdate` holds for the changes that handlers report. Two kinds are not
reported although Build sees them, and are synced only when something else
triggers a sync: a deletion that arrives as a tombstone, which `meta.Accessor`
refuses (event_handler.go:82), and changes of Services and ManbaClusters outside
the ingress class, which Build reads regardless (cache/informer.go:45, :57).
They are the history set `unreported`.

## 4. Proofs

| Module | Theorem | States |
|---|---|---|
| `DiffSyncerProofs` | `TypeCorrect` | `Spec => []TypeOK` |
| | `InFlightCorrect` | `Spec => []InFlightExact` |
| | `PhasesDoNotOverlap` | `Spec => []PhaseBarrier` |
| | `MirrorCorrect` | `Spec => []MirrorsManba` |
| | `ErrorsReported` | `Spec => []NoErrorLost` |
| | `SuccessCorrect` | `Spec => []SuccessMeansSynced` |
| | `ReferencesKept` | `Spec => DanglingBlamesFailure` |
| | `RunReconciles` | `Spec => ReconcileSpec` |
| `SyncLoopProofs` | `LoopTypeCorrect` | `Spec => []TypeOK` |
| | `UpdatesKept` | `Spec => []NoLostUpdate` |
| | `NilCorrect` | `Spec => []NilMeansSyncedIfWhole` |
| `StateCallsProofs` | `TablesTypeCorrect` | `Spec => []TypeOK` |
| | `IdentifiersFind` | `Spec => []FoundByIdentifier`, if `NamesAreNoIds` |
| | `PostErrorsExplained` | `Spec => []PostErrorBlamesRepeat`, if `NamesAreNoIds` |
| | `CollectionsImplement` | `Spec => ObjectsSpec`, if `NamesAreNoIds` |
| `ParserProofs` | `ParserTypeCorrect` | `Spec => []TypeOK` |
| | `RoutesCorrect` | `Spec => []RoutesReached` |
| | `AdmittedCorrect` | `Spec => []AdmittedIsServed` |
| | `RoutingsCorrect` | `Spec => []RoutingsAnchored` |
| | `RatesDivided` | `Spec => []QPSDivided` |
| | `ShortNamesDiffer` | `Spec => []NameClashNeedsTwoDigits` |
| | `RepeatsBlamed` | `Spec => []RepeatedBlamesServices` |
| | `ParametersOnce` | `Spec => []EveryParameterOnce` |
| | `BuildsAgree` | `Spec => []SameStoreSameConfig` |
| `IdSyncProofs` | `TypesKept` | `Spec => []TypeOK` |
| | `NamesStayUnique` | `Spec => []OneRowPerName`, if `OneReplica` |
| | `ErrorsAreExplained` | `Spec => []ErrorsExplained`, if `OneReplica` |
| | `WishedNeverTaken` | `Spec => WishedKept`, if `OneReplica` |
| | `NilIsFaithful` | `Spec => NilMeansFaithful`, if `OneReplica` |
| `StatusSyncProofs` | `TypeCorrect` | `Spec => []TypeOK` |
| | `WritersCorrect` | `Spec => WritersAccountable` |

Each holds for every value of the constants that satisfies the assumptions named
below; the bounds of the runs (`MaxEvents`, `MaxFailures`, `MaxClock`,
`MaxBuilds`, ...) are any numbers.

### DiffSyncer

For any set of objects, kinds, configurations and references that satisfy
`ObjAssumption` and `RefsAssumption`, any finite set of workers and any buffer
size (`RunAssumption`), the inductive invariant `IInv` adds to the properties
what they need of one another:

* `InFlightExact` gives the barrier: `inFlight = 0` at `PWait` means that the
  buffer is empty and no worker is busy (`NothingInFlight`);
* `EventsTimely` and `TodoTimely`: every event and every listed object belongs
  to the current phase, concerns an object not yet settled, and no two
  outstanding events concern the same object;
* `Settled`: an object whose turn is over is at its target, or its call failed.
  An object has one turn: its create or update phase when the target has it, its
  delete phase when the target does not;
* `ProducerShape`, `RunShape`, `ErrorsKept`, `Answered`: which control points go
  together, and where an error is on its way from the worker to Run.

References follow: when an object is created or updated, what it refers to has
had its turn already, and when one is deleted, what referred to it has. The
refinement follows from `EventsTimely`, as every call changes one object that is
not at its target, and from `Settled` at the return.

The assumption that a configuration refers to kinds created before its own is
what the order of `createUpdateList` relies on: binds refer to clusters and
servers, APIs to clusters, routings to APIs and clusters.

### SyncLoop

`NoLostUpdate` is about a state in which nothing is left to do, and says nothing
of how an update gets through. The invariant follows it: `Covered` says that
whatever the last accepted configuration misses of a reported resource has a
`Carrier` (a notification that its handler reports, an event in the ring or with
Start, or an element with a timestamp that the worker will not skip), unless the
running sync has read the present value; and whatever the running sync has
missed has a carrier that is no older than the element of that sync, since the
worker skips elements older than `lastSync` once the sync has succeeded. `Begun` is the same
for the first sync. `HashShape` relates the hash, the last configuration built
and, while no Solve has failed half-way, Manba. `NoneAssumption` says that the
value for "none" is neither an element nor a configuration.

### StateCalls

`Indexed` is what lookups need: the name index leads to each row that has a
name, which holds as long as Manba has listed no name of that kind twice. It is
kept by `Add`, `Update` and `Delete` only if no name reads as an id, as
`multiIndexLookup` searches names before ids with the same string; that is the
hypothesis `NamesAreNoIds`. The controller's own names have dots, and the names
of servers, their addresses, a colon. The refinement maps the tables to the set
of their rows (`Contents`); each load or post action is the abstract call with
the same object and the same answer.

### Parser

The stores are any set of stores whose caches are finite and have one ingress
under a name, as Kubernetes sees to, whose slices are sequences and whose
matches are six maps (`StoresAssumption`, `IsMatch`): any number of ingresses,
rules, matches, routes, clusters, services and endpoints, of any length. `IInv`
says at every step of a Build:

* `HeapMade`: every API comes from a rule that has been parsed (`Behind`), bears
  the name made from its positions, and its routings bear its name; `apis` are
  the APIs of the present ingress;
* `ServicesMade`: a service has exactly the APIs of which their own rule, or one
  after it in the ingress that has been parsed already, has a route to it
  (`Leads`); every cluster that a parsed rule leads to and that resolves has a
  service; servers share the policy of their service. That an API is led to by
  rules after its own, and never by an earlier one, is what `apis` growing from
  rule to rule amounts to;
* `NodesMade`: an API has a node for each service that has it and that has been
  filled;
* `StateMade`: the names taken are those of what is kept, nothing is kept twice,
  what is kept comes from the heap and the services, and a service that has been
  collected has been so with all its APIs and servers.

The theorems read it off at the end, when nothing is left to visit. Without
`SameNames` the API kept under a name is the one the name was made for.
`AdmittedCorrect` compares two pieces of code that look a subset up: the webhook
finds one exactly if `getClusterSubset` does.

Three theorems need more than which elements a list has.

* `RepeatsBlamed`: `BlameInv` says of every service that has been filled that an
  address at two places of its list comes from two Services. `getEndpoints`
  leaves repeated addresses out, so the list of one Service is injective
  (`EndpointsApart`), and two equal elements of a flattened list stand in two of
  the lists it is made of (`FlatRepeats`).
* `ParametersOnce`: `FullInv` says that a node is one that `DispatchNode` may make
  of the API's own rule, and that an API has exactly its rule's routings once one
  of its services is filled. Insertions, the pass with gap six (`GapKeeps`) and a
  permutation keep lengths and elements (`SliceKeeps`), and the six maps have no
  entry in common (`ValidationsComplete`): this holds of matches of any size.
* `BuildsAgree` is about two Builds. Instead of comparing their steps, the proof
  says what both arrive at: `Target`, a configuration defined from the store
  alone, and shows that every Build whose store is `Calm` (no match of more than
  six parameters, no server disputed, no service refused) and has no two ingresses of one age ends with it
  (`DoneConfig`); `PrevInv` keeps that for the Build before. The parts are:
  the sorted list of ingresses is unique (`OldestOne`); `WholeInv`, the converse
  of `IInv`: everything in the ingresses passed so far is in the heap and the
  services, and the APIs of a service are listed in the order of their places
  (`Closed`); `FirstInv`: so the API that is kept of several with one name is the
  earliest, and the routing too, in whichever order the services are collected;
  a match of up to six parameters becomes one list of validations in spite of the
  maps (`ValidationsOne`).
  The less function of that sort is not an order, but the entries of a map have
  different names and are inserted into the sorted list of the maps before, and
  where they end up depends on that list and on their names alone (`Merged`); the
  servers of a service are the same set, with the same shares of the rate,
  however the Services are listed (`ServersAny`, from the lengths of flattened
  lists); and sorting binds neither loses nor adds any (`BindsKept`).

The loops of Build are folds over lists of any length, so the proofs need
induction over data. The library's induction theorems take an operator as a
parameter, which the provers cannot instantiate. `FoldTheorems` has two ways
around it: `Induct` is induction for a set of numbers instead of a predicate, and
what a loop keeps is stated for constant operators `Op` (the body) and `Inv`, of
which each loop of the model is an instance of its own
(`Adding == INSTANCE FoldTheorems WITH Op <- AddOp, Inv <- AddInv`), whose
theorem `Adding!FoldKeeps` has no parameter left. That `FoldLeft` computes what
its recursive definition says is proved there too, from the library's definition
of `MapThenFoldSet`, and that a fold over `s \o t` is one over `t` that begins
where that over `s` ended (`FoldConcat`); `Flattened` does the same for
`FlattenSeq`.

### IdSync

Any wishes and ids that satisfy `SyncAssumption`: what Build returns names
objects once, in an order, and no name is a decimal id. Bounds are any numbers.

* `TypesKept` holds for any number of replicas, crashes, failures and clashes of
  ids; `TInv` adds to `TypeOK` what rows, dumps and targets are made of.
* The other four are about one replica (`OneReplica`). With several they are not
  claimed: two replicas create each object twice, which is how `idsync_restart`
  comes about. `OInv` has, besides `TInv`: `Visit`, that a dump has all that Manba
  has of the kinds dumped so far, and nothing else unless someone meddled;
  `Identified`, that among what Manba, the dump and both states have of a kind
  the same id means the same name and the reverse, as long as no id has clashed,
  so that what the diff finds by name is what it then changes by id; `Aimed`,
  that the target state is what the wish comes to; `Answered`, where errors come
  from: a call of this very sync (`lost`), never one of a sync before. Why an id stays with its name through failed calls, lost answers and
  crashes is the core of it: setTargetsIDs looks the name up in a dump that has
  all of Manba, and what a lost call has created is in the next dump.
* `FInv` adds what a Solve without failure keeps in step (`InStep`): the current
  state is what Manba has, binds that no cluster shows excepted; after a phase of
  the first five the current state has all of a kind that the target has, after
  the other five nothing else (`Progress`). At the end the two are equal, and the
  target, read by name, is the wish (`Faithful`). `Skipped` is the same for a
  configuration that OnUpdate would skip by its hash, when nothing has ever
  failed or been changed by others.

### StatusSync

`Started` says in which order elector, callback, worker and Shutdown goroutine
begin and end; with it `WritersAccountable` follows step by step.

### Only model-checked

* Liveness: `Termination`, `EventuallySynced`, `ShutdownAcked`,
  `StatusConverges`, `StopReturns`. Fairness and ENABLED are outside what the
  prover handles.
* Of `IdSync` with several replicas only `TypeOK` is claimed.

Of the order of more than six validations, and of binds, nothing is claimed. The
theorems about binds are about which binds there are, and a sort keeps those.

## 5. Not modelled

* Certificates: `getTLS` reads a Secret, and its caller drops the result.
* `runningAddresses` after a successful look-up of the Service, and what Shutdown
  does after it has looked at `UpdateStatusOnShutdown`, with
  `isRunningMultiplePods`: no execution reaches them.
* A status lock held by another identity: the identity is part of its name.
* Metadata, unrecognised protobuf bytes and deep copies: no decision of the
  controller depends on them.
* The fields that a rule, a route or a policy copies into an API, a node or a
  server one by one are one value (`conf`, `policy`); what Manba does with them
  is its own affair.
* Generated clients and deep copies, flags, the profiling, health and webhook
  servers, and pod details (an environment variable and one GET) are data or
  wiring.
* The Stats of Solve, which all workers increment without a lock, are dropped by
  the only caller. After `stopCh` is closed, Start's loop spins until the exit.

The wall clock being set back, which would make the queue skip an element
wrongly, is excluded by assumption.

## 6. Plan

The model covers what the code decides, and every safety property that a passing
run checks is a theorem. What is left:

1. A statement for several replicas in `IdSync` that survives twins: no replica
   removes an object that its own configuration asks for under the id it knows.
2. An order in which `toStable` could sort binds that makes `SameStoreSameConfig`
   hold of the list and not of the set, should the less function be changed.
