# TLA+ models of the onprem-setup Istio components

This directory holds TLA+ models of the Go components under `src/istio`, the
TLC configurations that model-check them on small instances, and TLAPS proofs
of the main invariants of the two controllers and the networks watcher, and
a proved refinement: `istioctl analyze` implements an abstract return-code
contract. `PROJECT.json` lists every
component, run, mutant, mapped definition, finding, hazard and theorem.

## The system and its parts

The sources are a slice of Istio 1.4. Three parts keep state and run
concurrently:

* **MCP generic controller** (`pilot/pkg/serviceregistry/mcp/controller.go`).
  It is a config store fed by MCP `Apply(change)` calls for one collection at
  a time. `List` readers and the event handlers read it.
  - Apply builds a new inner map, writes every object's version to a
    ledger, removes `change.Removed` from the ledger, and swaps the map
    into `configStore` under `configStoreMu`. It then marks the
    collection synced, and finally either diffs ServiceEntries into
    Add/Update/Delete events or asks the XDS updater for a full push.
  - `List` takes the lock only to fetch the sub-map and iterates it after
    unlocking.
* **Synthetic ServiceEntry controller**
  (`pilot/pkg/serviceregistry/synthetic/serviceentry/...controller.go`).
  It is a namespaced store of synthetic service entries.
  - Apply rejects other collections and returns early on a change without
    objects.
  - On the incremental path it removes configs, dispatching Delete, and
    upserts each object. An upsert dispatches an event and either queues
    its namespace for a full push (`isFullUpdateRequired`) or sends an EDS
    update.
  - On the full path it builds a new store, dispatches Add/Update, swaps,
    and pushes the namespaces whose service changed.
  - A `uint32` counter backs `HasSynced`.
* **Mesh networks watcher** (`pkg/config/mesh/networks_watcher.go`). It
  re-reads the mesh networks file on every file event, without holding its
  mutex. Under the mutex, when the result differs (DeepEqual) from the stored config, it resolves gateway host
  names, stores the result, copies the handler list under the mutex, and
  calls the handlers after unlocking.

Two parts are pure functions over an analysis context:

* **Deployment/service association analyzer**
  (`galley/.../analyzers/deployment/services.go`). For every in-mesh
  deployment it reports IST0117 when no service selects its pods. It
  reports IST0116 for each port that the selecting services serve under
  more than one protocol.
* **istioctl analyze** (`istioctl/cmd/analyze.go`). This model covers only
  the tail of `RunE`: filtering messages by `--output-threshold`, the "No
  validation issues found" line, and the exit error computed from the
  unfiltered messages and `--failure-threshold`.

How the parts interact:
- Both controllers feed Pilot's config aggregation. Their event handlers
  and the XDS updater are the downstream.
- In the models, the handler and XDS updater are reduced to what they were
  told (`events`, `pushes`, `mirror`, `downstream`), so the properties can
  compare them with the store.
- The two controllers do not call each other. The generic controller's
  synced set does include the synthetic collection's name (see hazards).

## Modules

| Module | Models | State | Actions |
|---|---|---|---|
| `McpController` | controller.go | `maps` (a heap of Go maps, so aliasing is explicit), `configStore` (collection → map id), `synced`, `handlers`, `ledger`, `pushes`, `events`, `applier` (the program counter and locals of the one Apply in progress), `readers` (List calls in progress) | `ApplyUnsupported`; Apply split at the points where another goroutine can observe it (`ApplyStart`, `ApplyObject`, `ApplyRemoved`, `ApplySwap`, `ApplySync`, `ApplyDispatch` with `ServiceEntryEvents`); `RegisterEventHandler`; `ListLock` / `ListIterate` / `ListReturn` |
| `McpControllerProofs` | — | — | TLAPS proofs about `McpController` |
| `SyntheticServiceEntryProofs` | — | — | TLAPS proofs about `SyntheticServiceEntry` |
| `NetworksWatcherProofs` | — | — | TLAPS proofs about `NetworksWatcher` |
| `AnalyzeOutcome` | what `istioctl analyze` promises about its return code (abstract) | the inputs, `returned`, `result` | `Return` |
| `AnalyzeCommandProofs` | — | — | TLAPS proofs about `AnalyzeCommand`, including that it implements `AnalyzeOutcome` |
| `SyntheticServiceEntry` | syntheticserviceentrycontroller.go | `store` (key = namespace × name → service/endpoint fingerprints), `nsPresent`, `synced` (width `SyncedBits`), `registered`, `mirror` (what the handler was told), `downstream` (what the XDS updater was told), `applier` | `ApplyUnsupported`, `ApplyNoObjects`, `ApplyStart`, `RemoveConfig`, `IncrementalObject`, `IncrementalPush`, `FullObject`, `FullSwap`, `RegisterEventHandler` |
| `NetworksWatcher` | networks_watcher.go | `file` (possibly `Partial` mid-write), `event`, `networks`, `registered`, `read` (what the callback read outside the mutex, if it holds a read), `pending` (handlers copied but not yet called), `seen` | `WriteBegin` / `WriteEnd` (the environment); the callback as `ReloadReadError`, `ReloadRead` (the unlocked `ReadMeshNetworks`) and `ReloadStore` (DeepEqual, resolve, store and handler copy under the mutex); `Notify(h)`, `AddNetworksHandler(h)`, `InitialRead(h)` |
| `ServiceAssociation` | services.go | the analysis context (selectors, ports, pod labels, annotations, namespace labels), `todo`, `reports` | `AnalyzeDeployment(d)`: one ForEach callback, with `ServicePortMap` as a `FoldLeft` |
| `AnalyzeCommand` | analyze.go (RunE tail) | `messages` (by level), `parseErrors`, thresholds, `format`, `displayed`, `notice`, `result` | `RejectFormat`, `Render` |

Abstractions:
- Configs are reduced to version or fingerprint model values. Names are
  model values.
- An object that fails to convert is an `ok = FALSE` object: it is logged
  and skipped, as the code does.
- The ledger is a function from (collection, key) to version.
- The synthetic controller's service and endpoint content are two separate
  fingerprints, because `isFullUpdateRequired` compares the config with
  its endpoints cleared.
- Messages are reduced to levels.
- Each guard and early return in the code is a conjunct or a separate
  action.

## Runs

All runs are listed in `PROJECT.json`; the commands are
`tlc -workers 2 -config <cfg> <module>`. The analyze runs use
`MCAnalyzeCommand`, which extends `AnalyzeCommand` so TLC evaluates its
assumption.

| Run | Checks | Result |
|---|---|---|
| `mcp_controller` | ListAtomic, SyncedImpliesPublished, DiffExact | pass (1,065,176 distinct states) |
| `mcp_incremental_ignored` | IncrementalPreservesUntouched (spec §3) | violated |
| `synthetic_apply` | NonEmptyAppliedAsSent, SyncedCountsApplies | pass (414,642 states) |
| `synthetic_incremental` | DownstreamFresh, HandlerNoStale | pass (855,028 states) |
| `synthetic_full_endpoints` | DownstreamFresh on the full path | violated |
| `synthetic_full_deletes` | HandlerNoStale | violated |
| `synthetic_removal_push` | NoStaleDownstream (spec §4.4) | violated |
| `networks_watcher` | TypeOK, WatcherCurrent, HandlersCurrent, HandlersConverge | pass (1,098 states) |
| `networks_spurious_notify` | NotifyOnlyOnChange | violated |
| `service_association` | ReportsAsExpected | pass (355,008 states) |
| `analyze_exit` | ReturnsVerdict | pass (8,640 states) |
| `analyze_no_issues` | NoIssuesMeansSuccess | violated |

What the passing runs establish:

* **ListAtomic.** A List that iterates outside the lock while Apply runs
  still returns exactly the map published when it took the lock. This
  holds because Apply always allocates a fresh inner map (`make` at line
  148) and never writes to a published one. Mutant: reusing the published
  map breaks it.
* **SyncedImpliesPublished.** `sync` follows the swap. Mutant: syncing
  first breaks it.
* **DiffExact** (an action property). Replaying the Add/Update/Delete
  events of one ServiceEntry change over the old contents gives exactly
  the new contents. An Add is sent only for a new key and an Update only
  for a changed version. Mutant: dropping the version check breaks it.
* **NonEmptyAppliedAsSent.** Compares the store after every change that
  has objects with the reference contents the change describes.
* **SyncedCountsApplies.** The `synced` counter equals the number of
  accepted Apply calls that have returned, modulo `2^SyncedBits`. The
  deferred increment counts a change without objects as well. Mutant:
  skipping the increment on the early return breaks it.
* **DownstreamFresh.** Between incremental changes, the XDS updater holds
  the version of every stored config. Mutant: treating a config seen for
  the first time as an endpoint-only change, sent only as an EDS update,
  breaks it.
* **HandlerNoStale.** Between incremental changes, the event handler holds
  no config the store has dropped, whenever `RegisterEventHandler` is
  called. The handler is told nothing of what is already stored, so it
  may miss configs; it is never left with a removed one. Mutant: a
  removal without its Delete event breaks it.
* **WatcherCurrent.** Torn writes, read errors, and writes landing between
  the callback's unlocked read and its locked store never leave the watcher
  on an old configuration once the events are handled. It holds because
  such a write leaves a file event, and the callback runs again. Mutant: a
  callback that drops the store breaks it.
* **HandlersCurrent.** A registered handler that the callback will not
  call again holds the served configuration, unless it has not read yet.
  This is the safety half of convergence. Mutant: a reload that stores the
  new configuration without copying the handlers breaks it.
* **HandlersConverge.** Every registered handler ends up with the served
  configuration, however registration races a reload.
* **ReportsAsExpected.** Compares the fold-based analyzer with a
  declarative statement of the messages, on every input of the instance.
* **ReturnsVerdict** (refinement). Under `Outcome` (`returned` is
  `pc = "done"`; display, notice and output threshold hidden),
  `RejectFormat` and `Render` are each the single `Return` of
  `AnalyzeOutcome`, whose `Verdict` is the return code computed from the
  inputs. In particular the exit error depends only on the failure
  threshold and the parse errors, never on the output threshold. Mutant:
  computing the exit error with the output threshold.

What the violations show is listed under "findings" in `PROJECT.json`. In
short:
- The generic controller ignores `Incremental`.
- The synthetic controller never pushes removals, loses endpoint-only
  updates on the full path, and sends no Deletes on a full replace.
- The networks watcher compares an unresolved read with the resolved
  stored config, so it re-notifies handlers on every event when the
  gateways name hosts.
- `istioctl analyze` can print "No validation issues found" and still
  fail.

Other disagreements are recorded as hazards with a note rather than as
runs:
- The generic controller writes the ledger before the store swap (spec
  §5 orders them the other way).
- The synthetic controller ignores a change without objects, which spec
  §8 contradicts and a unit test pins.
- Its `uint32` synced counter wraps after 2^32 calls, and `HasSynced`
  then turns false again. `SyncedIncrement` keeps the wrap in the model.
  `synthetic_apply` runs with `SyncedBits = 1`, so the wrap happens.
  `SyncedCountsApplies` states the wrap exactly, and `SyncedCounts` proves
  it for every width.
- The synthetic controller chooses Add or Update per namespace, not per
  config. A new config in a namespace that already holds one, or in a
  namespace that a removal emptied, is dispatched as Update.
- The synthetic controller's `RegisterEventHandler` writes `eventHandler`
  without the lock and tells the handler nothing of what is stored, so a
  handler registered late never hears of the configs added before it.
  `HandlerNoStale` shows that on the incremental path it still never
  keeps a removed config.
- IST0116 is reported for a single service that serves one port under
  TCP and UDP, although its text speaks of multiple services.

### Bounds

**Generic controller:** two known collections (ServiceEntry and Gateway),
the synthetic collection, and an unknown one. Two keys, two versions, one
reader, `MaxApply = 2`, `MaxObjects = 2`, `MaxHandlers = 1`.
- Two Apply calls are enough to publish a map, start a List on it, and
  have a second Apply replace it while the List iterates.
- Two keys and two versions give Add, Update, Delete and unchanged keys in
  one diff.
- The map ids are bounded by `MaxApply` because each Apply allocates one
  map.
- Symmetry over the keys and over the versions is sound: no definition
  distinguishes two keys or two versions.

**Synthetic controller:** two namespaces × two names, two fingerprints, and
up to 2 objects per change. `MaxApply` is 2, or 3 on the incremental-only
run, so that a removal, an upsert and a re-upsert all happen.
- `SyncedBits = 1` on `synthetic_apply` makes the counter wrap after two
  Apply calls. The other synthetic runs use 16, so that they see no wrap,
  as the real 32-bit counter does not for any feasible number of calls.

**Watcher:** three file contents, one of which has a gateway host that
`Resolve` changes. Two handlers and `MaxWrites = 3`.

**Analyzer:**
- Two services, one deployment, and one label key with one value.
- Ports 53 and 80, under protocols "", TCP and UDP, with up to two ports
  per service.
- This covers the default-TCP rule, a clash within one service, a clash
  across services, and an empty selector.

**analyze:** every message list of up to 3 levels, up to 2 parse errors,
every threshold pair and every format.

### Fairness

Only the watcher has a liveness property. `Spec` assumes weak fairness of
`ReloadReadError`, `ReloadRead`, `ReloadStore`, and each handler's `Notify`
and `InitialRead`:
- the fsnotify callback runs for each pending event, and once it has read
  the file it goes on to take the mutex (nothing else holds the mutex
  for long);
- the handler calls after the unlock are plain sequential calls in that
  goroutine;
- a handler registered by the controller reads `Networks()` when it
  starts.

No fairness is assumed for writers or for registration. The run sets
`CHECK_DEADLOCK FALSE` because the watcher legitimately waits forever once
the bounded writers stop. The analyzer and analyze runs also set it, since
those programs end.

### Mutants

Each property of a passing run has a mutant in `PROJECT.json`: a
plausible bug in a mapped definition (a reused map, sync before swap, a
dropped check, a missing store, copy or Delete, an unresolved store,
output threshold used for the exit code) that TLC then catches under that run's
cfg.

## Proofs

Every theorem is checked by `tlapm <module>.tla`. Each holds for every value
of the constants that satisfies the named assumptions of the module that
declares them, and TLC evaluates those assumptions on every run.

### `McpControllerProofs`

Assumptions: `CollectionsAssumption`, `BoundsAssumption`, `NilMapAssumption`.

* `TypeCorrect == Spec => []TypeOK`.
  - TypeOK alone is not inductive. It is strengthened to `TypeInv`: while
    Apply runs, its collection is known and its inner map is allocated,
    and every iterating reader holds an allocated map.
  - `TypeStep` proves `TypeInv /\ [Next]_vars => TypeInv'` with one step
    per action.
* `SyncedPublished == Spec => []SyncedImpliesPublished`.
  - The strengthening `SyncInv` adds that an Apply in its sync or dispatch
    phase has already published its collection.
* `ListAtomicity == Spec => []ListAtomic`. The argument uses two
  invariants.
  - `HeapInv`: every published or read map id is at most `applied`, the
    map Apply writes is the newest one, and while objects are written it
    is neither published nor held by a reader.
  - `ListInv`: an iterating reader's map still equals the snapshot it
    took, and its output agrees with the snapshot on the keys visited.
  - Together they show that no Apply step writes a map a reader
    iterates. That is the code's argument for the unlocked iteration
    ("we replace the entire sub-map"), made precise.

* `DiffIsExact == Spec => DiffExact` (an action property).
  - `DiffExact` is `[][DiffStep]_vars`.
  - `OnlyDispatchEnds` shows that only `ApplyDispatch` takes Apply from
    dispatch to idle.
  - The rest is about the operator `ServiceEntryEvents`:
    - `EventsOfKey` says what each event says about its key.
    - `EventForChange` says that every changed key has an event.
    - `ReplayDiff` says that replaying the events over the old map gives
      the new map. It holds because the add/update events and the delete
      events name disjoint keys.
  - `TypeInv` supplies the map types.

### `SyntheticServiceEntryProofs`

Assumptions: `KeysAssumption`, `ModesAssumption`, `BoundsAssumption`,
`CollectionAssumption`, `ModulusAssumption`, `NoConfigAssumption`.

Two of these exist only for the provers:
- `ModulusAssumption` states that `SyncedModulus = 2^SyncedBits` is a
  positive natural, because the backends do not evaluate `^`.
- `NoConfigAssumption` states that the empty slot is not a config.

The theorems:
* `SyntheticTypeCorrect == Spec => []TypeOK`, through `TypeInv`, which
  adds the full record type of the applier's locals.
* `AppliedAsSent == Spec => []NonEmptyAppliedAsSent`, through `AppliedInv`.
  At each phase of Apply, it relates the store to what the change
  expects:
  - while removing, the expectation is the store minus the removals;
  - while upserting, the store equals the expectation, which each upsert
    updates along with the store;
  - on the full path, the configs being built equal the expectation.
  Without these per-phase facts the final state cannot be related to the
  change.
* `SyncedCounts == Spec => []SyncedCountsApplies`, through `SyncedInv`.
  `SyncedInv` adds that an Apply in progress has already been counted in
  `applied`.
  - The step is modular arithmetic, proved with the lemmas `ModUnique` and
    `ModIncrement`.
* `IncrementalDownstreamFresh` and `IncrementalNoStaleHandler` assume
  `Modes = {TRUE}`, that is, only incremental changes. They prove
  `Spec => []DownstreamFresh` and `Spec => []HandlerNoStale` through
  `IncrementalInv`:
  - The handler's mirror is always a subset of the stored keys, even in
    the middle of Apply (every removal dispatches its Delete in the same
    step), and is empty before a handler is registered.
  - Outside an upsert, every stored key's downstream is fresh.
  - During an upsert, every stored key either is fresh or has its
    namespace queued in `svcChange` for the full push.
  The queued namespaces are what make the invariant inductive: a service
  change is made fresh only by the push at the end of Apply.
  On the full path both properties fail (see the findings), so the mode
  restriction is needed.

### `NetworksWatcherProofs`

Assumptions: `ResolveAssumption` and `WritesAssumption`.
`ResolveAssumption` includes that resolving a resolved configuration
changes nothing: it names no host any more.

* `WatcherTypeCorrect == Spec => []TypeOK`.
* `NoLostWrite == Spec => []WatcherCurrent`, through `CurrentInv`:
  - when no file event is pending, the callback holds no read and the
    file is complete, `networks` is the resolved file;
  - when no file event is pending and the callback holds a read, that
    read is the file as it is now.
  The second conjunct is what makes the unlocked read safe: a write after
  the read leaves an event, so the stale store it causes is followed by
  another read. `CurrentInv` also drops the `pending` conjunct of
  `WatcherCurrent`, since the last `Notify` cannot re-establish it.
  - A store whose read equals the stored config keeps it. By
    idempotence the stored config is then already the resolved file.

* `NoStaleHandler == Spec => []HandlersCurrent`, through `HandlersInv`.
  `HandlersInv` adds that a handler that is not registered has read
  nothing. Without it, `AddNetworksHandler` could bring a stale reading
  into the registered set.
  - A changed configuration is stored in the same step that copies every
    registered handler into `pending`.
  - No read or store runs while `pending` is non-empty.
### `AnalyzeCommandProofs`

Assumption: `CommandBounds`.

* `ImplementsOutcome == Spec => ReturnsVerdict`: the command implements
  `AnalyzeOutcome`.
  - `OutcomeInit`: a bounded message list is a sequence of levels.
  - `OutcomeStep`: `RejectFormat` returns `Verdict` for an unknown format.
    `Render` returns it for a known one: `errorIfMessagesExceedThreshold`
    with the `FileParseError` fallback is the verdict's case split.
  - No invariant is needed: both actions start from `pc = "run"`, so the
    abstract command has not returned.
  `AnalyzeOutcome` has no fairness, so this is all of `ReturnsVerdict`.

### Only model-checked

Out of TLAPS's reach:
- liveness (`HandlersConverge`): the provers reason about ENABLED and
  fairness only through PTL, which cannot unfold what enables
  `ReloadStore` or `Notify`;
- what the fold-based `ServicePortMap` computes for all inputs, which
  would need induction over data.

Also only checked by TLC:
- `ReportsAsExpected`. The analyzer's port map is a `FoldLeft`, and what
  it computes for all inputs needs induction over data.
- The violated properties. Their counterexamples are the findings.

## Not modelled

* `virtualservice/gateways.go`, a gateway reference check. The analyzer
  is one loop that reports IST0101 for each gateway name other than
  `mesh` that `c.Exists` does not find. Everything it decides lies in
  `resource.NewShortOrFullName` and the analysis context, both outside
  the sources. A model would restate the loop as its own specification,
  and no property could tell it apart from the code.
* `msg/messages.gen.go`. Generated message constructors; only their
  levels enter `AnalyzeCommand`.
* `bootstrap/options.go`. Option structs.
* `patchtable.go`. Test seams.
* `rt/extract.go`. A field conversion.
* The flag, file and kube handling of `analyze.go`. CLI I/O.
* The ledger and resource packages. They are outside `src/`; the ledger is
  modelled as a map.
* The data race in the generic controller's `RegisterEventHandler`. The
  model makes registration atomic.
* A handler that re-enters List while the synthetic controller holds
  `configStoreMu`. This would deadlock; the modelled handler never calls
  back.

## Plan for later work

1. The Add-vs-Update event kind in the synthetic controller's handler
   model (see its hazard).
2. Proofs of `SyntheticServiceEntry`'s invariants on the full path that
   hold there (`NonEmptyAppliedAsSent` already covers both paths).
