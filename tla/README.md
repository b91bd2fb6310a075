# Specification of dynamic-crd-watch

TLA+ models of the `dynamicwatch` package, which starts and stops the informer of
an optional CRD while the controller runs, and of the Widget controller that uses
it; TLC runs over small instances; proofs checked by TLAPS for every instance.
Paths are relative to the repository, `watcher.go`, `builder.go`, `registry.go`
and `condition.go` are in `pkg/dynamicwatch`.

## The system

| Component | State | Operations | Talks to |
| --- | --- | --- | --- |
| CRD cache and feed (`NewCRDCache`, `transformCRDForCache`, the `source.Kind` of `Start`) | the CRDs as the informer last saw them | connect and list, watch events, resync | calls `onCRDChange`, one call at a time |
| `Watcher[T]` | under `mu`: `watching`, `active`, `crdExists`, `generation`, `cancelSyncWaiter`; `started`, the private object cache, the gauge | `Start`, `WaitForSync`, `Ensure`, `TryGet`, `TryList`, `onCRDChange`, `waitForSyncAndRequeue`, `handleCacheInvalidated`, `Status` | informer of `T`, the controller's queue, `requeueAll` |
| `WatcherBuilder`, `Registry`, `WatchHandle` | builder options; the map from CRD name to watcher | `Build`, `RegisterOn`, `has`, `register`, `Conditions` | manager (caches), controller builder (sources) |
| Widget controller | the cached Widget, the computed status | `Reconcile`, `reconcilePlugin`, `reconcileTheme`, mapping functions, indexes, event filter | two watchers, the API server |
| Widget API | conditions and `observedGeneration` | `Mark...`, `Remove...Condition` | |
| Metrics | gauge and counter per CRD | set by the watcher | |
| `cmd/main.go` | everything in memory | start, stop, crash | builds the manager and both sides |
| manifests, `hack/`, `testing/` | | | not modelled |

Three kinds of goroutines act on one watcher: the CRD informer's handler, one
`waitForSyncAndRequeue` per started sync, and the reconcile workers; `source.Kind`
adds one of its own per sync. They share `mu`, but what matters most happens outside
it: `RemoveInformer`, the wait for the sync, the cache read, clearing the gauge, and
the requeue. What is hard is therefore
  - a step that was decided under `mu` and is carried out later (a removal of the
    informer, a reset after a failed read, a requeue);
  - waits that end late, with success, error or cancellation, when their watch has
    been torn down or replaced;
  - parents that were told one thing and must be reconciled again when it changes;
  - the CRD events: old and new object of an update, deletions noticed late;
  - a controller whose cache lags behind its own status patches;
  - a crash between any two steps, after which only the lists of the new process say what
    is to be done;
  - requests that are lost: a failed list of the Widgets, a response of a patch, a
    reset that queues nobody.

What makes each part correct: for the watcher, that each sync has exactly one waiter,
that a watch is active only after its own sync, that no parent is left with an old
answer, and that `Status` follows a simple order
and every change of it reaches all parents; for the feed, that the flag
`crdExists` follows the CRD; for the registry, one watcher per CRD and exact reports
about the registered ones; for the Widget controller, that a settled Widget has the right
status, and that it gets there.

## Modules

| Module | What it is |
| --- | --- |
| `CRDFeed` | the CRD in the API server, the informer's store, the `onCRDChange` calls yet to be made |
| `Watcher` | one `Watcher[T]`, extends `CRDFeed` |
| `WatchStatus` | abstract: the reasons `Status` reports, their order, and who is reconciled because of a change |
| `WatcherProperties` | properties, fairness, and the mapping of `Watcher` onto `WatchStatus` |
| `WatcherProofs`, `FlagProofs` | theorems about `Watcher`; the second about `crdExists` and the feed |
| `RequestProofs` | theorems about requests, and that `Watcher` implements `WatchStatus` |
| `PromiseProofs` | where the documents' promises about a watcher do hold |
| `WidgetController`, `WidgetProofs` | one Widget and `Reconcile` over its watchers, an instance of `WatchStatus` each; and proofs |
| `Registry`, `RegistryProofs` | `RegisterOn` and `Conditions`, and their proofs |
| `MCWatcher`, `MCWidget`, `MCRegistry` | instances for TLC |

Definitions that exist only to show that a property can fail (`TearDownKeepingGeneration`,
`CurrentUnchecked`, `DropObjectEvent`, ...) stand before the one they alter; no
specification uses them.

### CRDFeed and Watcher

The code reads two facts of a CRD: whether it is being deleted and whether it is
established. `CRDObjects` holds just these. `Change` puts a new state in the API server
and, if the watch is connected, in the informer's store, and queues the calls the
notification turns into (`CallsFor`: an update maps the old and the new object, and a call
knows which `part` of an update it is). `Relist` does so for whatever changed while
disconnected; a CRD that has vanished is reported with its last known object.

The handler is `TypedEnqueueRequestsFromMapFunc(onCRDChange)`. Its `Update` makes both calls
with one set of requests: what the call for the old object has added, the call for the new
one does not add again, even if the parents have been reconciled in between. `requested` is
that set. `Adds` is the `queue.Add` of requests, from the handler or from a waiter; the
latter adds what it has listed, whatever was added before.

A critical section of `mu` is one action; each call outside it is another.

| Code | Actions |
| --- | --- |
| `Start`, `WaitForSync` (the latter returns when the handler is through with the first list, `crdSynced`; calls that came since may be waiting) | `Start`, `MarkStarted`, `WaitForSync` |
| `onCRDChange`, removed | `OnCRDRemoved` (locked part), `HandlerRemovesInformer`, `HandlerClearsGauge`, `HandlerRequeues` |
| `onCRDChange`, present | `OnCRDAppeared`, `HandlerRequeues` |
| `Ensure` | `EnsureActive`, `EnsureUnavailable`, `EnsureRegisters` |
| cache read of `TryGet`/`TryList`, then `handleCacheInvalidated` | `CacheRead`, `HandleCacheInvalidated` |
| `waitForSyncAndRequeue` | `SyncTimeout`, `Promote`, `StaleWaiterEnds`, `SyncFails`, `FailedWaiterRemovesInformer`, `WaiterRequeues` |
| `source.Kind` and the object cache (external) | `KindGetsInformer`, `KindSynced`, `InformerSyncs`, `RemoveInformer` |
| the manager stops | `Shutdown` |

`phase` stands for `started` and the start order of the controller: workers run, and
`Ensure` is called, only in `running`. `handlerPc`, `waiterPc` and `reconcilePc` are the
program counters of the three kinds of goroutines; `waiterGen` and `syncCtx` are the
parameters of a waiter. `kind` is the source it waits for: *starting* (its goroutine has
yet to call `GetInformer`), *attached* (waiting for the informer), *ready*; *orphaned* when
that informer was stopped before it synced, so the source waits for ever; *broken* when it
was stopped after, so adding the event handler fails. `WaitForSync` of a source returns
nil when it is ready **and** when the context was cancelled; the model keeps that. It returns
the source's own error when that was broken or stopped with the manager.

Four history variables, which no guard reads: `known` (what a parent's last read told it),
`reset` (a cache invalidation since the last promotion), `invalidated` (one ever), and `lost`
(the parents a requeue of all has passed over, and that are not queued, until they next ask).

A fault is enabled by naming it in `Faults`: `lossyWatch` (the CRD watch is lost and
re-established), `listError` (`requeueAll` cannot list the parents and returns nil),
`startError` (`source.Kind.Start` fails), `removeError` (`RemoveInformer` fails, which the
code logs, and the informer stays), `shutdown`.

### WatchStatus

What a watcher promises: `status`, the reason; `due`, the parents that are to be
reconciled; `reading`, the parents that were told Ready and have yet to read; `lost`, the
parents a request for which was lost; `invalidated`, whether a reader has reset the watcher.
Each change of the answer is an action with `TellsAll` (all parents are due) or
`TellsNobody`: a watch that was never active is lost silently, since its parents already
have that answer. A parent stops being due by asking (`ToldReady`, `ToldUnavailable`, the
latter perhaps starting the sync) or by being `Dropped`, which is possible only if `ListsFail`
or a reader has reset the watcher, and which `lost` remembers until it asks. `ReadInvalidated` is
the reset by a reader, the one change that makes nobody due.

`WatcherProperties` maps `Watcher` onto it: `Status` is the code's function, `Due` is the
work queue, or all parents while a goroutine has yet to make the requests it decided on
under `mu`; `Reading` are the reconciles between `Ensure` and the cache read.

### WidgetController

One Widget with a reference per integration, each to one of `Names` or empty. Of a
watcher the module has the reason `Status` reports, its object cache, and `toRequeue`, a requeue
decided and not carried out; its actions are the steps `WatchStatus` allows. The instance
`Watch(i)` makes that a property (`PromisesReachWidget`) and not an assumption: the parents are
this Widget and the others, the Widget is `due` while it has yet to ask (`WillAsk`) and `reading`
between `Ensure` and the cache read. `events` holds the versions of the Widget the controller's cache has not
received, so the cache and its indexes lag behind edits and behind the controller's own
patches. `Reconcile` reads the Widget (`BeginReconcile`, or `GetFails` with the key queued again), goes through plugin and theme with
a step between `Ensure` and the cache read, and patches. The patch is a JSON merge patch
relative to the copy: `MergePatch` sends `observedGeneration` and the list of conditions
each only if it differs from the copy. `GenerationChanged` is the event filter. A condition
is its reason, what its message is about (a name not found, a setting applied), and its
`observedGeneration`.

| Code | Actions |
| --- | --- |
| `Reconcile`, `reconcilePlugin`, `reconcileTheme` | `BeginReconcile`, `GetFails`, `WatchActive`, `WatchInactive`, `ReadObject`, `ReadInvalidated`, `ReadFails`, `ReturnError`, `NothingToPatch`, `PatchStatus`, `PatchFails`, `PatchResponseLost` |
| `pluginConfigToWidgets`, `themeToWidgets` | `ObjectEvent` with `QueueReferring` (index by name) |
| `allWidgetsWithPluginRef`, `allWidgetsWithThemeRef` | `RequeueWidgets`, `RequeueFails` (index on having a reference) |
| the watchers | `CRDAppears`, `CRDDisappears`, `SyncSucceeds`, `SyncFails`, `OtherRegisters`, `OtherResets` |
| the API server and the controller's cache (external) | `EditRefs`, `DeleteWidget`, `CreateWidget`, `ObjectChanges`, `WidgetEvent`, `Outage` |
| the process | `Restart` |

A part without a reference only removes its condition in the local copy; `BeginReconcile`
does that at once. The cache of an informer is empty from `Register` to the end of its sync: a
read in between (a reader told Ready by the watch before) finds nothing.

Faults: `listError` (a mapping function cannot list the Widgets), `sharedRequest` (an Update of
the CRD takes a request for one it has added already, what `Watcher` does after a reset), `lostResponse` (a patch
is applied and reported as failed), `outage` (the watch of the Widgets is lost; the list
afterwards brings the last version alone), `restart`. `OtherWidgets` says whether other
Widgets are reconciled too; they start and reset the shared watchers.

`staleBase` and `missed` are history variables. `staleBase` says that the last
Reconcile read a status that had been patched since (`CacheLacksPatch` when it began). `missed` says that no Reconcile
has begun since a request was lost: a list failed, an Update took it for a repetition, the Reconcile of another Widget reset an
active watcher, or a Widget took the place of another with the same generation during an
outage. Each of these is needed: without it TLC finds the status wrong for good.

What the abstract watchers leave out: a watch left active by a lost deletion, an informer
removed under an active watch, `crdExists` FALSE for a usable CRD. These are the watcher's own
and are in the `Watcher` runs. Objects outlive their CRD in the model; `StatusCorrect` looks
at them only while the watch is ready.

### Registry

Each of `Calls` is one `RegisterOn` with its own builder: `Has`, the checks of `Build` in
their order, the private cache added to the manager, the owner type looked up after it,
`Register`, `Attach`. CRD names are records of plural and group, since the default
condition type depends on the plural alone. `BeginReport`, `ReportOne` and `EndReport` are one
`Conditions` at a time: it holds the read lock, which keeps `Register` waiting but neither
`Has` nor the watchers, whose `reason` moves as `WatchStatus` allows. `seen` (the reasons
each has had since the call began) is a history variable.

## Runs

| Run | Checks | Instance |
| --- | --- | --- |
| `watcher_safety` | `SyncHasItsOnlyWaiter`, `GaugeTracksActive`, `NoLostActivation`, `NoLostDeactivation`, `FirstReconcileAccurate`, `FlagTracksFeed`, `FlagFollows`, `LossNeedsReset`, `PromotionsAreSynced`, `StatusRefinement` | 2 parents, 2 waiters, 2 workers, 2 CRD changes, `startError` |
| `watcher_faults` | `IInv`, `PromotionsAreSynced`, `WatchKeepsInformer`, `StatusRefinement` | 1 parent, 2 waiters, 2 CRD changes, all faults |
| `watcher_liveness` | `WaitersEnd`, `RemovalTakesEffect`, `InstallTakesEffect` | 1 parent, 2 waiters, 2 CRD changes |
| `widget` | `TypeOK`, `SettledStatusCorrect` | both integrations, 1 name, 1 change, other Widgets, all faults |
| `widget_liveness` | `StatusInv`, `SettledStatusCorrect`, `PromisesReachWidget`, `StatusConverges` | 1 integration, 2 names, 2 changes, other Widgets, all faults |
| `registry` | `OneWatcherPerCRD`, `HeldIsAttached`, `ReportIsExact` | 2 calls, 2 CRDs of one plural, at most 2 options missing, 4 status changes |

Six further runs expect a violation, see *Where code and documents differ*.

**Bounds.** `MaxChurn` counts changes of the CRD, lost connections and resyncs. The
initial CRD is any, absent ones included, so two changes suffice for a removal followed by
a return or for an installation followed by removal, and each update is two calls; the
scenarios in which a late goroutine meets the next generation all happen within them (the
violation runs find theirs with at most three). `Waiters` bounds the goroutines of
`Ensure` alive at a time: two are the late one and its successor; when both are busy
`EnsureRegisters` waits for a free one, which only delays a reconcile. Two parents show
that one of them can be read, told and queued while the other registers the watch.
`MaxConcurrentReconciles` is two with two parents. Parents and waiters are
interchangeable, so `watcher_safety` uses symmetry; the liveness run does not. In
the widget runs, `MaxChanges` counts edits, object and CRD changes, resets by others, crashes and
failures; syncs that fail, outages, and what the controller does itself are not
counted. The initial state is any combination of references, installed CRDs and objects of
these. `widget_liveness` has two changes: an edit during a reconcile that a CRD change
follows, a Widget deleted and created again, a crash after a lost response; two names
let a reference move from one object to another. What only two integrations show, that one
of them changes, fails or is edited while the other is reconciled, needs one change, and
that is what `widget` affords. In `registry`, four status changes take a watcher
from NotStarted through Ready to CRDNotFound, or two watchers to Pending and Syncing. Generations and the
event list are bounded by the changes. Deadlock is checked in
`watcher_safety` and `watcher_liveness`; a stopped manager, a settled Widget and finished
registrations do stop.

**Safety.** `SyncHasItsOnlyWaiter` says that while `Status` is Syncing exactly one
goroutine can end it, the one `cancelSyncWaiter` cancels, and at other times none of the
present generation waits. `GaugeTracksActive` is about the `Set(0)` outside the mutex.
`NoLostActivation` and `NoLostDeactivation` are the requeue promise of the comment on
`Ensure`: a parent whose last answer is out of date is queued, under way, or about to be
queued. `NoLostDeactivation` excludes, through `reset`, the invalidation after which the
code queues nobody (`TECHNICAL_DESIGN.md` accepts this), and, through `lost`, a request that
was decided on and never added. `LossNeedsReset` says when that can be: where lists do not fail,
only after a reader's reset. Until then `crdExists` says what the last call was about, so the call
for the old object of an update, which repeats it, requests nothing, and the other's requests
are no repetitions. `FirstReconcileAccurate` is
the comment on `WaitForSync`. `FlagTracksFeed` says that the call for the old object of an update
never has the last word. `PromotionsAreSynced` is an action property: an activation comes
from a ready source, except after a stop. `WatchKeepsInformer` is about `RemoveInformer`, which
is always called outside the mutex: it never takes the informer of a watch that is active or
whose source is ready, except from a waiter whose sync has failed (the finding
`late_teardown`); dropping the check of `crdExists` in `Ensure` breaks it.
`StatusRefinement`: after Ready comes only CRDNotFound, Syncing only after Pending, and so
on; at every change of the answer all parents are due, and stay so until they ask, a
list fails, or, after a reset, an Update takes their request for a repetition; under all faults.
`FlagFollows` is the inductive form of `FlagTracksFeed` and `FirstReconcileAccurate`; it is
checked where the CRD watch is not lost, since it promises nothing afterwards. `SettledStatusCorrect` says that once events, requeues and the queue
are worked off, the status agrees with references, CRDs and objects, unless the last
Reconcile started from a status it had itself replaced (`staleBase`; the excluded
case is the finding below) or a request was lost (`missed`). `StatusInv` is its inductive form.
`PromisesReachWidget` is the link between the two halves of the model: after each
change of a watcher's answer the Widget asks again. Between the change and the question lie a
requeue not made, an index that may be of an older version, a queue, and a Reconcile that may be
past that part; at each moment one of them accounts for the Widget, or `missed` counts the loss. `StatusConverges` says that
after the last change the status becomes right and remains so, with the same exceptions; it
does not depend on what counts as settled. `ReportIsExact` is what `Conditions` can promise
of watchers that change while it asks them: each registered one exactly once, with a reason
of the time of the call. It is no snapshot: reasons of different watchers need not have held
together.

**Fairness** (`Fairness` of `Watcher`, only in `LiveSpec`). Weak fairness of the start sequence, of the
handler, of each waiter's goroutine (its timer included), of each source's call of
`GetInformer`, of each reconcile, and of the CRD informer's relist: the Go runtime schedules
goroutines, timers fire, the work queue hands out its keys, a reflector reconnects. Strong
fairness only of `KindSynced`: a goroutine of a failed sync can remove the informer again
and again, each making the other's sync fail, so the step is enabled only now and then; it
needs one undisturbed moment. Nothing is assumed of the CRD, of other enqueues, or of the
informer for `T`, whose list may never be answered: that is what `syncTimeout` is for, and
without it `WaitersEnd` fails. `InstallTakesEffect` assumes, in its statement, that syncs
end before `syncTimeout`, and allows that a reader has reset `crdExists` or that the requests for all
parents were lost (`lost = Parents`). `Fairness` of
`WidgetController` (`FairSpec`) is weak fairness of the delivery of events, of the worker,
of the requests a watcher owes, and of a sync, which ends one way or the other
(`WaitersEnd`); nothing is owed by the API server's users, the CRDs, or the faults.

## Where code and documents differ

| Run | What the trace shows |
| --- | --- |
| `stale_invalidation` | a failed sync removes the informer of the retry, the retry is promoted, a reader finds the cache gone and resets `crdExists` for a CRD that has been usable all the time; no enqueue path recovers, `Ensure` returns at `!crdExists` until the next CRD event |
| `late_teardown` | a failed sync removes the informer of the retry that succeeded meanwhile: active without an informer |
| `ghost_informer` | a teardown between `src.Start` and the source's `GetInformer` leaves an informer of a CRD that is gone |
| `lost_deletion` | a deletion while the CRD watch is down arrives as an established object, taken for a CRD that is there |
| `widget_stale_status` | a merge patch computed from a cached status that was already replaced leaves a wrong condition |
| `condition_type_clash` | two groups with one plural get the same condition type |

Each run checks one definition that states what the quoted document says; `PROJECT.json`
quotes it. For each of them a theorem says when the sentence is true, so that the trace is not
just one way to break it among others unknown:

| Definition | Holds in | Theorem |
| --- | --- | --- |
| `CRDFlagTracksCRD` | behaviours without a reset by a reader, the CRD watch never lost | `CRDFlagTracksCRDWithoutReset` |
| `ActiveIsReadable` | behaviours in which no sync fails | `ActiveIsReadableWithoutFailure` |
| `NoInformerLeak` | removals of the informer not failing, behaviours without a reset and without a source that creates its informer after its watch was torn down, the CRD watch never lost | `NoInformerLeakWithoutLateSource` |
| `RemovalNoticed` | all behaviours, the CRD watch never lost | `RemovalNoticedWithoutLoss` |
| `SettledStatusAlwaysCorrect` | a state whose last Reconcile read no status that had been patched since (`staleBase`), no request lost | `SettledStatusCorrectHolds`; `SettledStatusCorrectWithoutLoss` for the second condition |
| `ConditionsAreKeyed` | behaviours in which watchers of one plural are given their own condition types | `ConditionsAreKeyedWithOwnTypes` |

After a reset by a reader the one set of requests of an Update loses requests, and `lost`
records it. Two interleavings, for a parent p:

  - *Old data kept.* After a reset comes `Update(usable, deleting)`. The call for the old object
    sets `crdExists` and queues p; the watch is registered, syncs and is promoted, which clears
    `reset`, and p reads data. The call for the new object tears the watch down, and its
    request for p is not added: p keeps the data and nobody is queued.
  - *Pending for ever.* After a reset comes a resync, `Update(u, u)`. The call for the old object
    queues p; the sync fails late again, removes the informer of its retry, and p, finding that,
    resets the watcher. The call for the new object sets `crdExists`, and its request for p is
    not added: the CRD is usable, the watch is not started, the queue is empty.

Both need a reset first, which `TECHNICAL_DESIGN.md` describes as recovering with the next CRD
event; `LossNeedsReset` is that they need it. They are no runs of their own, as no document says
of them more than of the reset.

Two comments that no run is about. `widget_controller.go:197-199` says that after a failed
list the Widgets wait for "the next periodic resync": a resync is an Update with the
generation unchanged, which the filter of line 355 drops, so it is the "other triggering event"
that counts; `missed` holds until then. `condition.go:74-75` gives
`LeaderWorkerSetsAvailable` and `ScaledObjectsAvailable` as examples; `toPascalCase`
capitalizes only the first letter of these.

## Proofs

`WatcherProofs`, for any set of parents and waiters, any bound and any faults:

  - `TypeCorrect`, and `Invariant`: `Spec => []IInv`. `SyncHasItsOnlyWaiter` is not inductive
    by itself: that no second waiter of the present generation exists depends on
    `cancelSyncWaiter` being set exactly during a sync (`LockedState`), on the identity of that waiter and
    on all generations being at most the present one (`Generations`), so that raising it
    makes all waiters stale. That a cancelled wait cannot promote is `CancelledIsStale`: whoever
    cancels also raises the generation in the same critical section, except a stop. The
    gauge and the informer need that the handler is not overtaken: `TearDownKeepsCRDUnknown`, since only the
    next call sets `crdExists`, and with it FALSE nothing can be registered. `watcher_faults` checks `IInv` with TLC.
  - `SyncHasItsOnlyWaiterHolds`, `GaugeTracksActiveHolds`, `PromotionsAreSyncedHolds` and
    `WatchKeepsInformerHolds` follow from it.

`FlagProofs`: `FlagInvariant`, that `FlagFollows` is inductive given `IInv`. As long as the
watch of the CRDs is not lost, the informer stores what the server holds and the last call
yet to be made is about exactly that (an update ends with the new object, a deletion with
one that is being deleted), so `onCRDChange` leaves `crdExists` right when the last
one is made. `FlagTracksFeedHolds` assumes that `lossyWatch` is not among the faults;
`FirstReconcileAccurateHolds` does not, since before a change of the CRD nothing can be lost.

`RequestProofs`, with the same generality:

  - `RequestsInvariant`: `RequestsReachQueue` is inductive. Until a reader resets the watcher,
    the call for the old object of an update finds `crdExists` as the call before it left it, so it
    requests nothing, `requested` stays empty, and what the other call requests is added. That old
    objects repeat what was said before (`UpdatesRepeat`) is a property of the store, and holds
    after a lost watch too. `LossNeedsResetHolds` follows.
  - `StatusRefinementHolds` goes step by step through `Next`: one lemma for the life cycle and
    the feed, one each for the handler, a waiter and a parent. That a stale waiter changes
    nothing abstract, and that a promotion leaves Syncing, are where `Generations` enters; that the
    handler may pass parents over only after a reset, where `RequestsReachQueue` does.
  - `NoLostActivationHolds`, if lists of parents do not fail, and `NoLostDeactivationHolds`. The
    first needs nothing of the handler, since only a waiter promotes, and it adds what it lists.
    The second rests on `DeactivationPending`, which also counts the readers that have
    called `Ensure` and have yet to read.

`PromiseProofs`: the table under *Where code and documents differ*. A hypothesis about
behaviours stands beside `Spec` as `[](...)`; it excludes the one
event the trace needs (a reset, a failed sync, a source that is late), and leaves all interleavings
of the others. `ActiveIsReadable` and `NoInformerLeak` need invariants of their own:
`ReadableWhenSynced`, that a watch which is active, or can be promoted, has a synced informer, and
`InformerHasOwner`, that an informer is there only during a watch or while the handler or
a failed waiter has yet to remove it. The other two follow from `IInv` and `FlagFollows`.

`RegistryProofs`, for any set of calls and CRDs: a watcher is in the registry exactly from
`Register` on, under its own name and alone there (`RegistryInv`); hence
`OneWatcherPerCRDHolds` and `HeldIsAttachedHolds`. This is where the second look of
`register` under the mutex is needed: `has` alone is out of date. `ReportIsExactHolds` rests
on `ReportInv`: the watchers asked and those not asked are the two halves of the registry,
which no `Register` can change while the lock is held. `ConditionsAreKeyedWithOwnTypes`: within
one group the plural, and with `WithConditionType` the type, identifies the CRD, and a CRD has one
watcher.

`WidgetProofs`, for any number of names, settings, changes and failures, one integration or
both: `TypeCorrect`, `StatusInvariant` (`Spec => []StatusInv`), `SettledStatusCorrectHolds` and
`PromisesReachWidgetHolds`.
`SettledStatusCorrect` speaks of a settled Widget only; the invariant says what is true in
between. Its parts: the versions of the Widget in the API server, in the event queue, in the
cache and in the copy are told apart by uid and generation, and equal ones have equal
references (`VersionsOrdered`); the event queue ends with the present version
(`CacheCatchesUp`); `LocalState`; while Reconcile is under way and the key is not queued again, the
copy is of the cached version and each part that is done agrees with the watch and its cache
(`ReconcileCurrent`); afterwards so does the status, if the cache has the present version
(`StatusCurrent`). The last two except an integration whose watcher still owes its requeue,
and everything while `missed` holds; `StatusCurrent` also what a Reconcile left that began from a
replaced status (`staleBase`).
`WatchStepKeeps` is the core: a step of a watcher leaves what a condition should say, or it
queues the Widget, owes it a requeue, or is counted as missed; the index finds the Widget since
it is of the cached version, as the copy is. An edit instead makes the cache lag, and the
event that ends the lag passes the filter, as the generation differs. From these,
`StatusCurrentEnd` is where `staleBase` enters: a merge patch relative to the stored status
stores exactly what was computed. That the status read at the beginning is still the stored one
at the end is `BaseCurrent`: nothing else patches the status, and a Widget created meanwhile has
another uid.

`PromisesReachWidgetHolds` shows each step to be one of `WatchStatus`, per integration and with the
Widget as a parent, or a counted loss. The steps fall into four kinds: the watcher changes its
answer (`Told`, `NotTold`), the Widget asks (`Answered`), a read ends (`ReadOver`), and what
leaves answer and question alone (`SameDue`). An event of the Widget is the hardest of the last kind: the
reference may appear in the index, and then the event has passed the filter and queued the Widget
(`VersionsOrdered`: equal versions have equal references).

`NothingMissed` is the converse of the counting: without failing lists, requests taken for
repetitions, outages and other Widgets,
`missed` is never set, by whatever crashes, lost responses and edits (`EventsInOrder`: between the
events of two Widgets of one name there is that of a deletion, so the filter sees each of them).
So `SettledStatusCorrectWithoutLoss` drops that exception.

The assumptions are those named in the modules (`FeedAssumption`, `WatcherAssumption`,
`RegistryAssumption`, `WidgetAssumption`): `NoCRD`, `NoWaiter`, `NoName` and `NoObject` are not
what they stand beside, bounds are natural numbers, the parents are finite, and the
integrations are the two of the code or one of them.

All other properties of the passing runs are theorems. Model-checked only: liveness (`WaitersEnd`, `RemovalTakesEffect`, `InstallTakesEffect`,
`StatusConverges`), since fairness is out of the prover's reach.

## Not modelled

Logging, Kubernetes events (`recordEvent`) and the transitions counter: nothing reads
them. `clearList` and the contents of lists: the model keeps whether a read gave data.
Namespaces, predicates and owner handlers: they only choose what is queued, which
`Enqueue` leaves open. The dedicated CRD cache of a watcher built without
`WithCRDCache`: the same feed with a server-side filter. Panics on nil arguments.
`cmd/main.go`: flags, server options and
health checks. The wording of messages, `toPascalCase` and `mergeResults` (no part of
`Reconcile` asks for a requeue after a time). Several Widgets side by side: they share
nothing but the watchers. `config/`, `hack/`, generated deep copies, and the test
support: no protocol.

## Plan

Done: the feed and the watcher, with its abstract specification, safety, liveness and
proofs; the registry and its reports, with proofs; the Widget controller over the abstract
watchers, with crashes, lost requests and the convergence of the status, and the proofs that
a settled status is right and that the watchers' promises reach the Widget; for each difference
between code and documents, the proof of when the document is right. What is left: two watchers over one shared `CRDCache` in one
module. They share nothing but the feed, each with its own handler, so nothing but the order
between the two handlers would be new.
