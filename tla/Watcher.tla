------------------------------ MODULE Watcher ------------------------------
(***************************************************************************)
(* One Watcher[T] of pkg/dynamicwatch: its state under w.mu, the           *)
(* onCRDChange handler, the waitForSyncAndRequeue goroutines that Ensure   *)
(* starts, the private object cache they act on without the mutex, and the *)
(* reconciles that call TryGet or TryList.                                 *)
(*                                                                         *)
(* A critical section of w.mu is one action; every call made outside the   *)
(* mutex (RemoveInformer, the gauge, requeueAll, a cache read) is an       *)
(* action of its own.  Definitions named ...Unchecked, ...Keeping,         *)
(* ...Nothing, No... and ...Still... are altered code that the properties  *)
(* are tried against; no specification uses them.                          *)
(***************************************************************************)
EXTENDS CRDFeed, FiniteSets

CONSTANTS
    Parents,                 \* the parent objects requeueAll lists
    Waiters,                 \* bound: goroutines of Ensure alive at a time
    NoWaiter,                \* cancelSyncWaiter == nil
    MaxConcurrentReconciles  \* the controller's worker count

ASSUME WatcherAssumption ==
    /\ IsFiniteSet(Parents)
    /\ NoWaiter \notin Waiters
    /\ MaxConcurrentReconciles \in Nat \ {0}

VARIABLES
    phase,            \* the lifecycle: before Start, inside it, after it, ...
    watching, active, crdExists, generation, cancelSyncWaiter,
    gauge,            \* watcherActive{crd}: TRUE is 1
    informer,         \* the informer for T in objCache
    handlerPc,        \* what is left of the onCRDChange call under way
    wasReady,         \* its local of that name
    requested,        \* reqs of Update: requests its two calls have added
    crdSynced,        \* the handler is through with the first list of CRDs
    waiterPc,         \* waitForSyncAndRequeue, per goroutine
    waiterGen,        \* its gen parameter
    syncCtx,          \* its syncCtx
    kind,             \* the source.Kind it waits for
    queue,            \* the controller's work queue
    reconcilePc,      \* TryGet or TryList, per parent
    known,            \* what the parent's last read told it
    reset,            \* history: a cache invalidation since the last promotion
    invalidated,      \* history: a cache invalidation ever
    lost              \* history: parents requeueAll passed over, since they last asked

lockedVars == <<watching, active, crdExists, generation, cancelSyncWaiter>>
waiterVars == <<waiterPc, waiterGen, syncCtx, kind>>
handlerVars == <<handlerPc, wasReady, requested, crdSynced>>
queueVars == <<queue, lost>>
readerVars == <<reconcilePc, known>>
resetVars == <<reset, invalidated>>
watcherVars == <<phase, lockedVars, gauge, informer, handlerVars, waiterVars,
                 queueVars, readerVars, resetVars>>
vars == <<feedVars, watcherVars>>

TypeOK ==
    /\ FeedTypeOK
    /\ phase \in {"new", "starting", "started", "running", "stopped"}
    /\ watching \in BOOLEAN
    /\ active \in BOOLEAN
    /\ crdExists \in BOOLEAN
    /\ generation \in Nat
    /\ cancelSyncWaiter \in Waiters \cup {NoWaiter}
    /\ gauge \in BOOLEAN
    /\ informer \in {"none", "syncing", "synced"}
    /\ handlerPc \in {"idle", "remove", "gauge", "requeue"}
    /\ wasReady \in BOOLEAN
    /\ requested \subseteq Parents
    /\ crdSynced \in BOOLEAN
    /\ waiterPc \in [Waiters -> {"idle", "waiting", "failed", "requeue"}]
    /\ waiterGen \in [Waiters -> Nat]
    /\ syncCtx \in [Waiters -> {"live", "cancelled", "expired"}]
    /\ kind \in [Waiters -> {"off", "starting", "attached", "ready", "orphaned",
                          "broken"}]
    /\ queue \subseteq Parents
    /\ reconcilePc \in [Parents -> {"idle", "read", "invalidated"}]
    /\ known \in [Parents -> {"nothing", "unavailable", "empty", "data"}]
    /\ reset \in BOOLEAN
    /\ invalidated \in BOOLEAN
    /\ lost \subseteq Parents

Init ==
    /\ FeedInit
    /\ phase = "new"
    /\ watching = FALSE
    /\ active = FALSE
    /\ crdExists = FALSE
    /\ generation = 0
    /\ cancelSyncWaiter = NoWaiter
    /\ gauge = FALSE
    /\ informer = "none"
    /\ handlerPc = "idle"
    /\ wasReady = FALSE
    /\ requested = {}
    /\ crdSynced = FALSE
    /\ waiterPc = [w \in Waiters |-> "idle"]
    /\ waiterGen = [w \in Waiters |-> 0]
    /\ syncCtx = [w \in Waiters |-> "live"]
    /\ kind = [w \in Waiters |-> "off"]
    /\ queue = {}
    /\ reconcilePc = [p \in Parents |-> "idle"]
    /\ known = [p \in Parents |-> "nothing"]
    /\ reset = FALSE
    /\ invalidated = FALSE
    /\ lost = {}

-----------------------------------------------------------------------------
(* Starting and stopping.                                                  *)

\* Start, up to crdSrc.Start: the CRD source runs and may call onCRDChange.
Start ==
    /\ phase = "new"
    /\ phase' = "starting"
    /\ Relist
    /\ crdSynced' = (crd = NoCRD)
    /\ UNCHANGED <<lockedVars, gauge, informer, handlerPc, wasReady, requested,
                   waiterVars, queueVars, readerVars, resetVars>>

\* The end of Start: started.Store(true).
MarkStarted ==
    /\ phase = "starting"
    /\ phase' = "started"
    /\ UNCHANGED <<feedVars, lockedVars, gauge, informer, handlerVars,
                   waiterVars, queueVars, readerVars, resetVars>>

WaitForSyncAtOnce ==
    /\ phase = "started"
    /\ phase' = "running"
    /\ UNCHANGED <<feedVars, lockedVars, gauge, informer, handlerVars,
                   waiterVars, queueVars, readerVars, resetVars>>

\* WaitForSync returns once onCRDChange ran for everything the first LIST
\* found; only then does the controller start its workers.
WaitForSync ==
    /\ phase = "started"
    /\ crdSynced
    /\ phase' = "running"
    /\ UNCHANGED <<feedVars, lockedVars, gauge, informer, handlerVars,
                   waiterVars, queueVars, readerVars, resetVars>>

\* The manager cancels w.ctx, the parent of every syncCtx.
Shutdown ==
    /\ "shutdown" \in Faults
    /\ phase = "running"
    /\ phase' = "stopped"
    /\ syncCtx' = [w \in Waiters |->
                      IF waiterPc[w] = "waiting" /\ syncCtx[w] = "live"
                      THEN "cancelled" ELSE syncCtx[w]]
    /\ UNCHANGED <<feedVars, lockedVars, gauge, informer, handlerVars,
                   waiterPc, waiterGen, kind, queueVars, readerVars, resetVars>>

\* The CRD and its informer go on by themselves.
FeedMoves ==
    /\ FeedStep \/ (phase # "new" /\ Relist)
    /\ UNCHANGED watcherVars

-----------------------------------------------------------------------------
(* Pieces shared by several steps.                                         *)

\* w.cancelSyncWaiter(), if there is one: a context that already expired
\* keeps its own error.
CancelSyncWaiter ==
    syncCtx' = [w \in Waiters |->
                   IF w = cancelSyncWaiter /\ syncCtx[w] = "live"
                   THEN "cancelled" ELSE syncCtx[w]]

TearDownKeepingGeneration ==
    /\ watching' = FALSE
    /\ active' = FALSE
    /\ crdExists' = FALSE
    /\ generation' = generation
    /\ CancelSyncWaiter
    /\ cancelSyncWaiter' = NoWaiter

\* What onCRDChange and handleCacheInvalidated both do under the mutex.
TearDown ==
    /\ watching' = FALSE
    /\ active' = FALSE
    /\ crdExists' = FALSE
    /\ generation' = generation + 1
    /\ CancelSyncWaiter
    /\ cancelSyncWaiter' = NoWaiter

\* objCache.RemoveInformer: idempotent.  A source inside GetInformer goes on
\* waiting for the stopped informer to sync; one that is past it cannot add its
\* event handler any more.  An error is logged, and the informer stays.
RemoveInformer ==
    \/ /\ informer' = "none"
       /\ kind' = [w \in Waiters |->
                      IF kind[w] # "attached" THEN kind[w]
                      ELSE IF informer = "synced" THEN "broken" ELSE "orphaned"]
    \/ "removeError" \in Faults /\ UNCHANGED <<informer, kind>>

\* What requeueAll returns: a RequeueParentsFn that fails to list the parents
\* returns nil.
Listed == {Parents} \cup (IF "listError" \in Faults THEN {{}} ELSE {})

AddsNothing(requests) == UNCHANGED queueVars

\* queue.Add of each request.
Adds(requests) ==
    /\ queue' = queue \cup requests
    /\ lost' = lost \cup (Parents \ queue')

-----------------------------------------------------------------------------
(* onCRDChange: the feed makes one call at a time.                         *)

SecondCallNext == calls # <<>> /\ Head(calls).part = "new"

\* The handler goes to pc.  Back at its loop it has handled the first list, and what
\* it has requested is forgotten, unless Update has its second call to make.
HandlerAt(pc, requests) ==
    /\ handlerPc' = pc
    /\ crdSynced' = (crdSynced \/ pc = "idle")
    /\ requested' = IF pc = "idle" /\ ~SecondCallNext' THEN {} ELSE requests

HandlerFree == phase \notin {"new", "stopped"} /\ handlerPc = "idle" /\ calls # <<>>

OnCRDRemoved ==
    /\ HandlerFree
    /\ CRDRemoved(Head(calls).object)
    /\ TearDown
    /\ calls' = Tail(calls)
    /\ wasReady' = active
    /\ HandlerAt(IF watching THEN "remove" ELSE IF active THEN "gauge" ELSE "idle",
                 requested)
    /\ UNCHANGED <<crd, connected, stored, churn, phase, gauge, informer,
                   waiterPc, waiterGen, kind, queueVars, readerVars, resetVars>>

OnCRDAppearedAlwaysRequeues ==
    /\ HandlerFree
    /\ ~CRDRemoved(Head(calls).object)
    /\ crdExists' = TRUE
    /\ calls' = Tail(calls)
    /\ HandlerAt("requeue", requested)
    /\ UNCHANGED <<crd, connected, stored, churn, phase, watching, active,
                   generation, cancelSyncWaiter, gauge, informer, wasReady,
                   waiterVars, queueVars, readerVars, resetVars>>

OnCRDAppeared ==
    /\ HandlerFree
    /\ ~CRDRemoved(Head(calls).object)
    /\ crdExists' = TRUE
    /\ calls' = Tail(calls)
    /\ HandlerAt(IF crdExists THEN "idle" ELSE "requeue", requested)
    /\ UNCHANGED <<crd, connected, stored, churn, phase, watching, active,
                   generation, cancelSyncWaiter, gauge, informer, wasReady,
                   waiterVars, queueVars, readerVars, resetVars>>

HandlerRemovesInformer ==
    /\ handlerPc = "remove"
    /\ RemoveInformer
    /\ UNCHANGED calls
    /\ HandlerAt(IF wasReady THEN "gauge" ELSE "idle", requested)
    /\ UNCHANGED <<feedVars, phase, lockedVars, gauge, wasReady, waiterPc,
                   waiterGen, syncCtx, queueVars, readerVars, resetVars>>

HandlerClearsGauge ==
    /\ handlerPc = "gauge"
    /\ gauge' = FALSE
    /\ HandlerAt("requeue", requested)
    /\ UNCHANGED <<feedVars, phase, lockedVars, informer, wasReady, waiterVars,
                   queueVars, readerVars, resetVars>>

\* TypedEnqueueRequestsFromMapFunc adds what requeueAll returns, except what the
\* Update's call for the old object has added already.
HandlerRequeues ==
    /\ handlerPc = "requeue"
    /\ \E listed \in Listed :
          /\ Adds(listed \ requested)
          /\ UNCHANGED calls
          /\ HandlerAt("idle", requested \cup listed)
    /\ wasReady' = FALSE
    /\ UNCHANGED <<feedVars, phase, lockedVars, gauge, informer, waiterVars,
                   readerVars, resetVars>>

-----------------------------------------------------------------------------
(* source.Kind and the object cache: controller-runtime.                   *)

\* The goroutine of Kind.Start calls GetInformer, which creates the informer if
\* there is none.  It does so even when its waiter has ended meanwhile.
KindGetsInformer(w) ==
    /\ kind[w] = "starting"
    /\ informer' = IF informer = "none" THEN "syncing" ELSE informer
    /\ kind' = [kind EXCEPT ![w] = IF waiterPc[w] = "waiting" THEN "attached" ELSE "off"]
    /\ UNCHANGED <<feedVars, phase, lockedVars, gauge, handlerVars, waiterPc,
                   waiterGen, syncCtx, queueVars, readerVars, resetVars>>

\* The informer's first LIST of T succeeds.
InformerSyncs ==
    /\ informer = "syncing"
    /\ Served
    /\ informer' = "synced"
    /\ UNCHANGED <<feedVars, phase, lockedVars, gauge, handlerVars, waiterVars,
                   queueVars, readerVars, resetVars>>

KindSynced(w) ==
    /\ kind[w] = "attached"
    /\ informer = "synced"
    /\ kind' = [kind EXCEPT ![w] = "ready"]
    /\ UNCHANGED <<feedVars, phase, lockedVars, gauge, informer, handlerVars,
                   waiterPc, waiterGen, syncCtx, queueVars, readerVars, resetVars>>

NoSyncTimeout(w) == FALSE

\* syncTimeout runs out.
SyncTimeout(w) ==
    /\ waiterPc[w] = "waiting"
    /\ syncCtx[w] = "live"
    /\ syncCtx' = [syncCtx EXCEPT ![w] = "expired"]
    /\ UNCHANGED <<feedVars, phase, lockedVars, gauge, informer, handlerVars,
                   waiterPc, waiterGen, kind, queueVars, readerVars, resetVars>>

-----------------------------------------------------------------------------
(* waitForSyncAndRequeue.                                                  *)

\* Kind.WaitForSync returns nil when the source is ready, and also when the
\* context was cancelled.
WaitReturnsNil(w) ==
    waiterPc[w] = "waiting" /\ (kind[w] = "ready" \/ syncCtx[w] = "cancelled")

\* An error comes of the source, also of one that w.ctx stops before it is ready,
\* or of a timeout.
WaitReturnsError(w) ==
    /\ waiterPc[w] = "waiting"
    /\ \/ kind[w] = "broken"
       \/ syncCtx[w] = "expired"
       \/ phase = "stopped" /\ kind[w] # "ready"

\* The waiter is done with its parameters and with its source; a source that has
\* yet to call GetInformer still will.
EndWait(w) ==
    /\ waiterGen' = [waiterGen EXCEPT ![w] = 0]
    /\ syncCtx' = [syncCtx EXCEPT ![w] = "live"]
    /\ kind' = [kind EXCEPT ![w] = IF @ = "starting" THEN "starting" ELSE "off"]

CurrentUnchecked(w) == TRUE

\* The generation check both outcomes of the wait make under the mutex.
Current(w) == waiterGen[w] = generation

Promote(w) ==
    /\ WaitReturnsNil(w)
    /\ Current(w)
    /\ active' = TRUE
    /\ cancelSyncWaiter' = NoWaiter
    /\ gauge' = TRUE
    /\ waiterPc' = [waiterPc EXCEPT ![w] = "requeue"]
    /\ EndWait(w)
    /\ reset' = FALSE
    /\ UNCHANGED <<feedVars, phase, watching, crdExists, generation, informer,
                   handlerVars, queueVars, readerVars, invalidated>>

\* Both a late success and a late failure of an older generation just end.
StaleWaiterEnds(w) ==
    /\ WaitReturnsNil(w) \/ WaitReturnsError(w)
    /\ ~Current(w)
    /\ waiterPc' = [waiterPc EXCEPT ![w] = "idle"]
    /\ EndWait(w)
    /\ UNCHANGED <<feedVars, phase, lockedVars, gauge, informer, handlerVars,
                   queueVars, readerVars, resetVars>>

SyncFailsStillWatching(w) ==
    /\ WaitReturnsError(w)
    /\ Current(w)
    /\ cancelSyncWaiter' = NoWaiter
    /\ waiterPc' = [waiterPc EXCEPT ![w] = "failed"]
    /\ EndWait(w)
    /\ UNCHANGED <<feedVars, phase, watching, active, crdExists, generation,
                   gauge, informer, handlerVars, queueVars, readerVars, resetVars>>

SyncFails(w) ==
    /\ WaitReturnsError(w)
    /\ Current(w)
    /\ watching' = FALSE
    /\ cancelSyncWaiter' = NoWaiter
    /\ waiterPc' = [waiterPc EXCEPT ![w] = "failed"]
    /\ EndWait(w)
    /\ UNCHANGED <<feedVars, phase, active, crdExists, generation, gauge,
                   informer, handlerVars, queueVars, readerVars, resetVars>>

FailedWaiterRemovesInformer(w) ==
    /\ waiterPc[w] = "failed"
    /\ RemoveInformer
    /\ waiterPc' = [waiterPc EXCEPT ![w] = "requeue"]
    /\ UNCHANGED <<feedVars, phase, lockedVars, gauge, handlerVars, waiterGen,
                   syncCtx, queueVars, readerVars, resetVars>>

WaiterRequeues(w) ==
    /\ waiterPc[w] = "requeue"
    /\ \E listed \in Listed : Adds(listed)
    /\ waiterPc' = [waiterPc EXCEPT ![w] = "idle"]
    /\ UNCHANGED <<feedVars, phase, lockedVars, gauge, informer, handlerVars,
                   waiterGen, syncCtx, kind, readerVars, resetVars>>

-----------------------------------------------------------------------------
(* Reconciles: TryGet and TryList.                                         *)

\* Any other reason to reconcile p: the parent changes, or an object of T does.
Enqueue(p) ==
    /\ phase # "stopped"
    /\ p \notin queue
    /\ queue' = queue \cup {p}
    /\ UNCHANGED <<feedVars, phase, lockedVars, gauge, informer, handlerVars,
                   waiterVars, lost, readerVars, resetVars>>

\* A worker takes p off the queue; the queue hands out no key twice at a time.
Dequeue(p) ==
    /\ phase = "running"
    /\ p \in queue
    /\ reconcilePc[p] = "idle"
    /\ Cardinality({q \in Parents : reconcilePc[q] # "idle"}) < MaxConcurrentReconciles
    /\ queue' = queue \ {p}
    /\ lost' = lost \ {p}

EnsureActive(p) ==
    /\ Dequeue(p)
    /\ active
    /\ reconcilePc' = [reconcilePc EXCEPT ![p] = "read"]
    /\ UNCHANGED <<feedVars, phase, lockedVars, gauge, informer, handlerVars,
                   waiterVars, known, resetVars>>

\* Ensure answers false and leaves the watcher as it is: there is no CRD, or
\* the informer is still syncing, or source.Kind would not start.
EnsureUnavailable(p) ==
    /\ Dequeue(p)
    /\ ~active
    /\ \/ ~crdExists
       \/ watching
       \/ "startError" \in Faults
    /\ known' = [known EXCEPT ![p] = "unavailable"]
    /\ UNCHANGED <<feedVars, phase, lockedVars, gauge, informer, handlerVars,
                   waiterVars, reconcilePc, resetVars>>

EnsureRegistersUnchecked(p, w) ==
    /\ Dequeue(p)
    /\ ~active /\ ~watching
    /\ waiterPc[w] = "idle" /\ kind[w] = "off"
    /\ watching' = TRUE
    /\ waiterPc' = [waiterPc EXCEPT ![w] = "waiting"]
    /\ waiterGen' = [waiterGen EXCEPT ![w] = generation]
    /\ syncCtx' = [syncCtx EXCEPT ![w] = "live"]
    /\ cancelSyncWaiter' = w
    /\ kind' = [kind EXCEPT ![w] = "starting"]
    /\ known' = [known EXCEPT ![p] = "unavailable"]
    /\ UNCHANGED <<feedVars, phase, active, crdExists, generation, gauge,
                   informer, handlerVars, reconcilePc, resetVars>>

\* Ensure starts a source and the goroutine w that waits for it.
EnsureRegisters(p, w) ==
    /\ Dequeue(p)
    /\ ~active /\ crdExists /\ ~watching
    /\ waiterPc[w] = "idle" /\ kind[w] = "off"
    /\ watching' = TRUE
    /\ waiterPc' = [waiterPc EXCEPT ![w] = "waiting"]
    /\ waiterGen' = [waiterGen EXCEPT ![w] = generation]
    /\ syncCtx' = [v \in Waiters |->
                      IF v = w THEN "live"
                      ELSE IF v = cancelSyncWaiter /\ syncCtx[v] = "live"
                           THEN "cancelled" ELSE syncCtx[v]]
    /\ cancelSyncWaiter' = w
    /\ kind' = [kind EXCEPT ![w] = "starting"]
    /\ known' = [known EXCEPT ![p] = "unavailable"]
    /\ UNCHANGED <<feedVars, phase, active, crdExists, generation, gauge,
                   informer, handlerVars, reconcilePc, resetVars>>

\* objCache.Get or List: a removed informer is ErrResourceNotCached, one that
\* has not synced reads as an empty store.
CacheRead(p) ==
    /\ reconcilePc[p] = "read"
    /\ reconcilePc' = [reconcilePc EXCEPT ![p] =
                          IF informer = "none" THEN "invalidated" ELSE "idle"]
    /\ known' = [known EXCEPT ![p] = CASE informer = "none" -> known[p]
                                       [] informer = "syncing" -> "empty"
                                       [] OTHER -> "data"]
    /\ UNCHANGED <<feedVars, phase, lockedVars, gauge, informer, handlerVars,
                   waiterVars, queueVars, resetVars>>

HandleCacheInvalidatedKeepingGauge(p) ==
    /\ reconcilePc[p] = "invalidated"
    /\ TearDown
    /\ reset' = TRUE
    /\ invalidated' = TRUE
    /\ reconcilePc' = [reconcilePc EXCEPT ![p] = "idle"]
    /\ known' = [known EXCEPT ![p] = "unavailable"]
    /\ UNCHANGED <<feedVars, phase, gauge, informer, handlerVars, waiterPc,
                   waiterGen, kind, queueVars>>

HandleCacheInvalidated(p) ==
    /\ reconcilePc[p] = "invalidated"
    /\ TearDown
    /\ gauge' = FALSE
    /\ reset' = TRUE
    /\ invalidated' = TRUE
    /\ reconcilePc' = [reconcilePc EXCEPT ![p] = "idle"]
    /\ known' = [known EXCEPT ![p] = "unavailable"]
    /\ UNCHANGED <<feedVars, phase, informer, handlerVars, waiterPc, waiterGen,
                   kind, queueVars>>

-----------------------------------------------------------------------------
HandlerStep ==
    \/ OnCRDRemoved
    \/ OnCRDAppeared
    \/ HandlerRemovesInformer
    \/ HandlerClearsGauge
    \/ HandlerRequeues

WaiterStep(w) ==
    \/ SyncTimeout(w)
    \/ Promote(w)
    \/ StaleWaiterEnds(w)
    \/ SyncFails(w)
    \/ FailedWaiterRemovesInformer(w)
    \/ WaiterRequeues(w)

KindStep(w) == KindGetsInformer(w) \/ KindSynced(w)

ReconcileStep(p) ==
    \/ EnsureActive(p)
    \/ EnsureUnavailable(p)
    \/ \E w \in Waiters : EnsureRegisters(p, w)
    \/ CacheRead(p)
    \/ HandleCacheInvalidated(p)

Next ==
    \/ Start
    \/ MarkStarted
    \/ WaitForSync
    \/ Shutdown
    \/ FeedMoves
    \/ HandlerStep
    \/ InformerSyncs
    \/ \E w \in Waiters : KindStep(w) \/ WaiterStep(w)
    \/ \E p \in Parents : Enqueue(p) \/ ReconcileStep(p)

Spec == Init /\ [][Next]_vars
=============================================================================
