------------------------- MODULE WatcherProperties -------------------------
(***************************************************************************)
(* What must hold of a Watcher: safety, the refinement of WatchStatus, and *)
(* liveness under the scheduling the Go runtime and controller-runtime     *)
(* give it.                                                                *)
(***************************************************************************)
EXTENDS Watcher

-----------------------------------------------------------------------------
(* Safety.                                                                 *)

WaitsForThisSync(w) == waiterPc[w] = "waiting" /\ waiterGen[w] = generation

\* While Status says Syncing, exactly one goroutine can end it, by promoting the
\* watcher or by clearing watching, and it is the one cancelSyncWaiter cancels.
\* At any other time no goroutine of the present generation waits, so none can
\* promote: neither Ensure twice, nor a CRD that comes and goes, nor an
\* invalidation leaves a sync without its waiter or with two.
SyncHasItsOnlyWaiter ==
    {w \in Waiters : WaitsForThisSync(w)} =
        IF watching /\ ~active THEN {cancelSyncWaiter} ELSE {}

\* watcherActive and Available disagree only while the onCRDChange call that
\* deactivated the watcher has yet to clear the gauge, which it does outside
\* the mutex: no late Set(0) hides a watch activated since.
GaugeTracksActive ==
    gauge # active => gauge /\ wasReady /\ handlerPc \in {"remove", "gauge"}

\* A parent that was told "unavailable" is reconciled again once the watcher is
\* active: it is queued, or under way, or a waiter is about to queue all parents
\* (the comment on Ensure: return early on false and the watcher will trigger a
\* re-reconcile).
NoLostActivation ==
    \A p \in Parents :
        active /\ known[p] = "unavailable" =>
            \/ p \in queue
            \/ reconcilePc[p] # "idle"
            \/ \E w \in Waiters : waiterPc[w] = "requeue"

\* A parent that read the cache is reconciled again once the watch is gone: it
\* is queued, under way, or the onCRDChange call that removed the watch has yet
\* to queue it.  After an invalidation found by a reader onCRDChange sees no
\* active watch and queues nobody (TECHNICAL_DESIGN.md accepts it); reset
\* marks those states, and lost those where the request was made and not added.
NoLostDeactivation ==
    \A p \in Parents :
        ~active /\ ~reset /\ known[p] \in {"data", "empty"} =>
            \/ p \in queue
            \/ p \in lost
            \/ reconcilePc[p] # "idle"
            \/ wasReady /\ handlerPc \in {"remove", "gauge", "requeue"}

\* onCRDChange sees a CRD first as the new and then as the old object of an update,
\* and the requests of both calls of an Update are taken together: what the first
\* has added the second does not add again, though the parents may have been
\* reconciled in between.  As long as no reader has reset crdExists the call for the
\* old object finds nothing to change, so the other's requests all reach the queue.
LossNeedsReset == lost # {} => "listError" \in Faults \/ invalidated

FeedQuiet ==
    phase \in {"started", "running"} /\ connected /\ calls = <<>> /\ handlerPc = "idle"

\* The comment on WaitForSync: crdExists is accurate from the first reconcile.
FirstReconcileAccurate ==
    phase = "running" /\ churn = 0 /\ ~reset => (crdExists <=> Usable)

\* With every event delivered, crdExists says whether the CRD can be used, as
\* long as no reader reset it.
FlagTracksFeed ==
    FeedQuiet => /\ crdExists => Usable
                 /\ Usable /\ ~reset => crdExists

\* A watch is active only after its informer synced: WaitForSync of a cancelled
\* source also returns nil, and only the generation keeps that from promoting.
\* A manager that is stopping cancels w.ctx without a new generation.
PromotionsAreSynced ==
    [][\A w \in Waiters :
          waiterPc[w] = "waiting" /\ active' /\ ~active /\ waiterPc'[w] = "requeue"
              => kind[w] = "ready" \/ phase = "stopped"]_vars

\* RemoveInformer of the handler comes after the critical section that ended the
\* watch.  It never hits a watch registered since, whose source is ready or which is
\* active already: only the RemoveInformer of a waiter whose sync failed does, when
\* a reconcile has registered anew before it.
WatchKeepsInformer ==
    [][/\ active \/ \E w \in Waiters : WaitsForThisSync(w) /\ kind[w] = "ready"
       /\ informer = "synced" /\ informer' # "synced"
       => \E w \in Waiters : FailedWaiterRemovesInformer(w)]_vars

\* Status().
Status ==
    IF phase \in {"new", "starting"} THEN "NotStarted"
    ELSE IF active THEN "Ready"
    ELSE IF ~crdExists THEN "CRDNotFound"
    ELSE IF watching THEN "Syncing"
    ELSE "Pending"

\* A requeue of all parents has been decided under the mutex and not carried out.
RequeuePending ==
    \/ handlerPc \in {"gauge", "requeue"}
    \/ handlerPc = "remove" /\ wasReady
    \/ \E w \in Waiters : waiterPc[w] \in {"failed", "requeue"}

Due == IF RequeuePending THEN Parents ELSE queue

Reading == {p \in Parents : reconcilePc[p] # "idle"}

Abstract == INSTANCE WatchStatus WITH
    status <- Status,
    due <- Due,
    reading <- Reading,
    ListsFail <- "listError" \in Faults

\* Whatever the interleaving of handler, waiters and readers: the reasons Status
\* reports follow each other as WatchStatus says, every change of the answer makes
\* all parents due, and none is forgotten but by a failed list or, after a reader's
\* reset, by the second call of an Update.
StatusRefinement == Abstract!Spec

-----------------------------------------------------------------------------
(* Why the above holds.                                                    *)

TearingDown == handlerPc \in {"remove", "gauge"}

\* What w.mu protects hangs together: a watch exists only for a known CRD, an
\* active one is registered, and there is a cancelSyncWaiter exactly during a
\* sync.
LockedState ==
    /\ watching => crdExists
    /\ active => watching
    /\ cancelSyncWaiter # NoWaiter <=> watching /\ ~active

\* The goroutine cancelSyncWaiter cancels is the only one of the present
\* generation, and no goroutine is of a later one.
Generations ==
    \A w \in Waiters :
        /\ waiterGen[w] <= generation
        /\ WaitsForThisSync(w) <=> w = cancelSyncWaiter

\* Whoever cancels a waiter raises the generation in the same critical section;
\* only the end of the manager does not.
CancelledIsStale ==
    \A w \in Waiters :
        waiterPc[w] = "waiting" /\ syncCtx[w] = "cancelled" =>
            waiterGen[w] < generation \/ phase = "stopped"

\* From the critical section of onCRDChange to its last step outside the mutex,
\* crdExists stays FALSE: only the next call, made after it, sets it.
TearDownKeepsCRDUnknown == TearingDown => ~crdExists

\* Ensure is called by workers only, and those start after WaitForSync.
NoWatchBeforeWorkers ==
    phase \in {"new", "starting", "started"} =>
        ~watching /\ \A p \in Parents : reconcilePc[p] = "idle"

\* The invariant the proofs of safety rest on.
IInv ==
    /\ TypeOK
    /\ NoWatchBeforeWorkers
    /\ LockedState
    /\ Generations
    /\ CancelledIsStale
    /\ TearDownKeepsCRDUnknown
    /\ GaugeTracksActive

\* NoLostDeactivation with the readers that have yet to read: inductive.
DeactivationPending ==
    \A p \in Parents :
        ~active /\ ~reset /\ (known[p] \in {"data", "empty"} \/ reconcilePc[p] # "idle") =>
            \/ p \in queue
            \/ p \in lost
            \/ wasReady /\ handlerPc \in {"remove", "gauge", "requeue"}

WatchNeverLost == "lossyWatch" \notin Faults \/ churn = 0

LastCall == calls[Len(calls)].object

\* As long as the CRD watch has not been lost, the informer holds what the server
\* holds, the last call still to be made is about that, and with no call left
\* crdExists agrees with it.  Workers start with no call left of the first list, so
\* without a change there never is one.
FlagFollows ==
    WatchNeverLost =>
        /\ phase = "new" =>
              /\ ~connected /\ stored = NoCRD /\ calls = <<>>
              /\ ~crdExists /\ handlerPc = "idle"
        /\ phase # "new" => connected /\ stored = crd
        /\ calls # <<>> => (CRDRemoved(LastCall) <=> ~Usable)
        /\ phase # "new" /\ calls = <<>> /\ crdExists => Usable
        /\ phase # "new" /\ calls = <<>> /\ Usable /\ ~reset => crdExists
        /\ phase \in {"running", "stopped"} => crdSynced
        /\ phase # "new" /\ churn = 0 /\ calls # <<>> =>
              Len(calls) = 1 /\ handlerPc = "idle" /\ ~crdSynced

\* An Update's call for the old object says of it what the call before has said, and
\* its call for the new object is the next.
UpdatesRepeat(s) ==
    \A k \in 2 .. Len(s) :
        /\ s[k].part = "old" => (CRDRemoved(s[k].object) <=> CRDRemoved(s[k - 1].object))
        /\ s[k].part = "new" => s[k - 1].part = "old"

\* Until a reader resets crdExists it says what the last call was about, so an
\* Update's call for the old object finds nothing to change and adds no requests.
RequestsReachQueue ==
    ~invalidated =>
        /\ UpdatesRepeat(calls)
        /\ calls # <<>> /\ Head(calls).part = "old" =>
              (crdExists <=> ~CRDRemoved(Head(calls).object))
        /\ SecondCallNext => handlerPc = "idle"
        /\ stored # NoCRD =>
              IF calls = <<>> THEN crdExists <=> ~CRDRemoved(stored)
                              ELSE CRDRemoved(LastCall) <=> CRDRemoved(stored)
        /\ requested = {}
        /\ lost # {} => "listError" \in Faults

-----------------------------------------------------------------------------
(* What the documents say and the code does not do.                        *)

\* README.md and the comment on TryGet: after (false, nil) the watcher requeues
\* and recovers by itself, so a usable CRD is known to be there once its events
\* are handled.
CRDFlagTracksCRD == FeedQuiet => (crdExists <=> Usable)

\* The comment on the field active: informer synced, safe to read.
ActiveIsReadable == active /\ phase = "running" => informer = "synced"

\* ARCHITECTURE.md: a watcher only keeps an informer running while the CRD is
\* usable; with no CRD, nothing under way and nothing to handle there is none.
NoInformerLeak ==
    /\ FeedQuiet
    /\ crd = NoCRD
    /\ \A w \in Waiters : waiterPc[w] = "idle" /\ kind[w] = "off"
    => informer = "none"

\* ARCHITECTURE.md: when the CRD disappears, the watcher tears the informer down
\* and returns to Unavailable.
RemovalNoticed == FeedQuiet /\ crd = NoCRD => ~active

-----------------------------------------------------------------------------
(* Liveness.                                                               *)

\* Goroutines and the delivery of calls are scheduled, a running timer fires, and
\* a free worker takes a queued parent.  A source whose informer is synced gets to
\* add its event handler, even if another goroutine's RemoveInformer comes first
\* now and then.  Nothing is assumed of the CRD or of the informer for T, whose
\* LIST may hang for ever.
Startup == Start \/ MarkStarted \/ WaitForSync

Fairness ==
    /\ WF_vars(Startup)
    /\ WF_vars(Relist /\ phase # "new" /\ UNCHANGED watcherVars)
    /\ WF_vars(HandlerStep)
    /\ \A w \in Waiters : /\ WF_vars(WaiterStep(w))
                          /\ WF_vars(KindGetsInformer(w))
                          /\ SF_vars(KindSynced(w))
    /\ \A p \in Parents : WF_vars(ReconcileStep(p))

LiveSpec == Spec /\ Fairness

\* No goroutine of Ensure waits for ever, whatever happens to the CRD and to the
\* informer it waits for.
WaitersEnd == \A w \in Waiters : waiterPc[w] # "idle" ~> waiterPc[w] = "idle"

\* A CRD that stays away leaves no active watch behind.
RemovalTakesEffect == <>[](~Usable) => <>[](~active)

SyncsInTime == \A w \in Waiters : syncCtx[w] # "expired"

\* A CRD that stays usable is watched in the end without any caller's retry
\* logic, once no sync takes longer than syncTimeout, unless a reader's invalidation
\* was the last word on it or no parent's request has reached the queue.
InstallTakesEffect ==
    <>[](Usable /\ SyncsInTime) => <>[](active \/ ~crdExists \/ lost = Parents)
=============================================================================
