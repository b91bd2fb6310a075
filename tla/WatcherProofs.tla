--------------------------- MODULE WatcherProofs ---------------------------
(***************************************************************************)
(* Proofs about one Watcher, for any number of parents, waiters and CRD    *)
(* changes, with any of the faults.                                        *)
(***************************************************************************)
EXTENDS WatcherProperties, TLAPS

-----------------------------------------------------------------------------
(* The feed.                                                               *)

\* Every onCRDChange call is made with a CRD, whatever the notification.
LEMMA CallsForType ==
    ASSUME NEW old \in CRDObjects \cup {NoCRD}, NEW new \in CRDObjects \cup {NoCRD}
    PROVE  CallsFor(old, new) \in Seq(Calls)
<1>1. \A c \in CRDObjects, p \in Parts : Call(c, p) \in Calls
  BY DEF Call, Calls
<1>2. {"only", "old", "new"} = Parts
  BY DEF Parts
<1>3. CASE old = NoCRD \/ new = NoCRD
  BY <1>1, <1>2, <1>3 DEF CallsFor
<1>4. CASE old # NoCRD /\ new # NoCRD
  <2>1. Call(old, "old") \in Calls /\ Call(new, "new") \in Calls
    BY <1>1, <1>2, <1>4
  <2> QED BY <1>4, <2>1 DEF CallsFor
<1> QED BY <1>3, <1>4

\* A change of the CRD leaves the feed's variables well typed.
LEMMA ChangeType ==
    ASSUME FeedTypeOK, NEW new \in CRDObjects \cup {NoCRD}, Change(new)
    PROVE  FeedTypeOK'
<1>1. CallsFor(stored, new) \in Seq(Calls)
  BY CallsForType DEF FeedTypeOK
<1>2. calls \o CallsFor(stored, new) \in Seq(Calls)
  BY <1>1 DEF FeedTypeOK
<1>3. calls' \in Seq(Calls)
  BY <1>2 DEF FeedTypeOK, Change
<1> QED
  BY <1>3, FeedAssumption DEF FeedTypeOK, Change

\* So does every step of the feed.
LEMMA FeedStepType ==
    ASSUME FeedTypeOK, FeedStep \/ Relist
    PROVE  FeedTypeOK'
<1>1. CASE Install
  <2>1. [established |-> FALSE, deleting |-> FALSE] \in CRDObjects
    BY DEF CRDObjects
  <2> QED BY <1>1, <2>1, ChangeType DEF Install
<1>2. CASE SetEstablished
  <2>1. [crd EXCEPT !.established = ~crd.established] \in CRDObjects
    BY <1>2 DEF SetEstablished, FeedTypeOK, CRDObjects
  <2> QED BY <1>2, <2>1, ChangeType DEF SetEstablished
<1>3. CASE MarkDeleting
  <2>1. [crd EXCEPT !.deleting = TRUE] \in CRDObjects
    BY <1>3 DEF MarkDeleting, FeedTypeOK, CRDObjects
  <2> QED BY <1>3, <2>1, ChangeType DEF MarkDeleting
<1>4. CASE Finalize
  BY <1>4, ChangeType DEF Finalize
<1>5. CASE Disconnect
  <2>1. connected' \in BOOLEAN
    BY <1>5 DEF Disconnect
  <2>2. churn' \in 0 .. MaxChurn
    BY <1>5, FeedAssumption DEF Disconnect, FeedTypeOK
  <2> QED BY <1>5, <2>1, <2>2 DEF Disconnect, FeedTypeOK
<1>6. CASE Resync
  <2>1. CallsFor(stored, stored) \in Seq(Calls)
    BY CallsForType DEF FeedTypeOK
  <2> QED BY <1>6, <2>1, FeedAssumption DEF Resync, FeedTypeOK
<1>7. CASE Relist
  <2>1. CallsFor(stored, crd) \in Seq(Calls)
    BY CallsForType DEF FeedTypeOK
  <2> QED BY <1>7, <2>1 DEF Relist, FeedTypeOK
<1> QED
  BY <1>1, <1>2, <1>3, <1>4, <1>5, <1>6, <1>7 DEF FeedStep

-----------------------------------------------------------------------------
(* Types.                                                                  *)

\* The initial state is well typed.
LEMMA InitType == Init => TypeOK
<1> SUFFICES ASSUME Init PROVE TypeOK
  OBVIOUS
<1>1. FeedTypeOK
  <2>1. connected \in BOOLEAN
    BY DEF Init, FeedInit
  <2>2. calls \in Seq(Calls)
    BY DEF Init, FeedInit
  <2> QED
    BY <2>1, <2>2, FeedAssumption DEF Init, FeedInit, FeedTypeOK
<1>2. /\ watching \in BOOLEAN /\ active \in BOOLEAN /\ crdExists \in BOOLEAN
      /\ gauge \in BOOLEAN /\ wasReady \in BOOLEAN /\ reset \in BOOLEAN
      /\ crdSynced \in BOOLEAN /\ invalidated \in BOOLEAN
  BY DEF Init
<1> QED
  BY <1>1, <1>2 DEF Init, TypeOK

\* Where the handler goes and what it remembers of its requests.
LEMMA HandlerAtType ==
    ASSUME TypeOK, NEW pc \in {"idle", "remove", "gauge", "requeue"},
           NEW requests \in SUBSET Parents, HandlerAt(pc, requests)
    PROVE  /\ handlerPc' \in {"idle", "remove", "gauge", "requeue"}
           /\ requested' \subseteq Parents /\ crdSynced' \in BOOLEAN
<1>1. requested' \subseteq Parents
  BY DEF HandlerAt
<1>2. crdSynced' \in BOOLEAN
  BY DEF HandlerAt, TypeOK
<1> QED BY <1>1, <1>2 DEF HandlerAt

\* Whatever requeueAll returns, it is parents.
LEMMA ListedParents == \A listed \in Listed : listed \subseteq Parents
  BY DEF Listed

\* Every step keeps the state well typed.
LEMMA NextType == TypeOK /\ [Next]_vars => TypeOK'
<1> SUFFICES ASSUME TypeOK, [Next]_vars PROVE TypeOK'
  OBVIOUS
<1> USE DEF TypeOK
<1>1. CASE Start
  <2>1. FeedTypeOK' BY <1>1, FeedStepType DEF Start
  <2>2. crdSynced' \in BOOLEAN BY <1>1 DEF Start
  <2> QED BY <1>1, <2>1, <2>2 DEF Start, lockedVars, handlerVars, waiterVars,
     readerVars, queueVars, resetVars
<1>2. CASE MarkStarted
  BY <1>2 DEF MarkStarted, feedVars, FeedTypeOK, lockedVars, handlerVars, waiterVars,
     readerVars, queueVars, resetVars
<1>3. CASE WaitForSync
  BY <1>3 DEF WaitForSync, feedVars, FeedTypeOK, lockedVars, handlerVars, waiterVars,
     readerVars, queueVars, resetVars
<1>4. CASE Shutdown
  BY <1>4 DEF Shutdown, feedVars, FeedTypeOK, lockedVars, handlerVars, readerVars,
     queueVars, resetVars
<1>5. CASE FeedMoves
  <2>1. FeedTypeOK' BY <1>5, FeedStepType DEF FeedMoves
  <2> QED BY <1>5, <2>1 DEF FeedMoves, watcherVars, lockedVars, handlerVars,
     waiterVars, readerVars, queueVars, resetVars
<1>6. CASE OnCRDRemoved
  <2>1. calls' \in Seq(Calls)
    BY <1>6 DEF OnCRDRemoved, HandlerFree, FeedTypeOK
  <2>2. watching' \in BOOLEAN /\ active' \in BOOLEAN /\ crdExists' \in BOOLEAN
    BY <1>6 DEF OnCRDRemoved, TearDown
  <2>3. /\ handlerPc' \in {"idle", "remove", "gauge", "requeue"}
        /\ requested' \subseteq Parents /\ crdSynced' \in BOOLEAN
    BY <1>6, HandlerAtType DEF OnCRDRemoved
  <2> QED
    BY <1>6, <2>1, <2>2, <2>3 DEF OnCRDRemoved, TearDown, CancelSyncWaiter, FeedTypeOK,
       readerVars, queueVars, resetVars
<1>7. CASE OnCRDAppeared
  <2>1. calls' \in Seq(Calls)
    BY <1>7 DEF OnCRDAppeared, HandlerFree, FeedTypeOK
  <2>2. /\ handlerPc' \in {"idle", "remove", "gauge", "requeue"}
        /\ requested' \subseteq Parents /\ crdSynced' \in BOOLEAN
    BY <1>7, HandlerAtType DEF OnCRDAppeared
  <2> QED
    BY <1>7, <2>1, <2>2 DEF OnCRDAppeared, FeedTypeOK, waiterVars, readerVars,
       queueVars, resetVars
<1>8. CASE HandlerRemovesInformer
  <2>1. /\ handlerPc' \in {"idle", "remove", "gauge", "requeue"}
        /\ requested' \subseteq Parents /\ crdSynced' \in BOOLEAN
    BY <1>8, HandlerAtType DEF HandlerRemovesInformer
  <2> QED
    BY <1>8, <2>1 DEF HandlerRemovesInformer, RemoveInformer, feedVars, FeedTypeOK,
       lockedVars, readerVars, queueVars, resetVars
<1>9. CASE HandlerClearsGauge
  <2>1. gauge' \in BOOLEAN BY <1>9 DEF HandlerClearsGauge
  <2>2. /\ handlerPc' \in {"idle", "remove", "gauge", "requeue"}
        /\ requested' \subseteq Parents /\ crdSynced' \in BOOLEAN
    BY <1>9, HandlerAtType DEF HandlerClearsGauge
  <2> QED
    BY <1>9, <2>1, <2>2 DEF HandlerClearsGauge, feedVars, FeedTypeOK, lockedVars,
       waiterVars, readerVars, queueVars, resetVars
<1>10. CASE HandlerRequeues
  <2>1. wasReady' \in BOOLEAN BY <1>10 DEF HandlerRequeues
  <2>2. /\ handlerPc' \in {"idle", "remove", "gauge", "requeue"}
        /\ requested' \subseteq Parents /\ crdSynced' \in BOOLEAN
        /\ queue' \subseteq Parents /\ lost' \subseteq Parents
    <3>1. PICK listed \in Listed : /\ Adds(listed \ requested)
                                   /\ HandlerAt("idle", requested \cup listed)
      BY <1>10 DEF HandlerRequeues
    <3>2. listed \subseteq Parents
      BY ListedParents
    <3>3. requested \cup listed \in SUBSET Parents
      BY <3>2
    <3>4. queue' \subseteq Parents /\ lost' \subseteq Parents
      BY <3>1, <3>2 DEF Adds
    <3> QED BY <3>1, <3>3, <3>4, HandlerAtType
  <2> QED
    BY <1>10, <2>1, <2>2 DEF HandlerRequeues, feedVars, FeedTypeOK, lockedVars,
       waiterVars, readerVars, queueVars, resetVars
<1>11. CASE InformerSyncs
  BY <1>11 DEF InformerSyncs, feedVars, FeedTypeOK, lockedVars, handlerVars,
     waiterVars, readerVars, queueVars, resetVars
<1>12. ASSUME NEW w \in Waiters, KindStep(w) \/ WaiterStep(w)
       PROVE  TypeOK'
  <2> USE DEF feedVars, FeedTypeOK, lockedVars, handlerVars, readerVars, queueVars,
     resetVars
  <2>1. CASE KindGetsInformer(w) BY <2>1 DEF KindGetsInformer
  <2>2. CASE KindSynced(w) BY <2>2 DEF KindSynced
  <2>3. CASE SyncTimeout(w) BY <2>3 DEF SyncTimeout
  <2>4. CASE Promote(w)
    <3>1. reset' \in BOOLEAN BY <2>4 DEF Promote
    <3> QED BY <2>4, <3>1 DEF Promote, EndWait
  <2>5. CASE StaleWaiterEnds(w) BY <2>5 DEF StaleWaiterEnds, EndWait
  <2>6. CASE SyncFails(w)
    <3>1. watching' \in BOOLEAN BY <2>6 DEF SyncFails
    <3> QED BY <2>6, <3>1 DEF SyncFails, EndWait
  <2>7. CASE FailedWaiterRemovesInformer(w)
    BY <2>7 DEF FailedWaiterRemovesInformer, RemoveInformer
  <2>8. CASE WaiterRequeues(w) BY <2>8, ListedParents DEF WaiterRequeues, Adds
  <2> QED
    BY <1>12, <2>1, <2>2, <2>3, <2>4, <2>5, <2>6, <2>7, <2>8 DEF KindStep, WaiterStep
<1>13. ASSUME NEW p \in Parents, Enqueue(p) \/ ReconcileStep(p)
       PROVE  TypeOK'
  <2> USE DEF feedVars, FeedTypeOK, lockedVars, handlerVars, readerVars, queueVars,
     resetVars
  <2>1. CASE Enqueue(p) BY <2>1 DEF Enqueue, waiterVars
  <2>2. CASE EnsureActive(p) BY <2>2 DEF EnsureActive, Dequeue, waiterVars
  <2>3. CASE EnsureUnavailable(p) BY <2>3 DEF EnsureUnavailable, Dequeue, waiterVars
  <2>4. ASSUME NEW w \in Waiters, EnsureRegisters(p, w) PROVE TypeOK'
    BY <2>4 DEF EnsureRegisters, Dequeue
  <2>5. CASE CacheRead(p) BY <2>5 DEF CacheRead, waiterVars
  <2>6. CASE HandleCacheInvalidated(p)
    <3>1. /\ watching' \in BOOLEAN /\ active' \in BOOLEAN
          /\ crdExists' \in BOOLEAN /\ gauge' \in BOOLEAN
          /\ reset' \in BOOLEAN /\ invalidated' \in BOOLEAN
      BY <2>6 DEF HandleCacheInvalidated, TearDown
    <3> QED
      BY <2>6, <3>1 DEF HandleCacheInvalidated, TearDown, CancelSyncWaiter
  <2> QED
    BY <1>13, <2>1, <2>2, <2>3, <2>4, <2>5, <2>6 DEF ReconcileStep
<1>14. CASE UNCHANGED vars
  BY <1>14 DEF vars, watcherVars, feedVars, FeedTypeOK, lockedVars, handlerVars,
     waiterVars, readerVars, queueVars, resetVars
<1> QED
  BY <1>1, <1>2, <1>3, <1>4, <1>5, <1>6, <1>7, <1>8, <1>9, <1>10, <1>11, <1>12,
     <1>13, <1>14 DEF Next, HandlerStep

\* Every value a watcher reaches has its type: in particular generation stays a
\* natural number and every call is about a CRD.
THEOREM TypeCorrect == Spec => []TypeOK
<1> QED
  BY InitType, NextType, PTL DEF Spec

-----------------------------------------------------------------------------
(* The inductive invariant.                                                *)

\* The initial state satisfies it.
LEMMA InitInv == Init => IInv
<1> SUFFICES ASSUME Init PROVE IInv
  OBVIOUS
<1>1. TypeOK
  BY InitType
<1>2. LockedState /\ NoWatchBeforeWorkers
  BY WatcherAssumption DEF Init, LockedState, NoWatchBeforeWorkers
<1>3. Generations
  BY WatcherAssumption DEF Init, Generations, WaitsForThisSync
<1>4. CancelledIsStale /\ TearDownKeepsCRDUnknown /\ GaugeTracksActive
  BY DEF Init, CancelledIsStale, TearDownKeepsCRDUnknown, GaugeTracksActive, TearingDown
<1> QED
  BY <1>1, <1>2, <1>3, <1>4 DEF IInv

\* No step goes back to a phase before the workers.
LEMMA PhaseAdvances ==
    ASSUME [Next]_vars, phase' \in {"new", "starting", "started"}
    PROVE  phase \in {"new", "starting", "started"}
  BY DEF Next, vars, watcherVars, Start, MarkStarted, WaitForSync, Shutdown, FeedMoves,
     HandlerStep, OnCRDRemoved, OnCRDAppeared, HandlerRemovesInformer,
     HandlerClearsGauge, HandlerRequeues, InformerSyncs, KindStep, KindGetsInformer,
     KindSynced, WaiterStep, SyncTimeout, Promote, StaleWaiterEnds, SyncFails,
     FailedWaiterRemovesInformer, WaiterRequeues, Enqueue, ReconcileStep,
     EnsureActive, EnsureUnavailable, EnsureRegisters, CacheRead,
     HandleCacheInvalidated

\* Only workers call TryGet and TryList, and only Ensure sets watching.
LEMMA OnlyWorkersWatch ==
    ASSUME TypeOK, NoWatchBeforeWorkers, [Next]_vars
    PROVE  NoWatchBeforeWorkers'
<1>0. ASSUME phase' \in {"new", "starting", "started"}
      PROVE  phase \in {"new", "starting", "started"}
  BY <1>0, PhaseAdvances
<1> SUFFICES ASSUME phase' \in {"new", "starting", "started"}
             PROVE  ~watching' /\ reconcilePc' = reconcilePc
  BY <1>0 DEF NoWatchBeforeWorkers
<1>1. /\ phase \in {"new", "starting", "started"} /\ ~watching
      /\ \A p \in Parents : reconcilePc[p] = "idle"
  BY <1>0 DEF NoWatchBeforeWorkers
<1>2. ASSUME NEW p \in Parents, Enqueue(p) \/ ReconcileStep(p)
      PROVE  ~watching' /\ reconcilePc' = reconcilePc
  BY <1>1, <1>2 DEF Enqueue, ReconcileStep, EnsureActive, EnsureUnavailable,
     EnsureRegisters, Dequeue, CacheRead, HandleCacheInvalidated, lockedVars, readerVars
<1>3. CASE \E w \in Waiters : KindStep(w) \/ WaiterStep(w)
  BY <1>1, <1>3 DEF KindStep, KindGetsInformer, KindSynced, WaiterStep, SyncTimeout,
     Promote, StaleWaiterEnds, SyncFails, FailedWaiterRemovesInformer, WaiterRequeues,
     lockedVars, readerVars
<1>4. CASE HandlerStep
  BY <1>1, <1>4 DEF HandlerStep, OnCRDRemoved, TearDown, OnCRDAppeared,
     HandlerRemovesInformer, HandlerClearsGauge, HandlerRequeues, lockedVars, readerVars
<1>5. CASE \/ Start \/ MarkStarted \/ WaitForSync \/ Shutdown \/ FeedMoves
           \/ InformerSyncs \/ UNCHANGED vars
  BY <1>1, <1>5 DEF Start, MarkStarted, WaitForSync, Shutdown, FeedMoves, InformerSyncs,
     vars, watcherVars, lockedVars, readerVars
<1> QED BY <1>2, <1>3, <1>4, <1>5 DEF Next

\* A step that leaves the watcher's own state alone keeps it; this covers what the
\* feed, the object cache and the readers do by themselves.
LEMMA FrameInv ==
    ASSUME IInv, TypeOK', NoWatchBeforeWorkers',
           UNCHANGED <<phase, lockedVars, gauge, handlerVars, waiterPc, waiterGen, syncCtx>>
    PROVE  IInv'
  BY DEF IInv, lockedVars, handlerVars, LockedState, Generations, WaitsForThisSync,
     CancelledIsStale, TearDownKeepsCRDUnknown, TearingDown, GaugeTracksActive

\* The critical section that onCRDChange and handleCacheInvalidated share leaves
\* no waiter of the new generation, and every waiter it cancels stale.
LEMMA TearDownInv ==
    ASSUME IInv, TypeOK', TearDown, UNCHANGED <<phase, waiterPc, waiterGen>>
    PROVE  /\ LockedState'
           /\ Generations'
           /\ CancelledIsStale'
           /\ ~active' /\ ~crdExists'
<1>1. ~active' /\ ~crdExists' /\ ~watching'
  BY DEF TearDown
<1>2. cancelSyncWaiter' = NoWaiter /\ generation' = generation + 1
  BY DEF TearDown
<1>3. LockedState'
  BY <1>1, <1>2 DEF LockedState
<1>4. \A w \in Waiters : waiterGen[w] \in Nat /\ waiterGen[w] <= generation
  BY DEF IInv, TypeOK, Generations
<1>5. generation \in Nat
  BY DEF IInv, TypeOK
<1>6. Generations'
  BY <1>2, <1>4, <1>5, WatcherAssumption DEF Generations, WaitsForThisSync
<1>7. CancelledIsStale'
  BY <1>2, <1>4, <1>5 DEF CancelledIsStale
<1> QED
  BY <1>1, <1>3, <1>6, <1>7

\* A waiter that gets past the generation check is the one cancelSyncWaiter
\* cancels, of a sync that is under way; the check is exact.
LEMMA CurrentWaiter ==
    ASSUME IInv, NEW w \in Waiters, waiterPc[w] = "waiting", Current(w)
    PROVE  /\ cancelSyncWaiter = w
           /\ watching /\ ~active /\ crdExists
           /\ \A v \in Waiters : WaitsForThisSync(v) => v = w
<1>1. WaitsForThisSync(w)
  BY DEF Current, WaitsForThisSync
<1>2. cancelSyncWaiter = w
  BY <1>1 DEF IInv, Generations
<1>3. cancelSyncWaiter # NoWaiter
  BY <1>2, WatcherAssumption
<1> QED
  BY <1>2, <1>3 DEF IInv, LockedState, Generations

\* Steps of onCRDChange.
LEMMA HandlerInv ==
    ASSUME IInv, TypeOK', NoWatchBeforeWorkers', HandlerStep
    PROVE  IInv'
<1> USE DEF IInv, TearingDown
<1>1. CASE OnCRDRemoved
  <2>1. TearDown /\ UNCHANGED <<phase, waiterPc, waiterGen, gauge>>
    BY <1>1 DEF OnCRDRemoved
  <2>2. LockedState' /\ Generations' /\ CancelledIsStale' /\ ~active' /\ ~crdExists'
    BY <2>1, TearDownInv
  <2>3. TearDownKeepsCRDUnknown'
    BY <2>2 DEF TearDownKeepsCRDUnknown
  <2>4. gauge = active
    BY <1>1 DEF OnCRDRemoved, HandlerFree, GaugeTracksActive
  <2>5. active => wasReady' /\ handlerPc' = "remove"
    BY <1>1 DEF OnCRDRemoved, HandlerAt, LockedState
  <2>6. GaugeTracksActive'
    BY <2>1, <2>2, <2>4, <2>5 DEF GaugeTracksActive, TypeOK
  <2> QED BY <2>2, <2>3, <2>6
<1>2. CASE OnCRDAppeared
  <2>1. UNCHANGED <<phase, watching, active, generation, cancelSyncWaiter, gauge,
                    wasReady, waiterPc, waiterGen, syncCtx>> /\ crdExists'
    BY <1>2 DEF OnCRDAppeared, waiterVars
  <2>2. handlerPc = "idle" /\ handlerPc' \in {"idle", "requeue"}
    BY <1>2 DEF OnCRDAppeared, HandlerFree, HandlerAt
  <2>3. LockedState' /\ Generations' /\ CancelledIsStale'
    BY <2>1 DEF LockedState, Generations, CancelledIsStale, WaitsForThisSync
  <2>4. TearDownKeepsCRDUnknown' /\ GaugeTracksActive'
    BY <2>1, <2>2 DEF TearDownKeepsCRDUnknown, GaugeTracksActive
  <2> QED BY <2>3, <2>4
<1>3. CASE HandlerRemovesInformer
  <2>1. UNCHANGED <<phase, lockedVars, gauge, wasReady, waiterPc, waiterGen, syncCtx>>
    BY <1>3 DEF HandlerRemovesInformer
  <2>2. LockedState' /\ Generations' /\ CancelledIsStale'
    BY <2>1 DEF lockedVars, LockedState, Generations, CancelledIsStale, WaitsForThisSync
  <2>3. TearingDown /\ ~crdExists'
    BY <1>3, <2>1 DEF HandlerRemovesInformer, TearDownKeepsCRDUnknown, lockedVars
  <2>4. wasReady => handlerPc' = "gauge"
    BY <1>3 DEF HandlerRemovesInformer, HandlerAt
  <2>5. GaugeTracksActive'
    BY <2>1, <2>4 DEF GaugeTracksActive, lockedVars
  <2> QED BY <2>2, <2>3, <2>5 DEF TearDownKeepsCRDUnknown
<1>4. CASE HandlerClearsGauge
  <2>1. UNCHANGED <<phase, lockedVars, waiterPc, waiterGen, syncCtx>>
    BY <1>4 DEF HandlerClearsGauge, waiterVars
  <2>2. LockedState' /\ Generations' /\ CancelledIsStale'
    BY <2>1 DEF lockedVars, LockedState, Generations, CancelledIsStale, WaitsForThisSync
  <2>3. handlerPc = "gauge" /\ handlerPc' = "requeue" /\ ~gauge'
    BY <1>4 DEF HandlerClearsGauge, HandlerAt
  <2>4. ~active'
    BY <2>1, <2>3 DEF TearDownKeepsCRDUnknown, LockedState, lockedVars
  <2>5. TearDownKeepsCRDUnknown' /\ GaugeTracksActive'
    BY <2>3, <2>4 DEF TearDownKeepsCRDUnknown, GaugeTracksActive, TypeOK
  <2> QED BY <2>2, <2>5
<1>5. CASE HandlerRequeues
  <2>1. UNCHANGED <<phase, lockedVars, gauge, waiterPc, waiterGen, syncCtx>>
    BY <1>5 DEF HandlerRequeues, waiterVars
  <2>2. LockedState' /\ Generations' /\ CancelledIsStale'
    BY <2>1 DEF lockedVars, LockedState, Generations, CancelledIsStale, WaitsForThisSync
  <2>3. handlerPc = "requeue" /\ handlerPc' = "idle"
    BY <1>5 DEF HandlerRequeues, HandlerAt
  <2>4. TearDownKeepsCRDUnknown' /\ GaugeTracksActive'
    BY <2>1, <2>3 DEF TearDownKeepsCRDUnknown, GaugeTracksActive, lockedVars
  <2> QED BY <2>2, <2>4
<1> QED
  BY <1>1, <1>2, <1>3, <1>4, <1>5 DEF HandlerStep

\* Steps of a goroutine of Ensure and of the source it waits for.
LEMMA WaiterInv ==
    ASSUME IInv, TypeOK', NoWatchBeforeWorkers', NEW w \in Waiters, KindStep(w) \/ WaiterStep(w)
    PROVE  IInv'
<1> USE DEF IInv, TearingDown
<1>1. CASE KindStep(w)
  BY <1>1, FrameInv DEF KindStep, KindGetsInformer, KindSynced
<1>2. CASE SyncTimeout(w)
  <2>1. UNCHANGED <<phase, lockedVars, gauge, handlerVars, waiterPc, waiterGen>>
    BY <1>2 DEF SyncTimeout
  <2>2. \A v \in Waiters : syncCtx'[v] = "cancelled" => syncCtx[v] = "cancelled"
    BY <1>2 DEF SyncTimeout, TypeOK
  <2> QED
    BY <2>1, <2>2 DEF lockedVars, handlerVars, LockedState, Generations,
       WaitsForThisSync, CancelledIsStale, TearDownKeepsCRDUnknown, GaugeTracksActive
<1>3. ASSUME waiterPc[w] = "waiting", waiterPc'[w] # "waiting", EndWait(w),
             waiterPc' = [waiterPc EXCEPT ![w] = waiterPc'[w]],
             UNCHANGED <<phase, generation>>
      PROVE  /\ \A v \in Waiters : waiterGen'[v] <= generation'
             /\ \A v \in Waiters : WaitsForThisSync(v)' <=> v # w /\ WaitsForThisSync(v)
             /\ CancelledIsStale'
  BY <1>3 DEF EndWait, Generations, WaitsForThisSync, CancelledIsStale, TypeOK
<1>4. CASE Promote(w)
  <2>1. waiterPc[w] = "waiting" /\ Current(w)
    BY <1>4 DEF Promote, WaitReturnsNil
  <2>2. /\ cancelSyncWaiter = w /\ watching /\ ~active /\ crdExists
        /\ \A v \in Waiters : WaitsForThisSync(v) => v = w
    BY <2>1, CurrentWaiter
  <2>3. /\ active' /\ gauge' /\ cancelSyncWaiter' = NoWaiter
        /\ UNCHANGED <<phase, watching, crdExists, generation, handlerPc>>
    BY <1>4 DEF Promote, handlerVars
  <2>4. /\ \A v \in Waiters : waiterGen'[v] <= generation'
        /\ \A v \in Waiters : WaitsForThisSync(v)' <=> v # w /\ WaitsForThisSync(v)
        /\ CancelledIsStale'
    BY <1>3, <1>4, <2>1, <2>3 DEF Promote, TypeOK
  <2>5. LockedState' /\ TearDownKeepsCRDUnknown' /\ GaugeTracksActive'
    BY <2>2, <2>3 DEF LockedState, TearDownKeepsCRDUnknown, GaugeTracksActive, TypeOK
  <2>6. Generations'
    BY <2>2, <2>3, <2>4, WatcherAssumption DEF Generations
  <2> QED BY <2>4, <2>5, <2>6
<1>5. CASE StaleWaiterEnds(w)
  <2>1. waiterPc[w] = "waiting" /\ ~WaitsForThisSync(w)
    BY <1>5 DEF StaleWaiterEnds, WaitReturnsNil, WaitReturnsError, Current,
       WaitsForThisSync
  <2>2. UNCHANGED <<phase, lockedVars, gauge, handlerVars>>
    BY <1>5 DEF StaleWaiterEnds
  <2>3. /\ \A v \in Waiters : waiterGen'[v] <= generation'
        /\ \A v \in Waiters : WaitsForThisSync(v)' <=> v # w /\ WaitsForThisSync(v)
        /\ CancelledIsStale'
    BY <1>3, <1>5, <2>1, <2>2 DEF StaleWaiterEnds, TypeOK, lockedVars
  <2>4. Generations'
    BY <2>1, <2>2, <2>3 DEF Generations, lockedVars
  <2> QED
    BY <2>2, <2>3, <2>4 DEF LockedState, TearDownKeepsCRDUnknown, GaugeTracksActive,
       lockedVars, handlerVars
<1>6. CASE SyncFails(w)
  <2>1. waiterPc[w] = "waiting" /\ Current(w)
    BY <1>6 DEF SyncFails, WaitReturnsError
  <2>2. /\ cancelSyncWaiter = w /\ watching /\ ~active /\ crdExists
        /\ \A v \in Waiters : WaitsForThisSync(v) => v = w
    BY <2>1, CurrentWaiter
  <2>3. /\ ~watching' /\ cancelSyncWaiter' = NoWaiter
        /\ UNCHANGED <<phase, active, crdExists, generation, gauge, handlerVars>>
    BY <1>6 DEF SyncFails
  <2>4. /\ \A v \in Waiters : waiterGen'[v] <= generation'
        /\ \A v \in Waiters : WaitsForThisSync(v)' <=> v # w /\ WaitsForThisSync(v)
        /\ CancelledIsStale'
    BY <1>3, <1>6, <2>1, <2>3 DEF SyncFails, TypeOK
  <2>5. LockedState' /\ TearDownKeepsCRDUnknown' /\ GaugeTracksActive'
    BY <2>2, <2>3 DEF LockedState, TearDownKeepsCRDUnknown, GaugeTracksActive, handlerVars
  <2>6. Generations'
    BY <2>2, <2>3, <2>4, WatcherAssumption DEF Generations
  <2> QED BY <2>4, <2>5, <2>6
<1>7. CASE FailedWaiterRemovesInformer(w) \/ WaiterRequeues(w)
  <2>1. UNCHANGED <<phase, lockedVars, gauge, handlerVars, waiterGen, syncCtx>>
    BY <1>7 DEF FailedWaiterRemovesInformer, WaiterRequeues
  <2>2. \A v \in Waiters : waiterPc'[v] = "waiting" <=> waiterPc[v] = "waiting"
    BY <1>7 DEF FailedWaiterRemovesInformer, WaiterRequeues, TypeOK
  <2> QED
    BY <2>1, <2>2 DEF lockedVars, handlerVars, LockedState, Generations,
       WaitsForThisSync, CancelledIsStale, TearDownKeepsCRDUnknown, GaugeTracksActive
<1> QED
  BY <1>1, <1>2, <1>4, <1>5, <1>6, <1>7 DEF WaiterStep

\* Steps of a reconcile.
LEMMA ReconcileInv ==
    ASSUME IInv, TypeOK', NoWatchBeforeWorkers', NEW p \in Parents, Enqueue(p) \/ ReconcileStep(p)
    PROVE  IInv'
<1> USE DEF IInv, TearingDown
<1>1. CASE Enqueue(p) \/ EnsureActive(p) \/ EnsureUnavailable(p) \/ CacheRead(p)
  BY <1>1, FrameInv DEF Enqueue, EnsureActive, EnsureUnavailable, CacheRead, waiterVars
<1>2. ASSUME NEW w \in Waiters, EnsureRegisters(p, w)
      PROVE  IInv'
  <2>1. /\ ~active /\ crdExists /\ ~watching /\ waiterPc[w] = "idle"
        /\ watching' /\ cancelSyncWaiter' = w
        /\ UNCHANGED <<phase, active, crdExists, generation, gauge, handlerVars>>
    BY <1>2 DEF EnsureRegisters
  <2>2. \A v \in Waiters : ~WaitsForThisSync(v)
    BY <2>1, WatcherAssumption DEF LockedState, Generations
  <2>3. /\ waiterPc' = [waiterPc EXCEPT ![w] = "waiting"]
        /\ waiterGen' = [waiterGen EXCEPT ![w] = generation]
    BY <1>2 DEF EnsureRegisters
  <2>4. Generations'
    BY <2>1, <2>2, <2>3 DEF Generations, WaitsForThisSync, TypeOK
  <2>5. cancelSyncWaiter = NoWaiter
    BY <2>1 DEF LockedState
  <2>6. \A v \in Waiters : syncCtx'[v] = IF v = w THEN "live" ELSE syncCtx[v]
    BY <1>2, <2>5, WatcherAssumption DEF EnsureRegisters
  <2>7. CancelledIsStale'
    BY <2>1, <2>3, <2>6 DEF CancelledIsStale, TypeOK
  <2>8. LockedState' /\ TearDownKeepsCRDUnknown' /\ GaugeTracksActive'
    BY <2>1, WatcherAssumption DEF LockedState, TearDownKeepsCRDUnknown,
       GaugeTracksActive, handlerVars
  <2> QED BY <2>4, <2>7, <2>8
<1>3. CASE HandleCacheInvalidated(p)
  <2>1. TearDown /\ UNCHANGED <<phase, waiterPc, waiterGen, handlerVars>> /\ ~gauge'
    BY <1>3 DEF HandleCacheInvalidated
  <2>2. LockedState' /\ Generations' /\ CancelledIsStale' /\ ~active' /\ ~crdExists'
    BY <2>1, TearDownInv
  <2>3. TearDownKeepsCRDUnknown' /\ GaugeTracksActive'
    BY <2>1, <2>2 DEF TearDownKeepsCRDUnknown, GaugeTracksActive, TypeOK
  <2> QED BY <2>2, <2>3
<1> QED
  BY <1>1, <1>2, <1>3 DEF ReconcileStep

\* Every step preserves the invariant.
LEMMA NextInv == IInv /\ [Next]_vars => IInv'
<1> SUFFICES ASSUME IInv, [Next]_vars PROVE IInv'
  OBVIOUS
<1>0. TypeOK' /\ NoWatchBeforeWorkers'
  BY NextType, OnlyWorkersWatch DEF IInv
<1>1. CASE Start \/ MarkStarted \/ WaitForSync
  <2>1. UNCHANGED <<lockedVars, gauge, handlerPc, wasReady, waiterVars>>
        /\ phase # "stopped"
    BY <1>1 DEF Start, MarkStarted, WaitForSync, handlerVars
  <2> QED
    BY <1>0, <2>1 DEF IInv, lockedVars, handlerVars, waiterVars, LockedState, Generations,
       WaitsForThisSync, CancelledIsStale, TearDownKeepsCRDUnknown, TearingDown,
       GaugeTracksActive
<1>2. CASE Shutdown
  <2>1. UNCHANGED <<lockedVars, gauge, handlerVars, waiterPc, waiterGen>> /\ phase' = "stopped"
    BY <1>2 DEF Shutdown
  <2> QED
    BY <1>0, <2>1 DEF IInv, lockedVars, handlerVars, LockedState, Generations,
       WaitsForThisSync, CancelledIsStale, TearDownKeepsCRDUnknown, TearingDown,
       GaugeTracksActive
<1>3. CASE FeedMoves \/ InformerSyncs \/ UNCHANGED vars
  BY <1>0, <1>3, FrameInv DEF FeedMoves, InformerSyncs, vars, watcherVars, waiterVars
<1>4. CASE HandlerStep
  BY <1>0, <1>4, HandlerInv
<1>5. ASSUME NEW w \in Waiters, KindStep(w) \/ WaiterStep(w) PROVE IInv'
  BY <1>0, <1>5, WaiterInv
<1>6. ASSUME NEW p \in Parents, Enqueue(p) \/ ReconcileStep(p) PROVE IInv'
  BY <1>0, <1>6, ReconcileInv
<1> QED
  BY <1>1, <1>2, <1>3, <1>4, <1>5, <1>6 DEF Next

\* The invariant holds in every state of every run.
THEOREM Invariant == Spec => []IInv
<1> QED
  BY InitInv, NextInv, PTL DEF Spec

-----------------------------------------------------------------------------
(* What follows from it.                                                   *)

\* A sync under way has exactly one goroutine that can end it, and without one
\* none can promote the watcher.
THEOREM SyncHasItsOnlyWaiterHolds == Spec => []SyncHasItsOnlyWaiter
<1>1. IInv => SyncHasItsOnlyWaiter
  <2> SUFFICES ASSUME IInv PROVE SyncHasItsOnlyWaiter
    OBVIOUS
  <2>1. \A w \in Waiters : WaitsForThisSync(w) <=> w = cancelSyncWaiter
    BY DEF IInv, Generations
  <2>2. CASE watching /\ ~active
    <3>1. cancelSyncWaiter \in Waiters
      BY <2>2 DEF IInv, LockedState, TypeOK
    <3> QED BY <2>1, <2>2, <3>1 DEF SyncHasItsOnlyWaiter
  <2>3. CASE ~(watching /\ ~active)
    <3>1. cancelSyncWaiter = NoWaiter
      BY <2>3 DEF IInv, LockedState
    <3> QED BY <2>1, <2>3, <3>1, WatcherAssumption DEF SyncHasItsOnlyWaiter
  <2> QED BY <2>2, <2>3
<1> QED
  BY <1>1, Invariant, PTL

\* The gauge written outside the mutex never stays wrong.
THEOREM GaugeTracksActiveHolds == Spec => []GaugeTracksActive
<1>1. IInv => GaugeTracksActive
  BY DEF IInv
<1> QED
  BY <1>1, Invariant, PTL

\* A wait that was cancelled never promotes the watcher, except at shutdown.
THEOREM PromotionsAreSyncedHolds == Spec => PromotionsAreSynced
<1> DEFINE Synced ==
      \A w \in Waiters :
          waiterPc[w] = "waiting" /\ active' /\ ~active /\ waiterPc'[w] = "requeue"
              => kind[w] = "ready" \/ phase = "stopped"
<1>1. IInv /\ Next => Synced
  <2> SUFFICES ASSUME IInv, Next, NEW w \in Waiters,
                      waiterPc[w] = "waiting", active', ~active
               PROVE  kind[w] = "ready" \/ phase = "stopped" \/ waiterPc'[w] # "requeue"
    OBVIOUS
  <2>1. PICK v \in Waiters : Promote(v)
    BY DEF Next, Start, MarkStarted, WaitForSync, Shutdown, FeedMoves, HandlerStep,
       OnCRDRemoved, OnCRDAppeared, HandlerRemovesInformer, HandlerClearsGauge,
       HandlerRequeues, InformerSyncs, KindStep, KindGetsInformer, KindSynced,
       WaiterStep, SyncTimeout, StaleWaiterEnds, SyncFails,
       FailedWaiterRemovesInformer, WaiterRequeues, Enqueue, ReconcileStep,
       EnsureActive, EnsureUnavailable, EnsureRegisters, CacheRead,
       HandleCacheInvalidated, TearDown, lockedVars, watcherVars
  <2>2. CASE v # w
    BY <2>1, <2>2 DEF Promote, IInv, TypeOK
  <2>3. CASE v = w
    BY <2>1, <2>3 DEF Promote, WaitReturnsNil, Current, IInv, CancelledIsStale, TypeOK
  <2> QED BY <2>2, <2>3
<1>2. IInv /\ UNCHANGED vars => Synced
  BY DEF vars, watcherVars, lockedVars
<1>3. IInv /\ [Next]_vars => [Synced]_vars
  BY <1>1, <1>2
<1> QED
  BY <1>3, Invariant, PTL DEF Spec, PromotionsAreSynced

\* No watch loses its informer to the end of the one before it: from the critical
\* section of onCRDChange to its RemoveInformer no reconcile can register.
THEOREM WatchKeepsInformerHolds == Spec => WatchKeepsInformer
<1> DEFINE Kept ==
      /\ active \/ \E w \in Waiters : WaitsForThisSync(w) /\ kind[w] = "ready"
      /\ informer = "synced" /\ informer' # "synced"
      => \E w \in Waiters : FailedWaiterRemovesInformer(w)
<1>1. IInv /\ Next => Kept
  <2> SUFFICES ASSUME IInv, Next,
                      active \/ \E w \in Waiters : WaitsForThisSync(w) /\ kind[w] = "ready",
                      informer = "synced", informer' # "synced"
               PROVE  \E w \in Waiters : FailedWaiterRemovesInformer(w)
    OBVIOUS
  <2>1. HandlerRemovesInformer \/ \E w \in Waiters : FailedWaiterRemovesInformer(w)
    BY DEF Next, Start, MarkStarted, WaitForSync, Shutdown, FeedMoves, HandlerStep,
       OnCRDRemoved, OnCRDAppeared, HandlerClearsGauge, HandlerRequeues, InformerSyncs,
       KindStep, KindGetsInformer, KindSynced, WaiterStep, SyncTimeout, Promote,
       StaleWaiterEnds, SyncFails, WaiterRequeues, Enqueue, ReconcileStep, EnsureActive,
       EnsureUnavailable, EnsureRegisters, CacheRead, HandleCacheInvalidated, watcherVars
  <2>2. watching
    <3>1. CASE active
      BY <3>1 DEF IInv, LockedState
    <3>2. ASSUME NEW w \in Waiters, WaitsForThisSync(w)
          PROVE  watching
      BY <3>2, CurrentWaiter DEF WaitsForThisSync, Current
    <3> QED BY <3>1, <3>2
  <2>3. ~HandlerRemovesInformer
    BY <2>2 DEF HandlerRemovesInformer, IInv, LockedState, TearDownKeepsCRDUnknown,
       TearingDown
  <2> QED BY <2>1, <2>3
<1>2. IInv /\ UNCHANGED vars => Kept
  BY DEF vars, watcherVars
<1>3. IInv /\ [Next]_vars => [Kept]_vars
  BY <1>1, <1>2
<1> QED
  BY <1>3, Invariant, PTL DEF Spec, WatchKeepsInformer

=============================================================================
