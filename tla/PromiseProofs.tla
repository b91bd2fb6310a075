--------------------------- MODULE PromiseProofs ---------------------------
(***************************************************************************)
(* What the documents promise of a watcher and the code does not keep in   *)
(* every case: proofs that it does keep it in the others.  A hypothesis of *)
(* the form [](...) singles out the behaviours that stay clear of the one  *)
(* interleaving a run finds.                                               *)
(***************************************************************************)
EXTENDS FlagProofs

-----------------------------------------------------------------------------
(* Readable.                                                               *)

\* No sync of the present generation times out or loses its informer.
NoSyncFails == \A w \in Waiters : waiterPc[w] # "failed"

\* An active watch, and one that can be promoted, has its informer.
ReadableWhenSynced ==
    /\ phase # "stopped"
    /\ active \/ \E w \in Waiters : WaitsForThisSync(w) /\ kind[w] = "ready"
    => informer = "synced"

\* What a step leaves alone.
LEMMA ReadableFrame ==
    ASSUME ReadableWhenSynced, UNCHANGED <<active, generation, informer>>,
           phase' # "stopped" => phase # "stopped",
           \A w \in Waiters : WaitsForThisSync(w)' /\ kind'[w] = "ready" =>
              WaitsForThisSync(w) /\ kind[w] = "ready"
    PROVE  ReadableWhenSynced'
  BY DEF ReadableWhenSynced

LEMMA ReadableHandler ==
    ASSUME IInv, NoSyncFails, ReadableWhenSynced, HandlerStep
    PROVE  ReadableWhenSynced'
<1>1. CASE OnCRDRemoved
  <2>1. /\ ~active' /\ generation' = generation + 1
        /\ UNCHANGED <<waiterPc, waiterGen, kind>>
    BY <1>1 DEF OnCRDRemoved, TearDown
  <2>2. ASSUME NEW w \in Waiters PROVE ~WaitsForThisSync(w)'
    <3>1. waiterGen[w] <= generation /\ waiterGen[w] \in Nat /\ generation \in Nat
      BY DEF IInv, Generations, TypeOK
    <3> QED BY <2>1, <3>1 DEF WaitsForThisSync
  <2> QED BY <2>1, <2>2 DEF ReadableWhenSynced
<1>2. CASE HandlerRemovesInformer
  <2>1. ~watching
    BY <1>2 DEF HandlerRemovesInformer, IInv, LockedState, TearDownKeepsCRDUnknown,
       TearingDown
  <2>2. ~active /\ \A w \in Waiters : ~WaitsForThisSync(w)
    BY <2>1, CurrentWaiter DEF IInv, LockedState, WaitsForThisSync, Current
  <2>3. UNCHANGED <<active, generation, waiterPc, waiterGen>>
    BY <1>2 DEF HandlerRemovesInformer, lockedVars
  <2> QED BY <2>2, <2>3 DEF ReadableWhenSynced, WaitsForThisSync
<1>3. CASE OnCRDAppeared \/ HandlerClearsGauge \/ HandlerRequeues
  <2>1. UNCHANGED <<active, generation, informer, phase, waiterPc, waiterGen, kind>>
    BY <1>3 DEF OnCRDAppeared, HandlerClearsGauge, HandlerRequeues, lockedVars, waiterVars
  <2> QED BY <2>1, ReadableFrame DEF WaitsForThisSync
<1> QED BY <1>1, <1>2, <1>3 DEF HandlerStep

LEMMA ReadableWaiter ==
    ASSUME IInv, NoSyncFails, ReadableWhenSynced, NEW w \in Waiters,
           KindStep(w) \/ WaiterStep(w)
    PROVE  ReadableWhenSynced'
<1>1. CASE KindGetsInformer(w)
  <2>1. /\ UNCHANGED <<phase, active, generation, waiterPc, waiterGen>>
        /\ informer = "synced" => informer' = "synced"
    BY <1>1 DEF KindGetsInformer, lockedVars
  <2>2. \A v \in Waiters : kind'[v] = "ready" => kind[v] = "ready"
    BY <1>1 DEF KindGetsInformer, IInv, TypeOK
  <2> QED BY <2>1, <2>2 DEF ReadableWhenSynced, WaitsForThisSync
<1>2. CASE KindSynced(w)
  BY <1>2 DEF KindSynced, ReadableWhenSynced
<1>3. CASE Promote(w)
  <2>1. phase # "stopped" => kind[w] = "ready" /\ WaitsForThisSync(w)
    BY <1>3 DEF Promote, WaitReturnsNil, Current, IInv, CancelledIsStale, TypeOK,
       WaitsForThisSync
  <2>2. UNCHANGED <<phase, informer>>
    BY <1>3 DEF Promote
  <2> QED BY <2>1, <2>2 DEF ReadableWhenSynced
<1>4. CASE SyncTimeout(w) \/ StaleWaiterEnds(w) \/ SyncFails(w) \/ WaiterRequeues(w)
  <2>1. UNCHANGED <<phase, active, generation, informer>>
    BY <1>4 DEF SyncTimeout, StaleWaiterEnds, SyncFails, WaiterRequeues, lockedVars
  <2>2. ASSUME NEW v \in Waiters, waiterPc'[v] = "waiting"
        PROVE  waiterPc[v] = "waiting" /\ waiterGen'[v] = waiterGen[v] /\ kind'[v] = kind[v]
    BY <1>4, <2>2 DEF SyncTimeout, StaleWaiterEnds, SyncFails, WaiterRequeues, EndWait,
       IInv, TypeOK
  <2> QED BY <2>1, <2>2, ReadableFrame DEF WaitsForThisSync
<1>5. ~FailedWaiterRemovesInformer(w)
  BY DEF NoSyncFails, FailedWaiterRemovesInformer
<1> QED BY <1>1, <1>2, <1>3, <1>4, <1>5 DEF KindStep, WaiterStep

LEMMA ReadableParent ==
    ASSUME IInv, ReadableWhenSynced, NEW p \in Parents, Enqueue(p) \/ ReconcileStep(p)
    PROVE  ReadableWhenSynced'
<1>1. CASE HandleCacheInvalidated(p)
  <2>1. ~active' /\ generation' = generation + 1 /\ UNCHANGED <<waiterPc, waiterGen>>
    BY <1>1 DEF HandleCacheInvalidated, TearDown
  <2>2. ASSUME NEW w \in Waiters PROVE ~WaitsForThisSync(w)'
    <3>1. waiterGen[w] <= generation /\ waiterGen[w] \in Nat /\ generation \in Nat
      BY DEF IInv, Generations, TypeOK
    <3> QED BY <2>1, <3>1 DEF WaitsForThisSync
  <2> QED BY <2>1, <2>2 DEF ReadableWhenSynced
<1>2. ASSUME NEW w \in Waiters, EnsureRegisters(p, w)
      PROVE  ReadableWhenSynced'
  <2>1. UNCHANGED <<phase, active, generation, informer>>
    BY <1>2 DEF EnsureRegisters
  <2>2. ASSUME NEW v \in Waiters, WaitsForThisSync(v)', kind'[v] = "ready"
        PROVE  WaitsForThisSync(v) /\ kind[v] = "ready"
    BY <1>2, <2>1, <2>2 DEF EnsureRegisters, WaitsForThisSync, IInv, TypeOK
  <2> QED BY <2>1, <2>2, ReadableFrame
<1>3. CASE Enqueue(p) \/ EnsureActive(p) \/ EnsureUnavailable(p) \/ CacheRead(p)
  <2>1. UNCHANGED <<active, generation, informer, phase, waiterPc, waiterGen, kind>>
    BY <1>3 DEF Enqueue, EnsureActive, EnsureUnavailable, CacheRead, Dequeue, lockedVars,
       waiterVars
  <2> QED BY <2>1, ReadableFrame DEF WaitsForThisSync
<1> QED BY <1>1, <1>2, <1>3 DEF ReconcileStep

LEMMA ReadableNext ==
    ASSUME IInv, NoSyncFails, ReadableWhenSynced, [Next]_vars
    PROVE  ReadableWhenSynced'
<1>1. CASE Start \/ MarkStarted \/ WaitForSync \/ FeedMoves \/ UNCHANGED vars
  <2>1. UNCHANGED <<active, generation, informer, waiterPc, waiterGen, kind>>
        /\ (phase' # "stopped" => phase # "stopped")
    BY <1>1 DEF Start, MarkStarted, WaitForSync, FeedMoves, vars, watcherVars, lockedVars,
       waiterVars
  <2> QED BY <2>1, ReadableFrame DEF WaitsForThisSync
<1>2. CASE Shutdown
  BY <1>2 DEF Shutdown, ReadableWhenSynced
<1>3. CASE InformerSyncs
  BY <1>3 DEF InformerSyncs, ReadableWhenSynced
<1> QED
  BY <1>1, <1>2, <1>3, ReadableHandler, ReadableWaiter, ReadableParent DEF Next

\* The comment on the field active holds of every run in which no sync fails: what
\* breaks it is only the RemoveInformer that a failed waiter makes late.
THEOREM ActiveIsReadableWithoutFailure ==
    Spec /\ []NoSyncFails => []ActiveIsReadable
<1>1. Init => ReadableWhenSynced
  BY DEF Init, ReadableWhenSynced, WaitsForThisSync
<1>2. IInv /\ NoSyncFails /\ ReadableWhenSynced /\ [Next]_vars => ReadableWhenSynced'
  BY ReadableNext
<1>3. ReadableWhenSynced => ActiveIsReadable
  BY DEF ReadableWhenSynced, ActiveIsReadable
<1> QED BY <1>1, <1>2, <1>3, Invariant, PTL DEF Spec

-----------------------------------------------------------------------------
(* What is known of the CRD.                                               *)

\* Removals are noticed, unless the CRD watch loses one: crdExists is FALSE then, and
\* an active watch would need it.
THEOREM RemovalNoticedWithoutLoss ==
    ASSUME "lossyWatch" \notin Faults
    PROVE  Spec => []RemovalNoticed
<1>1. IInv /\ FlagFollows => RemovalNoticed
  BY DEF IInv, LockedState, FlagFollows, WatchNeverLost, RemovalNoticed, FeedQuiet, Usable
<1> QED BY <1>1, Invariant, FlagInvariant, PTL

\* A usable CRD is known to be there, as README.md and the comment on TryGet have it,
\* as long as no reader's invalidation resets the watcher.
THEOREM CRDFlagTracksCRDWithoutReset ==
    ASSUME "lossyWatch" \notin Faults
    PROVE  Spec /\ []~reset => []CRDFlagTracksCRD
<1>1. FlagFollows /\ ~reset => CRDFlagTracksCRD
  BY DEF FlagFollows, WatchNeverLost, CRDFlagTracksCRD, FeedQuiet
<1> QED BY <1>1, FlagInvariant, PTL

-----------------------------------------------------------------------------
(* Informers.                                                              *)

\* Every source calls GetInformer before its sync is cancelled.
NoLateSource == \A w \in Waiters : kind[w] = "starting" => WaitsForThisSync(w)

\* There is an informer only while somebody is to remove it.
InformerHasOwner ==
    informer # "none" =>
        \/ watching
        \/ handlerPc = "remove"
        \/ \E w \in Waiters : waiterPc[w] = "failed"

LEMMA OwnerFrame ==
    ASSUME InformerHasOwner, informer' # "none" => informer # "none",
           watching => watching', handlerPc = "remove" => handlerPc' = "remove",
           \A w \in Waiters : waiterPc[w] = "failed" => waiterPc'[w] = "failed"
    PROVE  InformerHasOwner'
  BY DEF InformerHasOwner

LEMMA OwnerNext ==
    ASSUME "removeError" \notin Faults,
           IInv, NoLateSource, InformerHasOwner, ~reset', [Next]_vars
    PROVE  InformerHasOwner'
<1>1. CASE \/ Start \/ MarkStarted \/ WaitForSync \/ Shutdown \/ FeedMoves
           \/ InformerSyncs \/ UNCHANGED vars
  <2>1. UNCHANGED <<watching, handlerPc, waiterPc>>
        /\ (informer' # "none" => informer # "none")
    BY <1>1 DEF Start, MarkStarted, WaitForSync, Shutdown, FeedMoves, InformerSyncs, vars,
       watcherVars, lockedVars, handlerVars, waiterVars
  <2> QED BY <2>1, OwnerFrame
<1>2. CASE HandlerStep
  <2>1. CASE OnCRDRemoved
    <3>1. /\ handlerPc = "idle" /\ UNCHANGED <<informer, waiterPc>>
          /\ watching => handlerPc' = "remove"
      BY <2>1 DEF OnCRDRemoved, HandlerFree, HandlerAt
    <3> QED BY <3>1 DEF InformerHasOwner
  <2>2. CASE HandlerRemovesInformer
    BY <2>2 DEF HandlerRemovesInformer, RemoveInformer, InformerHasOwner
  <2>3. CASE OnCRDAppeared \/ HandlerClearsGauge \/ HandlerRequeues
    <3>1. handlerPc # "remove" /\ UNCHANGED <<informer, watching, waiterPc>>
      BY <2>3 DEF OnCRDAppeared, HandlerFree, HandlerClearsGauge, HandlerRequeues,
         lockedVars, waiterVars
    <3> QED BY <3>1, OwnerFrame
  <2> QED BY <1>2, <2>1, <2>2, <2>3 DEF HandlerStep
<1>3. ASSUME NEW w \in Waiters, KindStep(w) \/ WaiterStep(w)
      PROVE  InformerHasOwner'
  <2>1. CASE KindGetsInformer(w)
    <3>1. watching
      BY <2>1, CurrentWaiter DEF KindGetsInformer, NoLateSource, WaitsForThisSync, Current
    <3> QED BY <2>1, <3>1 DEF KindGetsInformer, lockedVars, InformerHasOwner
  <2>2. CASE SyncFails(w)
    <3>1. waiterPc'[w] = "failed"
      BY <2>2 DEF SyncFails, IInv, TypeOK
    <3> QED BY <3>1 DEF InformerHasOwner
  <2>3. CASE FailedWaiterRemovesInformer(w)
    BY <2>3 DEF FailedWaiterRemovesInformer, RemoveInformer, InformerHasOwner
  <2>4. CASE \/ KindSynced(w) \/ SyncTimeout(w) \/ Promote(w) \/ StaleWaiterEnds(w)
             \/ WaiterRequeues(w)
    <3>1. UNCHANGED <<informer, watching, handlerPc>>
      BY <2>4 DEF KindSynced, SyncTimeout, Promote, StaleWaiterEnds, WaiterRequeues,
         lockedVars, handlerVars
    <3>2. ASSUME NEW v \in Waiters, waiterPc[v] = "failed"
          PROVE  waiterPc'[v] = "failed"
      BY <2>4, <3>2 DEF KindSynced, SyncTimeout, Promote, StaleWaiterEnds, WaiterRequeues,
         WaitReturnsNil, WaitReturnsError, IInv, TypeOK
    <3> QED BY <3>1, <3>2, OwnerFrame
  <2> QED BY <1>3, <2>1, <2>2, <2>3, <2>4 DEF KindStep, WaiterStep
<1>4. ASSUME NEW p \in Parents, Enqueue(p) \/ ReconcileStep(p)
      PROVE  InformerHasOwner'
  <2>1. ~HandleCacheInvalidated(p)
    BY DEF HandleCacheInvalidated
  <2>2. ASSUME NEW w \in Waiters, EnsureRegisters(p, w)
        PROVE  InformerHasOwner'
    BY <2>2 DEF EnsureRegisters, InformerHasOwner
  <2>3. CASE Enqueue(p) \/ EnsureActive(p) \/ EnsureUnavailable(p) \/ CacheRead(p)
    <3>1. UNCHANGED <<informer, watching, handlerPc, waiterPc>>
      BY <2>3 DEF Enqueue, EnsureActive, EnsureUnavailable, CacheRead, lockedVars,
         handlerVars, waiterVars
    <3> QED BY <3>1, OwnerFrame
  <2> QED BY <1>4, <2>1, <2>2, <2>3 DEF ReconcileStep
<1> QED BY <1>1, <1>2, <1>3, <1>4 DEF Next

\* A watcher keeps an informer only for a CRD that can be used, as ARCHITECTURE.md
\* says, unless removing one fails, a source calls GetInformer after its sync was
\* cancelled or a reader resets a watch without removing its informer.
THEOREM NoInformerLeakWithoutLateSource ==
    ASSUME "lossyWatch" \notin Faults, "removeError" \notin Faults
    PROVE  Spec /\ [](~reset /\ NoLateSource) => []NoInformerLeak
<1>1. Init => InformerHasOwner
  BY DEF Init, InformerHasOwner
<1>2. IInv /\ NoLateSource /\ InformerHasOwner /\ ~reset' /\ [Next]_vars => InformerHasOwner'
  BY OwnerNext
<1>3. IInv /\ FlagFollows /\ InformerHasOwner => NoInformerLeak
  BY DEF IInv, LockedState, FlagFollows, WatchNeverLost, InformerHasOwner, NoInformerLeak,
     FeedQuiet, Usable
<1> QED BY <1>1, <1>2, <1>3, Invariant, FlagInvariant, PTL DEF Spec

=============================================================================
