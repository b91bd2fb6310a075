--------------------------- MODULE RequestProofs ---------------------------
(***************************************************************************)
(* Proofs about the requests a watcher makes: which reach the queue, that  *)
(* it implements WatchStatus with them, and that no parent is forgotten.   *)
(***************************************************************************)
EXTENDS FlagProofs

-----------------------------------------------------------------------------
(* Requests.                                                               *)

\* A call that repeats the one before it, and a second call after its first, go well
\* with the calls to be made.
LEMMA AppendRepeats ==
    ASSUME NEW s \in Seq(Calls), NEW c \in Calls, UpdatesRepeat(s),
           s # <<>> /\ c.part = "old" =>
              (CRDRemoved(c.object) <=> CRDRemoved(s[Len(s)].object)),
           s # <<>> /\ c.part = "new" => s[Len(s)].part = "old"
    PROVE  /\ UpdatesRepeat(Append(s, c))
           /\ Append(s, c) \in Seq(Calls) /\ Append(s, c) # <<>>
           /\ Append(s, c)[Len(Append(s, c))] = c
           /\ Head(Append(s, c)) = IF s = <<>> THEN c ELSE Head(s)
<1> DEFINE t == Append(s, c)
<1>1. /\ t \in Seq(Calls) /\ t # <<>> /\ Len(t) = Len(s) + 1 /\ Len(s) \in Nat
      /\ t[Len(s) + 1] = c /\ \A k \in 1 .. Len(s) : t[k] = s[k]
  OBVIOUS
<1>2. UpdatesRepeat(t)
  <2> SUFFICES ASSUME NEW k \in 2 .. Len(t)
               PROVE  /\ t[k].part = "old" =>
                            (CRDRemoved(t[k].object) <=> CRDRemoved(t[k - 1].object))
                      /\ t[k].part = "new" => t[k - 1].part = "old"
    BY DEF UpdatesRepeat
  <2> HIDE DEF t
  <2>1. CASE k = Len(s) + 1
    <3>1. s # <<>> /\ t[k] = c /\ t[k - 1] = s[Len(s)]
      BY <1>1, <2>1
    <3> QED BY <3>1
  <2>2. CASE k # Len(s) + 1
    <3>1. k \in 2 .. Len(s) /\ t[k] = s[k] /\ t[k - 1] = s[k - 1]
      BY <1>1, <2>2
    <3> QED BY <3>1 DEF UpdatesRepeat
  <2> QED BY <2>1, <2>2
<1>3. Head(t) = IF s = <<>> THEN c ELSE Head(s)
  <2>1. Head(t) = t[1] /\ (s # <<>> => Head(s) = s[1] /\ Len(s) # 0)
    BY <1>1, EmptySeq
  <2>2. s = <<>> => Len(s) = 0
    OBVIOUS
  <2> HIDE DEF t
  <2> QED BY <1>1, <2>1, <2>2
<1> QED BY <1>1, <1>2, <1>3

\* The calls left after the first; the next one repeats it or is its second half.
LEMMA TailRepeats ==
    ASSUME NEW s \in Seq(Calls), s # <<>>, UpdatesRepeat(s)
    PROVE  /\ UpdatesRepeat(Tail(s))
           /\ Tail(s) # <<>> =>
                 /\ Head(Tail(s)).part = "old" =>
                       (CRDRemoved(Head(Tail(s)).object) <=> CRDRemoved(Head(s).object))
                 /\ Head(Tail(s)).part = "new" => Head(s).part = "old"
<1>1. Len(s) \in Nat /\ Len(s) # 0 /\ Head(s) = s[1]
  BY EmptySeq
<1>2. /\ Tail(s) \in Seq(Calls) /\ Len(Tail(s)) = Len(s) - 1
      /\ \A k \in 1 .. Len(Tail(s)) : Tail(s)[k] = s[k + 1]
  BY HeadTailProperties
<1>3. UpdatesRepeat(Tail(s))
  <2> SUFFICES ASSUME NEW k \in 2 .. Len(Tail(s))
               PROVE  /\ Tail(s)[k].part = "old" =>
                            (CRDRemoved(Tail(s)[k].object)
                                <=> CRDRemoved(Tail(s)[k - 1].object))
                      /\ Tail(s)[k].part = "new" => Tail(s)[k - 1].part = "old"
    BY DEF UpdatesRepeat
  <2>1. /\ k + 1 \in 2 .. Len(s) /\ (k + 1) - 1 = k
        /\ Tail(s)[k] = s[k + 1] /\ Tail(s)[k - 1] = s[k]
    BY <1>1, <1>2
  <2> QED BY <2>1 DEF UpdatesRepeat
<1>4. ASSUME Tail(s) # <<>>
      PROVE  /\ Head(Tail(s)).part = "old" =>
                   (CRDRemoved(Head(Tail(s)).object) <=> CRDRemoved(Head(s).object))
             /\ Head(Tail(s)).part = "new" => Head(s).part = "old"
  <2>1. Len(Tail(s)) # 0 /\ Head(Tail(s)) = Tail(s)[1]
    BY <1>2, <1>4, EmptySeq
  <2>2. 2 \in 2 .. Len(s) /\ Head(Tail(s)) = s[2]
    BY <1>1, <1>2, <2>1
  <2> QED BY <1>1, <2>2 DEF UpdatesRepeat
<1> QED BY <1>3, <1>4

\* A notification adds the calls about what the store held and holds.
LEMMA NotificationReaches ==
    ASSUME FeedTypeOK, RequestsReachQueue, NEW new \in CRDObjects \cup {NoCRD},
           calls' = calls \o CallsFor(stored, new), stored' = new,
           UNCHANGED <<crdExists, handlerPc, requested, lost, invalidated>>
    PROVE  RequestsReachQueue'
<1> SUFFICES ASSUME ~invalidated PROVE RequestsReachQueue'
  BY DEF RequestsReachQueue
<1>1. calls \in Seq(Calls) /\ UpdatesRepeat(calls)
  BY DEF FeedTypeOK, RequestsReachQueue
<1>2. \A c \in CRDObjects, p \in Parts :
         Call(c, p) \in Calls /\ Call(c, p).object = c /\ Call(c, p).part = p
  BY DEF Call, Calls
<1>3. "only" \in Parts /\ "old" \in Parts /\ "new" \in Parts
  BY DEF Parts
<1>4. requested' = {} /\ (lost' # {} => "listError" \in Faults)
  BY DEF RequestsReachQueue
<1>5. CASE stored = NoCRD /\ new = NoCRD
  <2>1. calls' = calls
    BY <1>1, <1>5 DEF CallsFor
  <2> QED BY <1>5, <2>1 DEF RequestsReachQueue, LastCall, SecondCallNext
<1>6. ASSUME NEW c \in Calls, c.part = "only", calls' = Append(calls, c),
             new # NoCRD => c.object = new
      PROVE  RequestsReachQueue'
  <2>1. /\ UpdatesRepeat(calls') /\ calls' # <<>> /\ calls'[Len(calls')] = c
        /\ Head(calls') = IF calls = <<>> THEN c ELSE Head(calls)
    BY <1>1, <1>6, AppendRepeats
  <2> QED BY <1>4, <1>6, <2>1 DEF RequestsReachQueue, LastCall, SecondCallNext
<1>7. CASE stored = NoCRD /\ new # NoCRD
  <2>1. calls' = Append(calls, Call(new, "only"))
    BY <1>1, <1>2, <1>3, <1>7 DEF CallsFor
  <2> QED BY <1>2, <1>3, <1>6, <1>7, <2>1
<1>8. CASE stored # NoCRD /\ new = NoCRD
  <2>1. calls' = Append(calls, Call(stored, "only")) /\ stored \in CRDObjects
    BY <1>1, <1>2, <1>3, <1>8 DEF CallsFor, FeedTypeOK
  <2> QED BY <1>2, <1>3, <1>6, <1>8, <2>1
<1>9. CASE stored # NoCRD /\ new # NoCRD
  <2> DEFINE s == Append(calls, Call(stored, "old"))
  <2>0. /\ Call(stored, "old") \in Calls /\ Call(new, "new") \in Calls
        /\ Call(stored, "old").object = stored /\ Call(stored, "old").part = "old"
        /\ Call(new, "new").object = new /\ Call(new, "new").part = "new"
    BY <1>2, <1>3, <1>9 DEF FeedTypeOK
  <2>1. calls' = Append(s, Call(new, "new"))
    BY <1>1, <1>9, <2>0 DEF CallsFor
  <2>2. calls # <<>> => (CRDRemoved(stored) <=> CRDRemoved(calls[Len(calls)].object))
    BY <1>9 DEF RequestsReachQueue, LastCall
  <2>3. /\ UpdatesRepeat(s) /\ s \in Seq(Calls) /\ s # <<>>
        /\ s[Len(s)] = Call(stored, "old")
        /\ Head(s) = IF calls = <<>> THEN Call(stored, "old") ELSE Head(calls)
    BY <1>1, <2>0, <2>2, AppendRepeats
  <2> HIDE DEF s
  <2>4. /\ UpdatesRepeat(calls') /\ calls' # <<>> /\ calls'[Len(calls')] = Call(new, "new")
        /\ Head(calls') = Head(s)
    BY <2>0, <2>1, <2>3, AppendRepeats
  <2>5. calls = <<>> => (crdExists <=> ~CRDRemoved(stored))
    BY <1>9 DEF RequestsReachQueue
  <2> QED
    BY <1>4, <2>0, <2>3, <2>4, <2>5 DEF RequestsReachQueue, LastCall, SecondCallNext
<1> QED BY <1>5, <1>7, <1>8, <1>9

\* A step that makes no call, adds no request and leaves the flag alone.
LEMMA RequestsFrame ==
    ASSUME RequestsReachQueue,
           UNCHANGED <<calls, stored, crdExists, handlerPc, requested, invalidated>>,
           lost' \subseteq lost
    PROVE  RequestsReachQueue'
  BY DEF RequestsReachQueue, LastCall, SecondCallNext

\* So do the steps of the feed, and Start with its first list.
LEMMA FeedReaches ==
    ASSUME TypeOK, RequestsReachQueue, Start \/ FeedMoves
    PROVE  RequestsReachQueue'
<1>0. FeedTypeOK
  BY DEF TypeOK
<1>1. UNCHANGED <<crdExists, handlerPc, requested, lost, invalidated>>
  BY DEF Start, FeedMoves, watcherVars, lockedVars, handlerVars, queueVars, resetVars
<1>2. ASSUME NEW new \in CRDObjects \cup {NoCRD}, Change(new)
      PROVE  RequestsReachQueue'
  BY <1>0, <1>1, <1>2, NotificationReaches, RequestsFrame DEF Change
<1>3. CASE Install
  <2>1. [established |-> FALSE, deleting |-> FALSE] \in CRDObjects
    BY DEF CRDObjects
  <2> QED BY <1>2, <1>3, <2>1 DEF Install
<1>4. CASE SetEstablished
  <2>1. [crd EXCEPT !.established = ~crd.established] \in CRDObjects
    BY <1>0, <1>4 DEF SetEstablished, FeedTypeOK, CRDObjects
  <2> QED BY <1>2, <1>4, <2>1 DEF SetEstablished
<1>5. CASE MarkDeleting
  <2>1. [crd EXCEPT !.deleting = TRUE] \in CRDObjects
    BY <1>0, <1>5 DEF MarkDeleting, FeedTypeOK, CRDObjects
  <2> QED BY <1>2, <1>5, <2>1 DEF MarkDeleting
<1>6. CASE Finalize
  BY <1>2, <1>6 DEF Finalize
<1>7. CASE Relist
  BY <1>0, <1>1, <1>7, NotificationReaches DEF Relist, FeedTypeOK
<1>8. CASE Resync
  BY <1>0, <1>1, <1>8, NotificationReaches DEF Resync, FeedTypeOK
<1>9. CASE Disconnect
  BY <1>1, <1>9, RequestsFrame DEF Disconnect
<1> QED
  BY <1>3, <1>4, <1>5, <1>6, <1>7, <1>8, <1>9 DEF Start, FeedMoves, FeedStep

\* What a requeue of all parents adds when nothing has been requested before.
LEMMA AddsAll ==
    ASSUME TypeOK, NEW listed \in Listed, Adds(listed)
    PROVE  /\ listed = Parents \/ "listError" \in Faults
           /\ "listError" \notin Faults => queue' = Parents /\ lost' = lost
<1>1. listed = Parents \/ "listError" \in Faults
  BY DEF Listed
<1>2. listed = Parents => queue' = Parents /\ lost' = lost
  BY DEF Adds, TypeOK
<1> QED BY <1>1, <1>2

\* The call for the old object leaves everything as it is, up to the first reset.
LEMMA HandlerReaches ==
    ASSUME IInv, RequestsReachQueue, HandlerStep
    PROVE  RequestsReachQueue'
<1>0. TypeOK /\ calls \in Seq(Calls)
  BY DEF IInv, TypeOK, FeedTypeOK
<1>1. invalidated' = invalidated
  BY DEF HandlerStep, OnCRDRemoved, OnCRDAppeared, HandlerRemovesInformer,
     HandlerClearsGauge, HandlerRequeues, resetVars
<1> SUFFICES ASSUME ~invalidated PROVE RequestsReachQueue'
  BY <1>1 DEF RequestsReachQueue
<1>2. CASE OnCRDRemoved \/ OnCRDAppeared
  <2>1. /\ calls # <<>> /\ calls' = Tail(calls) /\ UNCHANGED <<stored, lost>>
        /\ crdExists' <=> ~CRDRemoved(Head(calls).object)
    BY <1>2 DEF OnCRDRemoved, OnCRDAppeared, HandlerFree, TearDown, queueVars
  <2>2. /\ UpdatesRepeat(calls')
        /\ calls' # <<>> =>
              /\ Head(calls').part = "old" =>
                    (CRDRemoved(Head(calls').object) <=> CRDRemoved(Head(calls).object))
              /\ Head(calls').part = "new" => Head(calls).part = "old"
    BY <1>0, <2>1, TailRepeats DEF RequestsReachQueue
  <2>3. SecondCallNext' => handlerPc' = "idle"
    <3>1. SUFFICES ASSUME SecondCallNext' PROVE handlerPc' = "idle"
      OBVIOUS
    <3>2. crdExists <=> ~CRDRemoved(Head(calls).object)
      BY <2>1, <2>2, <3>1 DEF SecondCallNext, RequestsReachQueue
    <3>3. CASE OnCRDAppeared
      BY <3>2, <3>3 DEF OnCRDAppeared, HandlerAt
    <3>4. CASE OnCRDRemoved
      <4>1. ~watching /\ ~active
        BY <3>2, <3>4 DEF OnCRDRemoved, IInv, LockedState
      <4> QED BY <3>4, <4>1 DEF OnCRDRemoved, HandlerAt
    <3> QED BY <1>2, <3>3, <3>4
  <2>4. requested' = {}
    BY <1>2 DEF OnCRDRemoved, OnCRDAppeared, HandlerAt, RequestsReachQueue
  <2>5. /\ calls' = <<>> => LastCall = Head(calls).object
        /\ calls' # <<>> => LastCall' = LastCall
    BY <1>0, <2>1, LastOfTail DEF LastCall
  <2>6. stored # NoCRD => (CRDRemoved(LastCall) <=> CRDRemoved(stored))
    BY <2>1 DEF RequestsReachQueue
  <2>7. stored' # NoCRD =>
           IF calls' = <<>> THEN crdExists' <=> ~CRDRemoved(stored')
                            ELSE CRDRemoved(LastCall') <=> CRDRemoved(stored')
    BY <2>1, <2>5, <2>6
  <2>8. lost' # {} => "listError" \in Faults
    BY <2>1 DEF RequestsReachQueue
  <2> QED
    BY <2>1, <2>2, <2>3, <2>4, <2>7, <2>8 DEF RequestsReachQueue, CRDRemoved
<1>3. CASE HandlerRemovesInformer \/ HandlerClearsGauge \/ HandlerRequeues
  <2>1. UNCHANGED <<calls, stored, crdExists>> /\ handlerPc # "idle"
    BY <1>3 DEF HandlerRemovesInformer, HandlerClearsGauge, HandlerRequeues, feedVars,
       lockedVars
  <2>2. ~SecondCallNext /\ ~SecondCallNext' /\ requested = {}
    BY <2>1 DEF RequestsReachQueue, SecondCallNext
  <2>3. requested' = {}
    BY <1>3, <2>2 DEF HandlerRemovesInformer, HandlerClearsGauge, HandlerRequeues, HandlerAt
  <2>4. lost' # {} => "listError" \in Faults
    <3>1. CASE HandlerRequeues
      <4>1. PICK listed \in Listed : Adds(listed \ requested)
        BY <3>1 DEF HandlerRequeues
      <4>2. Adds(listed)
        BY <2>2, <4>1 DEF Adds
      <4> QED BY <1>0, <4>2, AddsAll DEF RequestsReachQueue
    <3>2. CASE ~HandlerRequeues
      BY <1>3, <3>2 DEF HandlerRemovesInformer, HandlerClearsGauge, queueVars,
         RequestsReachQueue
    <3> QED BY <3>1, <3>2
  <2> QED BY <2>1, <2>2, <2>3, <2>4 DEF RequestsReachQueue, LastCall
<1> QED BY <1>2, <1>3 DEF HandlerStep

\* RequestsReachQueue is inductive, given the invariant of the watcher.
THEOREM RequestsInvariant == Spec => []RequestsReachQueue
<1>1. Init => RequestsReachQueue
  BY DEF Init, FeedInit, RequestsReachQueue, UpdatesRepeat, SecondCallNext
<1>2. IInv /\ RequestsReachQueue /\ [Next]_vars => RequestsReachQueue'
  <2> SUFFICES ASSUME IInv, RequestsReachQueue, [Next]_vars PROVE RequestsReachQueue'
    OBVIOUS
  <2>0. TypeOK
    BY DEF IInv
  <2>1. CASE Start \/ FeedMoves
    BY <2>0, <2>1, FeedReaches
  <2>2. CASE HandlerStep
    BY <2>2, HandlerReaches
  <2>3. ASSUME NEW w \in Waiters, WaiterStep(w) PROVE RequestsReachQueue'
    <3>1. CASE WaiterRequeues(w)
      <4>1. /\ UNCHANGED <<calls, stored, crdExists, handlerPc, requested, invalidated>>
            /\ \E listed \in Listed : Adds(listed)
        BY <3>1 DEF WaiterRequeues, feedVars, lockedVars, handlerVars, resetVars
      <4>2. lost' = lost \/ "listError" \in Faults
        BY <2>0, <4>1, AddsAll
      <4> QED BY <4>1, <4>2 DEF RequestsReachQueue, LastCall, SecondCallNext
    <3>2. CASE ~WaiterRequeues(w)
      BY <2>3, <3>2, RequestsFrame DEF WaiterStep, SyncTimeout, Promote, StaleWaiterEnds,
         SyncFails, FailedWaiterRemovesInformer, feedVars, lockedVars, handlerVars,
         queueVars, resetVars
    <3> QED BY <3>1, <3>2
  <2>4. ASSUME NEW p \in Parents, Enqueue(p) \/ ReconcileStep(p) PROVE RequestsReachQueue'
    <3>1. CASE HandleCacheInvalidated(p)
      BY <3>1 DEF HandleCacheInvalidated, RequestsReachQueue
    <3>2. CASE ~HandleCacheInvalidated(p)
      BY <2>4, <3>2, RequestsFrame DEF Enqueue, ReconcileStep, EnsureActive,
         EnsureUnavailable, EnsureRegisters, Dequeue, CacheRead, feedVars, lockedVars,
         handlerVars, queueVars, resetVars
    <3> QED BY <3>1, <3>2
  <2>5. CASE \/ MarkStarted \/ WaitForSync \/ Shutdown \/ InformerSyncs
             \/ (\E w \in Waiters : KindStep(w)) \/ UNCHANGED vars
    BY <2>5, RequestsFrame DEF MarkStarted, WaitForSync, Shutdown, InformerSyncs, KindStep,
       KindGetsInformer, KindSynced, vars, watcherVars, feedVars, lockedVars, handlerVars,
       queueVars, resetVars
  <2> QED BY <2>1, <2>2, <2>3, <2>4, <2>5 DEF Next
<1> QED BY <1>1, <1>2, Invariant, PTL DEF Spec

\* Requests are lost only where listing the parents fails, or after a reader's reset
\* has let an Update's call for the old object change something.
THEOREM LossNeedsResetHolds == Spec => []LossNeedsReset
<1>1. RequestsReachQueue => LossNeedsReset
  BY DEF RequestsReachQueue, LossNeedsReset
<1> QED BY <1>1, RequestsInvariant, PTL

-----------------------------------------------------------------------------
(* The watcher implements WatchStatus.                                     *)

\* A step outside the mutex that leaves the queue, the program counters and the
\* flags alone maps to a stutter.
LEMMA StatusFrame ==
    ASSUME UNCHANGED <<phase, lockedVars, handlerPc, wasReady, waiterPc, queueVars,
                       reconcilePc, invalidated>>
    PROVE  UNCHANGED <<Status, Due, Reading, lost, invalidated>>
  BY DEF Status, Due, Reading, RequeuePending, lockedVars, queueVars

\* A requeue of all parents maps to a stutter, or to Dropped with the parents it
\* does not add.
LEMMA RequeueImplements ==
    ASSUME TypeOK, RequestsReachQueue, NEW listed \in Listed, NEW added \in SUBSET Parents,
           listed \ added \subseteq requested, Adds(added),
           UNCHANGED <<Status, Reading, invalidated>>,
           Due = Parents, Due' \in {Parents, queue'}
    PROVE  [Abstract!Next]_<<Status, Due, Reading, lost, invalidated>>
<1> DEFINE gone == Parents \ queue'
<1>1. queue' \subseteq Parents /\ lost' = lost \cup gone
  BY DEF Adds, TypeOK
<1>2. gone \in SUBSET Due /\ Due' \in {Due, Due \ gone}
  BY <1>1
<1>3. CASE "listError" \in Faults \/ invalidated
  <2>1. Abstract!Dropped
    BY <1>1, <1>2, <1>3 DEF Abstract!Dropped
  <2> QED BY <2>1 DEF Abstract!Next
<1>4. CASE "listError" \notin Faults /\ ~invalidated
  <2>1. listed = Parents /\ requested = {}
    BY <1>4 DEF Listed, RequestsReachQueue
  <2>2. gone = {}
    BY <2>1 DEF Adds
  <2> HIDE DEF gone
  <2>3. lost' = lost /\ Due' = Due
    BY <1>1, <1>2, <2>2
  <2> QED BY <2>3
<1> QED BY <1>3, <1>4

\* Start, its end, and the start and stop of the workers.
LEMMA LifecycleImplements ==
    ASSUME IInv, Start \/ MarkStarted \/ WaitForSync \/ Shutdown
    PROVE  [Abstract!Next]_<<Status, Due, Reading, lost, invalidated>>
<1>1. UNCHANGED <<Due, Reading, lost, invalidated>>
  BY DEF Start, MarkStarted, WaitForSync, Shutdown, Due, Reading, RequeuePending,
     handlerVars, readerVars, waiterVars, queueVars, resetVars
<1>2. CASE Start \/ WaitForSync \/ Shutdown
  <2>1. Status' = Status
    BY <1>2 DEF Start, WaitForSync, Shutdown, Status, lockedVars
  <2> QED BY <1>1, <2>1
<1>3. CASE MarkStarted
  <2>1. Status = "NotStarted" /\ Status' \in {"CRDNotFound", "Pending"}
    BY <1>3 DEF MarkStarted, Status, lockedVars, IInv, LockedState, NoWatchBeforeWorkers
  <2> QED
    BY <1>1, <2>1 DEF Abstract!Next, Abstract!Started, Abstract!Becomes,
       Abstract!TellsNobody
<1> QED BY <1>2, <1>3

\* onCRDChange tells all parents exactly when the answer to them changes.
LEMMA HandlerImplements ==
    ASSUME IInv, RequestsReachQueue, HandlerStep
    PROVE  [Abstract!Next]_<<Status, Due, Reading, lost, invalidated>>
<1>0. TypeOK /\ LockedState /\ NoWatchBeforeWorkers
  BY DEF IInv
<1>1. Reading' = Reading /\ invalidated' = invalidated
  BY DEF HandlerStep, OnCRDRemoved, OnCRDAppeared, HandlerRemovesInformer,
     HandlerClearsGauge, HandlerRequeues, Reading, readerVars, resetVars
<1>2. CASE OnCRDRemoved
  <2>0. /\ handlerPc = "idle" /\ phase' = phase
        /\ UNCHANGED <<queue, lost, waiterPc>>
        /\ ~active' /\ ~crdExists' /\ wasReady' = active
        /\ handlerPc' = IF watching THEN "remove" ELSE IF active THEN "gauge" ELSE "idle"
    BY <1>2 DEF OnCRDRemoved, HandlerFree, HandlerAt, TearDown, queueVars
  <2>1. CASE active
    <3>1. Status = "Ready" /\ Status' = "CRDNotFound"
      BY <1>0, <2>0, <2>1 DEF Status, NoWatchBeforeWorkers, LockedState
    <3>2. Due' = Parents
      BY <1>0, <2>0, <2>1 DEF Due, RequeuePending, LockedState
    <3> QED
      BY <1>1, <2>0, <3>1, <3>2 DEF Abstract!Next, Abstract!ActiveLost, Abstract!Becomes,
         Abstract!TellsAll
  <2>2. CASE ~active
    <3>1. Due' = Due
      BY <1>0, <2>0, <2>2 DEF Due, RequeuePending
    <3>2. \/ Status' = Status
          \/ Status \in {"Pending", "Syncing"} /\ Status' = "CRDNotFound"
      BY <2>0, <2>2 DEF Status
    <3> QED
      BY <1>1, <2>0, <3>1, <3>2 DEF Abstract!Next, Abstract!InactiveLost, Abstract!Becomes,
         Abstract!TellsNobody
  <2> QED BY <2>1, <2>2
<1>3. CASE OnCRDAppeared
  <2>0. /\ handlerPc = "idle" /\ crdExists' = TRUE
        /\ handlerPc' = IF crdExists THEN "idle" ELSE "requeue"
        /\ UNCHANGED <<phase, watching, active, wasReady, waiterPc, queue, lost>>
    BY <1>3 DEF OnCRDAppeared, HandlerFree, HandlerAt, waiterVars, queueVars
  <2>1. CASE crdExists
    <3>1. UNCHANGED <<Status, Due>>
      BY <1>0, <2>0, <2>1 DEF Status, Due, RequeuePending, TypeOK
    <3> QED BY <1>1, <2>0, <3>1
  <2>2. CASE ~crdExists
    <3>1. Due' = Parents
      BY <2>0, <2>2 DEF Due, RequeuePending
    <3>2. \/ Status = "NotStarted" /\ Status' = "NotStarted"
          \/ Status = "CRDNotFound" /\ Status' = "Pending"
      BY <1>0, <2>0, <2>2 DEF Status, LockedState
    <3> QED
      BY <1>1, <2>0, <3>1, <3>2 DEF Abstract!Next, Abstract!FoundEarly, Abstract!CRDFound,
         Abstract!Becomes, Abstract!TellsAll
  <2> QED BY <2>1, <2>2
<1>4. CASE HandlerRemovesInformer \/ HandlerClearsGauge
  <2>1. Status' = Status
    BY <1>4 DEF HandlerRemovesInformer, HandlerClearsGauge, Status, lockedVars
  <2>2. Due' = Due /\ lost' = lost
    BY <1>4 DEF HandlerRemovesInformer, HandlerClearsGauge, HandlerAt, Due, RequeuePending,
       waiterVars, queueVars
  <2> QED BY <1>1, <2>1, <2>2
<1>5. CASE HandlerRequeues
  <2>1. Status' = Status /\ Due = Parents /\ Due' \in {Parents, queue'}
    BY <1>5 DEF HandlerRequeues, Status, Due, RequeuePending, lockedVars
  <2>2. PICK listed \in Listed : Adds(listed \ requested)
    BY <1>5 DEF HandlerRequeues
  <2>3. listed \ requested \in SUBSET Parents
    BY ListedParents
  <2> QED BY <1>0, <1>1, <2>1, <2>2, <2>3, RequeueImplements
<1> QED BY <1>2, <1>3, <1>4, <1>5 DEF HandlerStep

\* A sync ends with everyone told, whether it succeeded or failed; a waiter of an
\* older generation tells nobody anything.
LEMMA WaiterImplements ==
    ASSUME IInv, RequestsReachQueue, NEW w \in Waiters, WaiterStep(w)
    PROVE  [Abstract!Next]_<<Status, Due, Reading, lost, invalidated>>
<1>0. TypeOK
  BY DEF IInv
<1>1. Reading' = Reading /\ invalidated' = invalidated
  BY DEF WaiterStep, SyncTimeout, Promote, StaleWaiterEnds, SyncFails,
     FailedWaiterRemovesInformer, WaiterRequeues, Reading, readerVars, resetVars
<1>2. CASE SyncTimeout(w)
  BY <1>2, StatusFrame DEF SyncTimeout, readerVars, handlerVars, resetVars
<1>3. CASE Promote(w)
  <2>1. watching /\ ~active /\ crdExists /\ lost' = lost
    BY <1>3, CurrentWaiter DEF Promote, WaitReturnsNil, queueVars
  <2>2. phase \notin {"new", "starting"}
    BY <2>1 DEF IInv, NoWatchBeforeWorkers
  <2>3. Status = "Syncing" /\ Status' = "Ready"
    BY <1>3, <2>1, <2>2 DEF Promote, Status
  <2>4. waiterPc'[w] = "requeue"
    BY <1>0, <1>3 DEF Promote, TypeOK
  <2>5. Due' = Parents
    BY <2>4 DEF Due, RequeuePending
  <2> QED
    BY <1>1, <2>1, <2>3, <2>5 DEF Abstract!Next, Abstract!SyncSucceeded, Abstract!Becomes,
       Abstract!TellsAll
<1>4. CASE SyncFails(w)
  <2>1. watching /\ ~active /\ crdExists /\ lost' = lost
    BY <1>4, CurrentWaiter DEF SyncFails, WaitReturnsError, queueVars
  <2>2. phase \notin {"new", "starting"}
    BY <2>1 DEF IInv, NoWatchBeforeWorkers
  <2>3. Status = "Syncing" /\ Status' = "Pending"
    BY <1>4, <2>1, <2>2 DEF SyncFails, Status
  <2>4. waiterPc'[w] = "failed"
    BY <1>0, <1>4 DEF SyncFails, TypeOK
  <2>5. Due' = Parents
    BY <2>4 DEF Due, RequeuePending
  <2> QED
    BY <1>1, <2>1, <2>3, <2>5 DEF Abstract!Next, Abstract!SyncFailed, Abstract!Becomes,
       Abstract!TellsAll
<1>5. CASE StaleWaiterEnds(w) \/ FailedWaiterRemovesInformer(w)
  <2>1. UNCHANGED <<phase, lockedVars, handlerVars, queue, lost>>
    BY <1>5 DEF StaleWaiterEnds, FailedWaiterRemovesInformer, queueVars
  <2>2. \A v \in Waiters :
           waiterPc'[v] \in {"failed", "requeue"} <=> waiterPc[v] \in {"failed", "requeue"}
    BY <1>0, <1>5 DEF StaleWaiterEnds, FailedWaiterRemovesInformer, WaitReturnsNil,
       WaitReturnsError, TypeOK
  <2>3. UNCHANGED <<Status, Due>>
    BY <2>1, <2>2 DEF Status, Due, RequeuePending, lockedVars, handlerVars
  <2> QED BY <1>1, <2>1, <2>3
<1>6. CASE WaiterRequeues(w)
  <2>1. Status' = Status /\ Due = Parents /\ Due' \in {Parents, queue'}
    BY <1>6 DEF WaiterRequeues, Status, Due, RequeuePending, lockedVars
  <2>2. PICK listed \in Listed : Adds(listed)
    BY <1>6 DEF WaiterRequeues
  <2>3. listed \in SUBSET Parents
    BY ListedParents
  <2> QED BY <1>0, <1>1, <2>1, <2>2, <2>3, RequeueImplements
<1> QED BY <1>2, <1>3, <1>4, <1>5, <1>6 DEF WaiterStep

\* A parent leaves the queue only by being answered, and only the parent that finds
\* the informer removed may change the answer of the others without telling them.
LEMMA ParentImplements ==
    ASSUME IInv, NEW p \in Parents, Enqueue(p) \/ ReconcileStep(p)
    PROVE  [Abstract!Next]_<<Status, Due, Reading, lost, invalidated>>
<1>0. TypeOK
  BY DEF IInv
<1>1. CASE Enqueue(p)
  <2>1. UNCHANGED <<Status, Reading, lost, invalidated>>
    BY <1>1 DEF Enqueue, Status, Reading, lockedVars, readerVars, resetVars
  <2>2. Due' = Due \cup {p}
    BY <1>1 DEF Enqueue, Due, RequeuePending, handlerVars, waiterVars
  <2> QED
    BY <2>1, <2>2 DEF Abstract!Next, Abstract!ParentStep, Abstract!Enqueued
<1>2. ASSUME Dequeue(p), RequeuePending' = RequeuePending, UNCHANGED resetVars
      PROVE  Abstract!Asks(p)
  <2>1. /\ p \in queue /\ queue' = queue \ {p} /\ lost' = lost \ {p}
        /\ invalidated' = invalidated
    BY <1>2 DEF Dequeue, resetVars
  <2> QED BY <1>2, <2>1 DEF Abstract!Asks, Due
<1>3. CASE EnsureActive(p)
  <2>1. RequeuePending' = RequeuePending
    BY <1>3 DEF EnsureActive, RequeuePending, handlerVars, waiterVars
  <2>2. Status = "Ready" /\ Status' = "Ready"
    BY <1>3 DEF EnsureActive, Dequeue, Status, lockedVars
  <2>3. Reading' = Reading \cup {p}
    BY <1>0, <1>3 DEF EnsureActive, Reading, TypeOK
  <2> QED
    BY <1>2, <1>3, <2>1, <2>2, <2>3 DEF EnsureActive, Abstract!Next, Abstract!ParentStep,
       Abstract!ToldReady, Abstract!Becomes
<1>4. CASE EnsureUnavailable(p)
  <2>1. RequeuePending' = RequeuePending /\ Reading' = Reading
    BY <1>4 DEF EnsureUnavailable, RequeuePending, Reading, handlerVars, waiterVars
  <2>2. Status' = Status /\ Status \in {"CRDNotFound", "Pending", "Syncing"}
    BY <1>4 DEF EnsureUnavailable, Dequeue, Status, lockedVars
  <2> QED
    BY <1>2, <1>4, <2>1, <2>2 DEF EnsureUnavailable, Abstract!Next, Abstract!ParentStep,
       Abstract!ToldUnavailable, Abstract!Becomes
<1>5. ASSUME NEW w \in Waiters, EnsureRegisters(p, w)
      PROVE  [Abstract!Next]_<<Status, Due, Reading, lost, invalidated>>
  <2>1. \A v \in Waiters :
           waiterPc'[v] \in {"failed", "requeue"} <=> waiterPc[v] \in {"failed", "requeue"}
    BY <1>0, <1>5 DEF EnsureRegisters, TypeOK
  <2>2. RequeuePending' = RequeuePending /\ Reading' = Reading
    BY <1>5, <2>1 DEF EnsureRegisters, RequeuePending, Reading, handlerVars
  <2>3. Status = "Pending" /\ Status' = "Syncing"
    BY <1>5 DEF EnsureRegisters, Dequeue, Status
  <2> QED
    BY <1>2, <1>5, <2>2, <2>3 DEF EnsureRegisters, Abstract!Next, Abstract!ParentStep,
       Abstract!ToldUnavailable, Abstract!Becomes
<1>6. CASE CacheRead(p)
  <2>1. UNCHANGED <<Status, Due, lost, invalidated>> /\ p \in Reading
    BY <1>6 DEF CacheRead, Status, Due, RequeuePending, Reading, lockedVars, handlerVars,
       waiterVars, queueVars, resetVars
  <2>2. Reading' = Reading \/ Reading' = Reading \ {p}
    BY <1>0, <1>6 DEF CacheRead, Reading, TypeOK
  <2> QED
    BY <2>1, <2>2 DEF Abstract!Next, Abstract!ParentStep, Abstract!ReadEnds
<1>7. CASE HandleCacheInvalidated(p)
  <2>1. /\ Due' = Due /\ lost' = lost /\ p \in Reading /\ invalidated' = TRUE
        /\ reconcilePc[p] # "idle"
    BY <1>7 DEF HandleCacheInvalidated, Due, RequeuePending, Reading, handlerVars, queueVars
  <2>2. Reading' = Reading \ {p}
    BY <1>0, <1>7 DEF HandleCacheInvalidated, Reading, TypeOK
  <2>3. phase \notin {"new", "starting"}
    BY <2>1 DEF IInv, NoWatchBeforeWorkers
  <2>4. Status' = "CRDNotFound" /\ Status \in Abstract!Reasons \ {"NotStarted"}
    BY <1>7, <2>3 DEF HandleCacheInvalidated, TearDown, Status, Abstract!Reasons
  <2> QED
    BY <2>1, <2>2, <2>4 DEF Abstract!Next, Abstract!ParentStep,
       Abstract!ReadInvalidated, Abstract!Becomes
<1> QED
  BY <1>1, <1>3, <1>4, <1>5, <1>6, <1>7 DEF ReconcileStep

\* The watcher implements WatchStatus: every change of its answer makes all parents
\* due, and a request is lost only by a failed list or after a reader's reset.
THEOREM StatusRefinementHolds == Spec => StatusRefinement
<1>1. Init => Abstract!Init
  BY DEF Init, Abstract!Init, Status, Due, Reading, RequeuePending
<1>2. IInv /\ RequestsReachQueue /\ [Next]_vars
         => [Abstract!Next]_<<Status, Due, Reading, lost, invalidated>>
  <2> SUFFICES ASSUME IInv, RequestsReachQueue, [Next]_vars
               PROVE  [Abstract!Next]_<<Status, Due, Reading, lost, invalidated>>
    OBVIOUS
  <2>1. CASE Start \/ MarkStarted \/ WaitForSync \/ Shutdown
    BY <2>1, LifecycleImplements
  <2>2. CASE HandlerStep
    BY <2>2, HandlerImplements
  <2>3. ASSUME NEW w \in Waiters, WaiterStep(w)
        PROVE  [Abstract!Next]_<<Status, Due, Reading, lost, invalidated>>
    BY <2>3, WaiterImplements
  <2>4. ASSUME NEW p \in Parents, Enqueue(p) \/ ReconcileStep(p)
        PROVE  [Abstract!Next]_<<Status, Due, Reading, lost, invalidated>>
    BY <2>4, ParentImplements
  <2>5. CASE FeedMoves \/ InformerSyncs \/ (\E w \in Waiters : KindStep(w)) \/ UNCHANGED vars
    BY <2>5, StatusFrame DEF FeedMoves, InformerSyncs, KindStep, KindGetsInformer,
       KindSynced, vars, watcherVars, waiterVars, readerVars, handlerVars, resetVars
  <2> QED
    BY <2>1, <2>2, <2>3, <2>4, <2>5 DEF Next
<1> QED
  BY <1>1, <1>2, Invariant, RequestsInvariant, PTL DEF Spec, StatusRefinement, Abstract!Spec,
     Abstract!statusVars

-----------------------------------------------------------------------------
(* No parent is forgotten.                                                 *)

\* A step that touches none of what the two properties speak of keeps them.
LEMMA RequeueFrame ==
    ASSUME UNCHANGED <<active, queueVars, readerVars, handlerPc, wasReady, waiterPc,
                       reset>>
    PROVE  /\ NoLostActivation => NoLostActivation'
           /\ DeactivationPending => DeactivationPending'
  BY DEF readerVars, queueVars, NoLostActivation, DeactivationPending

\* What a reconcile can do to another parent: nothing.
LEMMA OtherParents ==
    ASSUME TypeOK, NEW p \in Parents, ReconcileStep(p), NEW q \in Parents, q # p
    PROVE  /\ reconcilePc'[q] = reconcilePc[q]
           /\ known'[q] = known[q]
           /\ q \in queue => q \in queue'
           /\ q \in lost => q \in lost'
  BY DEF TypeOK, ReconcileStep, EnsureActive, EnsureUnavailable, EnsureRegisters,
     CacheRead, HandleCacheInvalidated, Dequeue, queueVars

\* If the parents can be listed, every parent that was told "unavailable" is
\* reconciled again after the watcher becomes active.
THEOREM NoLostActivationHolds ==
    ASSUME "listError" \notin Faults
    PROVE  Spec => []NoLostActivation
<1>1. Init => NoLostActivation
  BY DEF Init, NoLostActivation
<1>2. TypeOK /\ NoLostActivation /\ [Next]_vars => NoLostActivation'
  <2> SUFFICES ASSUME TypeOK, NoLostActivation, [Next]_vars PROVE NoLostActivation'
    OBVIOUS
  <2>1. CASE Start \/ MarkStarted \/ WaitForSync \/ Shutdown \/ FeedMoves
             \/ InformerSyncs \/ UNCHANGED vars
    BY <2>1, RequeueFrame DEF Start, MarkStarted, WaitForSync, Shutdown, FeedMoves,
       InformerSyncs, vars, watcherVars, lockedVars, waiterVars, handlerVars, resetVars
  <2>2. CASE OnCRDRemoved
    BY <2>2 DEF OnCRDRemoved, TearDown, NoLostActivation
  <2>3. CASE OnCRDAppeared \/ HandlerRemovesInformer \/ HandlerClearsGauge
    BY <2>3 DEF OnCRDAppeared, HandlerRemovesInformer, HandlerClearsGauge,
       NoLostActivation, lockedVars, waiterVars, readerVars, queueVars
  <2>4. CASE HandlerRequeues
    BY <2>4 DEF HandlerRequeues, Adds, NoLostActivation, lockedVars, waiterVars, readerVars
  <2>5. ASSUME NEW w \in Waiters, KindStep(w) \/ WaiterStep(w)
        PROVE  NoLostActivation'
    <3>1. CASE KindStep(w) \/ SyncTimeout(w)
      BY <3>1, RequeueFrame DEF KindStep, KindGetsInformer, KindSynced, SyncTimeout,
         lockedVars, handlerVars, resetVars
    <3>2. CASE Promote(w)
      BY <3>2 DEF Promote, NoLostActivation, TypeOK
    <3>3. CASE StaleWaiterEnds(w) \/ SyncFails(w) \/ FailedWaiterRemovesInformer(w)
      <4>1. \A v \in Waiters : waiterPc[v] = "requeue" => waiterPc'[v] = "requeue"
        BY <3>3 DEF StaleWaiterEnds, SyncFails, FailedWaiterRemovesInformer,
           WaitReturnsNil, WaitReturnsError, TypeOK
      <4>2. UNCHANGED <<active, queue, readerVars>>
        BY <3>3 DEF StaleWaiterEnds, SyncFails, FailedWaiterRemovesInformer, lockedVars,
           queueVars
      <4> QED BY <4>1, <4>2 DEF NoLostActivation, readerVars
    <3>4. CASE WaiterRequeues(w)
      <4>1. PICK listed \in Listed : Adds(listed)
        BY <3>4 DEF WaiterRequeues
      <4>2. queue' = Parents
        BY <4>1, AddsAll
      <4> QED BY <4>2 DEF NoLostActivation
    <3> QED BY <2>5, <3>1, <3>2, <3>3, <3>4 DEF WaiterStep
  <2>6. ASSUME NEW p \in Parents, Enqueue(p)
        PROVE  NoLostActivation'
    BY <2>6 DEF Enqueue, NoLostActivation, lockedVars, waiterVars, readerVars
  <2>7. ASSUME NEW p \in Parents, ReconcileStep(p), active'
        PROVE  NoLostActivation'
    <3>1. active
      BY <2>7 DEF ReconcileStep, EnsureActive, EnsureUnavailable, EnsureRegisters,
         CacheRead, HandleCacheInvalidated, TearDown, lockedVars
    <3>2. EnsureActive(p) \/ CacheRead(p)
      BY <2>7, <3>1 DEF ReconcileStep, EnsureUnavailable, EnsureRegisters,
         HandleCacheInvalidated, TearDown
    <3>3. waiterPc' = waiterPc
      BY <3>2 DEF EnsureActive, CacheRead, waiterVars
    <3>4. known'[p] # "unavailable" \/ reconcilePc'[p] # "idle"
      BY <3>2 DEF EnsureActive, CacheRead, TypeOK
    <3> QED
      BY <2>7, <3>1, <3>3, <3>4, OtherParents DEF NoLostActivation
  <2>8. CASE ~active'
    BY <2>8 DEF NoLostActivation
  <2> QED
    BY <2>1, <2>2, <2>3, <2>4, <2>5, <2>6, <2>7, <2>8 DEF Next, HandlerStep
<1> QED
  BY <1>1, <1>2, TypeCorrect, PTL DEF Spec

\* Every parent that read the cache is reconciled again after onCRDChange takes the
\* watch away, unless the request for it is one of those that get lost.
THEOREM NoLostDeactivationHolds == Spec => []NoLostDeactivation
<1>1. Init => DeactivationPending
  BY DEF Init, DeactivationPending
<1>2. TypeOK /\ DeactivationPending /\ [Next]_vars => DeactivationPending'
  <2> SUFFICES ASSUME TypeOK, DeactivationPending, [Next]_vars PROVE DeactivationPending'
    OBVIOUS
  <2>1. CASE Start \/ MarkStarted \/ WaitForSync \/ Shutdown \/ FeedMoves
             \/ InformerSyncs \/ UNCHANGED vars
    BY <2>1, RequeueFrame DEF Start, MarkStarted, WaitForSync, Shutdown, FeedMoves,
       InformerSyncs, vars, watcherVars, lockedVars, waiterVars, handlerVars, resetVars
  <2>2. CASE OnCRDRemoved
    <3>1. wasReady' = active /\ UNCHANGED <<queue, lost, readerVars, reset>>
      BY <2>2 DEF OnCRDRemoved, queueVars, resetVars
    <3>2. active => handlerPc' \in {"remove", "gauge"}
      BY <2>2 DEF OnCRDRemoved, HandlerAt
    <3>3. handlerPc = "idle"
      BY <2>2 DEF OnCRDRemoved, HandlerFree
    <3> QED BY <3>1, <3>2, <3>3 DEF DeactivationPending, readerVars, TypeOK
  <2>3. CASE OnCRDAppeared \/ HandlerRemovesInformer \/ HandlerClearsGauge
    BY <2>3 DEF OnCRDAppeared, HandlerFree, HandlerRemovesInformer, HandlerClearsGauge,
       HandlerAt, DeactivationPending, lockedVars, readerVars, queueVars, resetVars
  <2>4. CASE HandlerRequeues
    <3>1. \A p \in Parents : p \in queue' \/ p \in lost'
      BY <2>4 DEF HandlerRequeues, Adds
    <3> QED BY <3>1 DEF DeactivationPending
  <2>5. ASSUME NEW w \in Waiters, KindStep(w) \/ WaiterStep(w)
        PROVE  DeactivationPending'
    <3>1. CASE Promote(w)
      BY <3>1 DEF Promote, DeactivationPending
    <3>2. CASE WaiterRequeues(w)
      <4>1. \A p \in Parents : p \in queue' \/ p \in lost'
        BY <3>2 DEF WaiterRequeues, Adds
      <4> QED BY <4>1 DEF DeactivationPending
    <3>3. CASE KindStep(w) \/ SyncTimeout(w) \/ StaleWaiterEnds(w) \/ SyncFails(w)
               \/ FailedWaiterRemovesInformer(w)
      <4>1. UNCHANGED <<active, queueVars, readerVars, handlerVars, reset>>
        BY <3>3 DEF KindStep, KindGetsInformer, KindSynced, SyncTimeout, StaleWaiterEnds,
           SyncFails, FailedWaiterRemovesInformer, lockedVars, resetVars
      <4> QED BY <4>1 DEF DeactivationPending, readerVars, handlerVars, queueVars
    <3> QED BY <2>5, <3>1, <3>2, <3>3 DEF WaiterStep
  <2>6. ASSUME NEW p \in Parents, Enqueue(p)
        PROVE  DeactivationPending'
    BY <2>6 DEF Enqueue, DeactivationPending, lockedVars, handlerVars, readerVars, resetVars
  <2>7. ASSUME NEW p \in Parents, ReconcileStep(p), ~active', ~reset'
        PROVE  DeactivationPending'
    <3>1. UNCHANGED <<active, handlerVars, reset>>
      BY <2>7 DEF ReconcileStep, EnsureActive, EnsureUnavailable, EnsureRegisters,
         CacheRead, HandleCacheInvalidated, lockedVars, resetVars
    <3>2. EnsureUnavailable(p) \/ (\E w \in Waiters : EnsureRegisters(p, w)) \/ CacheRead(p)
      BY <2>7, <3>1 DEF ReconcileStep, EnsureActive, HandleCacheInvalidated
    <3>3. CASE CacheRead(p)
      BY <2>7, <3>1, <3>3, OtherParents DEF CacheRead, DeactivationPending, handlerVars,
         queueVars
    <3>4. CASE ~CacheRead(p)
      <4>1. known'[p] = "unavailable" /\ reconcilePc'[p] = "idle"
        BY <3>2, <3>4 DEF EnsureUnavailable, EnsureRegisters, Dequeue, TypeOK
      <4> QED
        BY <2>7, <3>1, <4>1, OtherParents DEF DeactivationPending, handlerVars
    <3> QED BY <3>3, <3>4
  <2>8. CASE active' \/ reset'
    BY <2>8 DEF DeactivationPending
  <2> QED
    BY <2>1, <2>2, <2>3, <2>4, <2>5, <2>6, <2>7, <2>8 DEF Next, HandlerStep
<1>3. DeactivationPending => NoLostDeactivation
  BY DEF DeactivationPending, NoLostDeactivation
<1> QED
  BY <1>1, <1>2, <1>3, TypeCorrect, PTL DEF Spec
=============================================================================
