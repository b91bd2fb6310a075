----------------------------- MODULE FlagProofs -----------------------------
(***************************************************************************)
(* Proofs about crdExists: it follows the CRD through the calls of         *)
(* onCRDChange, and it is right from the first reconcile on.               *)
(***************************************************************************)
EXTENDS WatcherProofs, SequenceTheorems

-----------------------------------------------------------------------------
(* Sequences of calls.                                                     *)

\* What is appended last is called last.
LEMMA LastAppended ==
    ASSUME NEW S, NEW s \in Seq(S), NEW t \in Seq(S), t # <<>>
    PROVE  s \o t # <<>> /\ (s \o t)[Len(s \o t)] = t[Len(t)]
<1>1. Len(t) \in Nat /\ Len(t) > 0 /\ Len(s) \in Nat
  OBVIOUS
<1>2. Len(s \o t) = Len(s) + Len(t)
  OBVIOUS
<1>3. (s \o t)[Len(s) + Len(t)] = t[Len(t)]
  BY <1>1
<1> QED
  BY <1>1, <1>2, <1>3

\* Making the first call leaves the last one, unless it was the last.
LEMMA LastOfTail ==
    ASSUME NEW S, NEW s \in Seq(S), s # <<>>
    PROVE  /\ Tail(s) = <<>> => s[Len(s)] = Head(s)
           /\ Tail(s) # <<>> => Tail(s)[Len(Tail(s))] = s[Len(s)]
<1>1. Len(s) \in Nat /\ Len(s) # 0
  BY EmptySeq
<1>2. Tail(s) \in Seq(S) /\ Len(Tail(s)) = Len(s) - 1
  BY HeadTailProperties
<1>2a. Head(s) = s[1]
  BY <1>1
<1>3. \A i \in 1 .. Len(Tail(s)) : Tail(s)[i] = s[i + 1]
  BY HeadTailProperties
<1>4. Tail(s) = <<>> <=> Len(Tail(s)) = 0
  BY <1>2, EmptySeq
<1>5. CASE Tail(s) = <<>>
  BY <1>1, <1>2, <1>2a, <1>4, <1>5
<1>6. CASE Tail(s) # <<>>
  <2>1. Len(s) - 1 \in 1 .. Len(Tail(s))
    BY <1>1, <1>2, <1>4, <1>6
  <2> QED BY <1>1, <1>2, <1>3, <1>6, <2>1
<1> QED BY <1>5, <1>6

\* The last call a notification turns into is about the new object, or about the
\* old one if that is gone.
LEMMA LastCallFor ==
    ASSUME NEW old \in CRDObjects \cup {NoCRD}, NEW new \in CRDObjects \cup {NoCRD},
           old # NoCRD \/ new # NoCRD
    PROVE  /\ CallsFor(old, new) # <<>>
           /\ CallsFor(old, new)[Len(CallsFor(old, new))].object =
                 IF new = NoCRD THEN old ELSE new
<1>1. CASE old = NoCRD
  <2>1. CallsFor(old, new) = <<Call(new, "only")>>
    BY <1>1 DEF CallsFor
  <2> QED BY <1>1, <2>1 DEF Call
<1>2. CASE old # NoCRD /\ new = NoCRD
  <2>1. CallsFor(old, new) = <<Call(old, "only")>>
    BY <1>2 DEF CallsFor
  <2> QED BY <1>2, <2>1 DEF Call
<1>3. CASE old # NoCRD /\ new # NoCRD
  <2>1. CallsFor(old, new) = <<Call(old, "old"), Call(new, "new")>>
    BY <1>3 DEF CallsFor
  <2> QED BY <1>3, <2>1 DEF Call
<1> QED BY <1>1, <1>2, <1>3

-----------------------------------------------------------------------------
(* The flag follows the CRD.                                               *)

\* A change reaches a connected informer, and the last call is about it.
LEMMA ChangeFollows ==
    ASSUME FeedTypeOK, connected, stored = crd,
           NEW new \in CRDObjects \cup {NoCRD}, Change(new),
           crd # NoCRD \/ new # NoCRD, new = NoCRD => crd.deleting
    PROVE  /\ connected' /\ stored' = crd' /\ calls' # <<>>
           /\ CRDRemoved(LastCall)' <=> ~Usable'
<1>1. CallsFor(crd, new) \in Seq(Calls) /\ calls \in Seq(Calls)
  BY CallsForType DEF FeedTypeOK
<1>2. calls' = calls \o CallsFor(crd, new) /\ crd' = new /\ stored' = new /\ connected'
  BY DEF Change
<1>3. calls' # <<>> /\ LastCall' = IF new = NoCRD THEN crd ELSE new
  <2> DEFINE t == CallsFor(crd, new)
  <2>1. t # <<>> /\ t[Len(t)].object = IF new = NoCRD THEN crd ELSE new
    BY LastCallFor DEF FeedTypeOK
  <2>2. calls \o t # <<>> /\ (calls \o t)[Len(calls \o t)] = t[Len(t)]
    <3> HIDE DEF t
    <3> QED BY <1>1, <2>1, LastAppended DEF t
  <2> QED BY <1>2, <2>1, <2>2 DEF LastCall
<1> QED
  BY <1>2, <1>3, FeedAssumption DEF CRDRemoved, Usable

\* So does every step of the feed that counts.
LEMMA FeedFollows ==
    ASSUME TypeOK, FlagFollows, FeedMoves
    PROVE  FlagFollows'
<1> SUFFICES ASSUME WatchNeverLost' PROVE FlagFollows'
  BY DEF FlagFollows
<1>0. FeedTypeOK /\ churn \in Nat
  BY DEF TypeOK, FeedTypeOK
<1>1. UNCHANGED <<phase, crdExists, reset, handlerPc, crdSynced>>
  BY DEF FeedMoves, watcherVars, lockedVars, handlerVars, resetVars
<1>2. WatchNeverLost /\ ~Disconnect
  BY <1>0 DEF WatchNeverLost, FeedMoves, FeedStep, Install, SetEstablished, MarkDeleting,
     Finalize, Change, Disconnect, Resync, Relist
<1>3. CASE phase = "new"
  <2>1. UNCHANGED <<connected, stored, calls>>
    BY <1>2, <1>3 DEF FlagFollows, FeedMoves, FeedStep, Install, SetEstablished,
       MarkDeleting, Finalize, Change, Resync
  <2> QED BY <1>1, <1>2, <1>3, <2>1 DEF FlagFollows
<1>4. CASE phase # "new"
  <2>1. connected /\ stored = crd
    BY <1>2, <1>4 DEF FlagFollows
  <2>2. churn' # 0 /\ connected' /\ stored' = crd' /\ calls' # <<>>
        /\ (CRDRemoved(LastCall)' <=> ~Usable')
    <3>0. ASSUME NEW new \in CRDObjects \cup {NoCRD}, Change(new),
                 crd # NoCRD \/ new # NoCRD, new = NoCRD => crd.deleting
          PROVE  churn' = churn + 1 /\ connected' /\ stored' = crd' /\ calls' # <<>>
                 /\ (CRDRemoved(LastCall)' <=> ~Usable')
      <4>1. churn' = churn + 1
        BY <3>0 DEF Change
      <4> QED BY <1>0, <2>1, <3>0, <4>1, ChangeFollows
    <3>1. CASE Install
      <4>1. [established |-> FALSE, deleting |-> FALSE] \in CRDObjects
        BY DEF CRDObjects
      <4> QED BY <1>0, <3>0, <3>1, <4>1, FeedAssumption DEF Install
    <3>2. CASE SetEstablished
      <4>1. [crd EXCEPT !.established = ~crd.established] \in CRDObjects
        BY <1>0, <3>2 DEF SetEstablished, FeedTypeOK, CRDObjects
      <4> QED BY <1>0, <3>0, <3>2, <4>1, FeedAssumption DEF SetEstablished
    <3>3. CASE MarkDeleting
      <4>1. [crd EXCEPT !.deleting = TRUE] \in CRDObjects
        BY <1>0, <3>3 DEF MarkDeleting, FeedTypeOK, CRDObjects
      <4> QED BY <1>0, <3>0, <3>3, <4>1, FeedAssumption DEF MarkDeleting
    <3>4. CASE Finalize
      BY <1>0, <3>0, <3>4 DEF Finalize
    <3>5. CASE Resync
      <4>1. CallsFor(crd, crd) \in Seq(Calls) /\ crd \in CRDObjects
        BY <1>0, <2>1, <3>5, CallsForType DEF Resync, FeedTypeOK
      <4>2. /\ calls' = calls \o CallsFor(crd, crd)
            /\ UNCHANGED <<crd, connected, stored>> /\ churn' = churn + 1
        BY <2>1, <3>5 DEF Resync
      <4>3. calls' # <<>> /\ LastCall' = crd
        <5> DEFINE t == CallsFor(crd, crd)
        <5>1. t # <<>> /\ t[Len(t)].object = crd
          BY <4>1, FeedAssumption, LastCallFor
        <5>2. calls \o t # <<>> /\ (calls \o t)[Len(calls \o t)] = t[Len(t)]
          <6>1. t \in Seq(Calls) /\ calls \in Seq(Calls)
            BY <1>0, <4>1 DEF FeedTypeOK
          <6> HIDE DEF t
          <6> QED BY <5>1, <6>1, LastAppended
        <5> QED BY <4>2, <5>1, <5>2 DEF LastCall
      <4> QED
        BY <1>0, <2>1, <4>1, <4>2, <4>3, FeedAssumption DEF CRDRemoved, Usable
    <3> QED
      BY <1>2, <2>1, <3>1, <3>2, <3>3, <3>4, <3>5 DEF FeedMoves, FeedStep, Relist
  <2> QED BY <1>1, <1>2, <1>4, <2>2 DEF FlagFollows
<1> QED BY <1>3, <1>4

\* A step that leaves the feed, the flag and the phase alone.
LEMMA FlagFrame ==
    ASSUME FlagFollows,
           UNCHANGED <<feedVars, phase, crdExists, reset, handlerPc, crdSynced>>
    PROVE  FlagFollows'
  BY DEF FlagFollows, WatchNeverLost, LastCall, Usable, feedVars

\* The first list, and the start of the workers after the calls it made.
LEMMA StartFollows ==
    ASSUME TypeOK, FlagFollows, Start \/ MarkStarted \/ WaitForSync \/ Shutdown
    PROVE  FlagFollows'
<1>1. CASE Start
  <2> SUFFICES ASSUME WatchNeverLost' PROVE FlagFollows'
    BY DEF FlagFollows
  <2>1. /\ phase = "new" /\ phase' = "starting"
        /\ UNCHANGED <<crd, churn, crdExists, reset, handlerPc>>
        /\ connected' = TRUE /\ stored' = crd /\ calls' = calls \o CallsFor(stored, crd)
        /\ crdSynced' = (crd = NoCRD)
    BY <1>1 DEF Start, Relist, lockedVars, resetVars
  <2>2. stored = NoCRD /\ calls = <<>> /\ ~crdExists /\ handlerPc = "idle"
    BY <2>1 DEF FlagFollows, WatchNeverLost
  <2>3. calls' = IF crd = NoCRD THEN <<>> ELSE <<Call(crd, "only")>>
    BY <2>1, <2>2 DEF CallsFor
  <2>4. calls' # <<>> => LastCall' = crd
    BY <2>3 DEF LastCall, Call
  <2>5. Usable' = Usable
    BY <2>1 DEF Usable
  <2>6. calls' = <<>> => ~Usable
    BY <2>3 DEF Usable
  <2>7. calls' # <<>> => (CRDRemoved(LastCall)' <=> ~Usable)
    BY <2>3, <2>4 DEF CRDRemoved, Usable
  <2>8. calls' # <<>> => Len(calls') = 1 /\ ~crdSynced'
    <3>1. crd # NoCRD => calls' = <<Call(crd, "only")>> /\ Len(calls') = 1
      BY <2>3
    <3>2. crd # NoCRD => ~crdSynced'
      BY <2>1
    <3> QED BY <2>3, <3>1, <3>2
  <2> QED BY <2>1, <2>2, <2>5, <2>6, <2>7, <2>8 DEF FlagFollows
<1>2. CASE MarkStarted \/ WaitForSync \/ Shutdown
  <2>1. /\ UNCHANGED <<feedVars, crdExists, reset, handlerPc, crdSynced>>
        /\ phase # "new" /\ phase' # "new"
        /\ phase' \in {"running", "stopped"} => phase \in {"running", "stopped"} \/ crdSynced
    BY <1>2 DEF MarkStarted, WaitForSync, Shutdown, lockedVars, handlerVars, resetVars
  <2> QED BY <2>1 DEF FlagFollows, WatchNeverLost, LastCall, Usable, feedVars
<1> QED BY <1>1, <1>2

\* onCRDChange sets the flag to what its call says, so the last call decides.
LEMMA HandlerFollows ==
    ASSUME TypeOK, FlagFollows, HandlerStep
    PROVE  FlagFollows'
<1>1. CASE OnCRDRemoved \/ OnCRDAppeared
  <2> SUFFICES ASSUME WatchNeverLost' PROVE FlagFollows'
    BY DEF FlagFollows
  <2>1. /\ phase # "new" /\ calls # <<>> /\ calls' = Tail(calls)
        /\ UNCHANGED <<crd, connected, stored, churn, phase, reset>>
        /\ crdExists' = ~CRDRemoved(Head(calls).object)
        /\ crdSynced => crdSynced'
    BY <1>1 DEF OnCRDRemoved, OnCRDAppeared, HandlerFree, TearDown, HandlerAt, resetVars
  <2>2. calls \in Seq(Calls)
    BY DEF TypeOK, FeedTypeOK
  <2>3. /\ calls' = <<>> => LastCall = Head(calls).object
        /\ calls' # <<>> => LastCall' = LastCall
    BY <2>1, <2>2, LastOfTail DEF LastCall
  <2>4. connected /\ stored = crd /\ (CRDRemoved(LastCall) <=> ~Usable)
    BY <2>1 DEF FlagFollows, WatchNeverLost
  <2>5. /\ phase \in {"running", "stopped"} => crdSynced'
        /\ churn = 0 => calls' = <<>>
    <3>1. churn = 0 => Len(calls) = 1
      BY <2>1 DEF FlagFollows, WatchNeverLost
    <3>2. Len(calls) = 1 => Tail(calls) = <<>>
      BY <2>1, <2>2
    <3> QED BY <2>1, <3>1, <3>2 DEF FlagFollows, WatchNeverLost
  <2>6. calls' # <<>> => (CRDRemoved(LastCall)' <=> ~Usable')
    BY <2>1, <2>3, <2>4 DEF Usable, CRDRemoved
  <2>7. calls' = <<>> => (crdExists' <=> Usable')
    BY <2>1, <2>3, <2>4 DEF Usable
  <2> QED BY <2>1, <2>4, <2>5, <2>6, <2>7 DEF FlagFollows
<1>2. CASE HandlerRemovesInformer \/ HandlerClearsGauge \/ HandlerRequeues
  <2>1. /\ UNCHANGED <<feedVars, phase, crdExists, reset>> /\ handlerPc # "idle"
        /\ crdSynced => crdSynced'
    BY <1>2 DEF HandlerRemovesInformer, HandlerClearsGauge, HandlerRequeues, HandlerAt,
       lockedVars, resetVars
  <2> QED BY <2>1 DEF FlagFollows, WatchNeverLost, LastCall, Usable, feedVars
<1> QED BY <1>1, <1>2 DEF HandlerStep

\* Waiters never set the flag; the one that clears reset promotes a watch whose CRD
\* is known.
LEMMA WaiterFollows ==
    ASSUME IInv, FlagFollows, NEW w \in Waiters, WaiterStep(w)
    PROVE  FlagFollows'
<1>1. CASE Promote(w)
  <2>1. crdExists
    BY <1>1, CurrentWaiter DEF Promote, WaitReturnsNil
  <2>2. UNCHANGED <<feedVars, phase, crdExists, handlerPc, crdSynced>>
    BY <1>1 DEF Promote, handlerVars
  <2> QED BY <2>1, <2>2 DEF FlagFollows, WatchNeverLost, LastCall, Usable, feedVars
<1>2. CASE ~Promote(w)
  BY <1>2, FlagFrame DEF WaiterStep, SyncTimeout, StaleWaiterEnds, SyncFails,
     FailedWaiterRemovesInformer, WaiterRequeues, lockedVars, handlerVars, resetVars
<1> QED BY <1>1, <1>2

\* A reader that resets the flag says so.
LEMMA ParentFollows ==
    ASSUME FlagFollows, NEW p \in Parents, Enqueue(p) \/ ReconcileStep(p)
    PROVE  FlagFollows'
<1>1. CASE HandleCacheInvalidated(p)
  <2>1. UNCHANGED <<feedVars, phase, handlerPc, crdSynced>> /\ ~crdExists' /\ reset'
    BY <1>1 DEF HandleCacheInvalidated, TearDown, handlerVars
  <2> QED BY <2>1 DEF FlagFollows, WatchNeverLost, LastCall, Usable, feedVars
<1>2. CASE ~HandleCacheInvalidated(p)
  BY <1>2, FlagFrame DEF Enqueue, ReconcileStep, EnsureActive, EnsureUnavailable,
     EnsureRegisters, CacheRead, lockedVars, handlerVars, resetVars
<1> QED BY <1>1, <1>2

\* FlagFollows is inductive, given the invariant of the watcher.
THEOREM FlagInvariant == Spec => []FlagFollows
<1>1. Init => FlagFollows
  BY DEF Init, FeedInit, FlagFollows
<1>2. IInv /\ FlagFollows /\ [Next]_vars => FlagFollows'
  <2> SUFFICES ASSUME IInv, FlagFollows, [Next]_vars PROVE FlagFollows'
    OBVIOUS
  <2>0. TypeOK
    BY DEF IInv
  <2>1. CASE Start \/ MarkStarted \/ WaitForSync \/ Shutdown
    BY <2>0, <2>1, StartFollows
  <2>2. CASE FeedMoves
    BY <2>0, <2>2, FeedFollows
  <2>3. CASE HandlerStep
    BY <2>0, <2>3, HandlerFollows
  <2>4. ASSUME NEW w \in Waiters, WaiterStep(w) PROVE FlagFollows'
    BY <2>4, WaiterFollows
  <2>5. ASSUME NEW p \in Parents, Enqueue(p) \/ ReconcileStep(p) PROVE FlagFollows'
    BY <2>5, ParentFollows
  <2>6. CASE InformerSyncs \/ (\E w \in Waiters : KindStep(w)) \/ UNCHANGED vars
    BY <2>6, FlagFrame DEF InformerSyncs, KindStep, KindGetsInformer, KindSynced, vars,
       watcherVars, lockedVars, handlerVars, resetVars
  <2> QED
    BY <2>1, <2>2, <2>3, <2>4, <2>5, <2>6 DEF Next
<1> QED
  BY <1>1, <1>2, Invariant, PTL DEF Spec

\* Unless the CRD watch is lost, crdExists says with every event delivered whether the
\* CRD can be used; only a reader's reset makes it FALSE for a usable one.
THEOREM FlagTracksFeedHolds ==
    ASSUME "lossyWatch" \notin Faults
    PROVE  Spec => []FlagTracksFeed
<1>1. FlagFollows => FlagTracksFeed
  BY DEF FlagFollows, WatchNeverLost, FlagTracksFeed, FeedQuiet
<1> QED
  BY <1>1, FlagInvariant, PTL

\* With any of the faults, the first reconciles find crdExists right.
THEOREM FirstReconcileAccurateHolds == Spec => []FirstReconcileAccurate
<1>1. FlagFollows => FirstReconcileAccurate
  BY DEF FlagFollows, WatchNeverLost, FirstReconcileAccurate
<1> QED
  BY <1>1, FlagInvariant, PTL
=============================================================================
