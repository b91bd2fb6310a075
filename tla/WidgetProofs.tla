---------------------------- MODULE WidgetProofs ----------------------------
(***************************************************************************)
(* Proofs about the widget controller, for any number of names, settings,  *)
(* changes and failures.                                                   *)
(***************************************************************************)
EXTENDS WidgetController, TLAPS, SequenceTheorems

-----------------------------------------------------------------------------
(* Types.                                                                  *)

LEMMA StatusTypes ==
    /\ Absent \in Conditions
    /\ NoConditions \in [Integrations -> Conditions]
    /\ NoObjects \in [Names -> Settings \cup {NoObject}]
    /\ \A id \in Nat : \A refs \in [Integrations -> Names \cup {NoName}] :
          Created(id, refs) \in WidgetType
  BY DEF Absent, Conditions, NoConditions, NoObjects, Created, WidgetType, StatusType

\* A new version of the Widget keeps the types of what it is written to.
LEMMA WriteType ==
    ASSUME TypeOK, NEW new \in WidgetType \cup {NoWidget}, Writes(new)
    PROVE  /\ widget' \in WidgetType \cup {NoWidget}
           /\ events' \in Seq(WidgetType \cup {NoWidget})
  BY DEF TypeOK, Writes

LEMMA ChangesType ==
    ASSUME TypeOK, CountChange
    PROVE  changes' \in 0 .. MaxChanges
  BY WidgetAssumption DEF TypeOK, CountChange

LEMMA EditType ==
    ASSUME TypeOK, EditRefs \/ DeleteWidget \/ CreateWidget
    PROVE  TypeOK'
<1>1. CountChange
  BY DEF EditRefs, DeleteWidget, CreateWidget
<1>1a. changes + 1 \in Nat
  BY WidgetAssumption DEF TypeOK
<1>2. UNCHANGED <<object, watchVars, cached, queued, localVars, history>>
  BY DEF EditRefs, DeleteWidget, CreateWidget
<1>3. PICK new \in WidgetType \cup {NoWidget} : Writes(new)
  <2>1. CASE EditRefs
    <3>1. PICK refs \in [Integrations -> Names \cup {NoName}] :
             Writes([widget EXCEPT !.refs = refs, !.generation = @ + 1])
      BY <2>1 DEF EditRefs
    <3>2. widget \in WidgetType
      BY <2>1 DEF EditRefs, TypeOK
    <3>3. widget.generation + 1 \in Nat
      BY <3>2 DEF WidgetType
    <3>4. [widget EXCEPT !.refs = refs] \in WidgetType
      BY <3>2 DEF WidgetType
    <3>5. ASSUME NEW w \in WidgetType, NEW g \in Nat
          PROVE  [w EXCEPT !.generation = g] \in WidgetType
      BY DEF WidgetType
    <3>6. [widget EXCEPT !.refs = refs, !.generation = @ + 1] \in WidgetType
      BY <3>3, <3>4, <3>5
    <3> QED BY <3>1, <3>6
  <2>2. CASE DeleteWidget
    BY <2>2 DEF DeleteWidget
  <2>3. CASE CreateWidget
    BY <1>1a, <2>3, StatusTypes DEF CreateWidget
  <2> QED BY <2>1, <2>2, <2>3
<1>4. changes' \in 0 .. MaxChanges
  BY <1>1, ChangesType
<1>5. /\ widget' \in WidgetType \cup {NoWidget}
      /\ events' \in Seq(WidgetType \cup {NoWidget})
  BY <1>3, WriteType
<1> QED
  BY <1>2, <1>4, <1>5 DEF TypeOK, watchVars, localVars, history

LEMMA CacheType ==
    ASSUME TypeOK, WidgetEvent \/ Outage
    PROVE  TypeOK'
<1>1. CASE WidgetEvent
  <2>1. /\ Head(events) \in WidgetType \cup {NoWidget}
        /\ Tail(events) \in Seq(WidgetType \cup {NoWidget})
    BY <1>1 DEF WidgetEvent, TypeOK
  <2> QED
    BY <1>1, <2>1 DEF WidgetEvent, TypeOK, watchVars, localVars
<1>2. CASE Outage
  <2>1. events' \in Seq(WidgetType \cup {NoWidget})
    <3> DEFINE S == WidgetType \cup {NoWidget}
    <3>1. widget \in S
      BY DEF TypeOK
    <3>2. <<>> \in Seq(S) /\ <<widget>> \in Seq(S)
      <4> HIDE DEF S
      <4> QED BY <3>1
    <3> QED BY <1>2, <3>2 DEF Outage
  <2> QED
    BY <1>2, <2>1 DEF Outage, TypeOK, watchVars, localVars, history
<1> QED BY <1>1, <1>2

LEMMA WatchType ==
    ASSUME TypeOK, NEW i \in Integrations, WatchStep(i)
    PROVE  TypeOK'
<1> USE DEF TypeOK, apiVars, watchVars, localVars, history
<1>1. CASE CRDAppears(i)
  BY <1>1, ChangesType DEF CRDAppears
<1>2. CASE CRDDisappears(i)
  BY <1>2, ChangesType DEF CRDDisappears
<1>3. CASE SyncSucceeds(i)
  BY <1>3 DEF SyncSucceeds, Objects
<1>4. CASE SyncFails(i)
  BY <1>4 DEF SyncFails
<1>5. CASE RequeueWidgets(i)
  BY <1>5 DEF RequeueWidgets, HasReference
<1>6. CASE RequeueFails(i)
  BY <1>6, ChangesType DEF RequeueFails, HasReference
<1>7. CASE ObjectChanges(i)
  <2>1. object' \in Objects
    BY <1>7 DEF ObjectChanges, Objects
  <2> QED BY <1>7, <2>1, ChangesType DEF ObjectChanges
<1>8. CASE ObjectEvent(i)
  <2>1. PICK n \in Names : /\ objectCached' = [objectCached EXCEPT ![i][n] = object[i][n]]
                           /\ QueueReferring(i, n)
    BY <1>8 DEF ObjectEvent
  <2>2. objectCached' \in Objects
    BY <2>1 DEF Objects
  <2>3. queued' \in BOOLEAN /\ missed' \in BOOLEAN /\ changes' \in 0 .. MaxChanges
    BY <2>1, ChangesType DEF QueueReferring
  <2> QED BY <1>8, <2>2, <2>3 DEF ObjectEvent
<1>9. CASE OtherRegisters(i)
  BY <1>9, StatusTypes DEF OtherRegisters, Register, Objects
<1>10. CASE OtherResets(i)
  BY <1>10, ChangesType DEF OtherResets, Reset, HasReference
<1> QED
  BY <1>1, <1>2, <1>3, <1>4, <1>5, <1>6, <1>7, <1>8, <1>9, <1>10 DEF WatchStep

LEMMA MarkType ==
    ASSUME TypeOK, copy # NoWidget, NEW i \in Integrations,
           NEW reason \in {"CRDNotAvailable", "NotFound", "Applied"},
           NEW about \in Names \cup Settings \cup {NoName}, Mark(i, reason, about)
    PROVE  conditions' \in [Integrations -> Conditions]
<1>1. copy.generation \in Nat
  BY DEF TypeOK, WidgetType
<1>2. [reason |-> reason, about |-> about, generation |-> copy.generation] \in Conditions
  BY <1>1 DEF Conditions
<1> QED
  BY <1>2 DEF Mark, TypeOK

LEMMA FinishType ==
    ASSUME NEW i \in Integrations, Finish(i)
    PROVE  /\ pc' \in {"idle", "patch"} \cup Integrations
           /\ ensured' = FALSE
  BY WidgetAssumption DEF Finish, NextPart, Wanted

LEMMA PartType ==
    ASSUME TypeOK, NEW i \in Integrations, PartOfReconcile(i), copy # NoWidget,
           i \in Wanted(copy)
    PROVE  TypeOK'
<1> USE DEF TypeOK, apiVars, watchVars, localVars, history
<1>1. CASE WatchActive(i)
  BY <1>1 DEF WatchActive
<1>2. CASE WatchInactive(i)
  <2>1. conditions' \in [Integrations -> Conditions]
    BY <1>2, MarkType DEF WatchInactive, MarkCRDNotAvailable
  <2>2. /\ watch' \in [Integrations -> {"CRDNotFound", "Pending", "Syncing", "Ready"}]
        /\ objectCached' \in Objects
    BY <1>2, StatusTypes DEF WatchInactive, Register, Objects
  <2> QED BY <1>2, <2>1, <2>2, FinishType DEF WatchInactive
<1>3. CASE ReadObject(i)
  <2>1. copy.refs[i] \in Names
    BY DEF WidgetType, Wanted
  <2>2. objectCached[i][copy.refs[i]] \in Settings \cup {NoObject}
    BY <2>1 DEF Objects
  <2>3. conditions' \in [Integrations -> Conditions]
    BY <1>3, <2>1, <2>2, MarkType DEF ReadObject
  <2> QED BY <1>3, <2>3, FinishType DEF ReadObject
<1>4. CASE ReadInvalidated(i)
  <2>1. conditions' \in [Integrations -> Conditions]
    BY <1>4, MarkType DEF ReadInvalidated, MarkCRDNotAvailable
  <2> QED BY <1>4, <2>1, FinishType DEF ReadInvalidated, Reset
<1>5. CASE ReadFails(i)
  BY <1>5, ChangesType, FinishType DEF ReadFails
<1> QED
  BY <1>1, <1>2, <1>3, <1>4, <1>5 DEF PartOfReconcile

LEMMA BeginType ==
    ASSUME TypeOK, BeginReconcile
    PROVE  TypeOK'
<1> USE DEF TypeOK, apiVars, watchVars, localVars, BeginReconcile, CacheLacksPatch
<1>1. CASE cached = NoWidget
  BY <1>1
<1>2. CASE cached # NoWidget
  <2>1. pc' \in {"idle", "patch"} \cup Integrations
    BY <1>2, WidgetAssumption DEF NextPart, Wanted
  <2>2. cached.status.conditions \in [Integrations -> Conditions]
    BY <1>2 DEF WidgetType, StatusType
  <2>3. conditions' \in [Integrations -> Conditions]
    BY <1>2, <2>2, StatusTypes
  <2> QED BY <1>2, <2>1, <2>3
<1> QED BY <1>1, <1>2

\* What Reconcile computes is a status, and so is what the patch makes of it.
LEMMA PatchType ==
    ASSUME TypeOK, copy # NoWidget, widget # NoWidget
    PROVE  [widget EXCEPT !.status = MergePatch(@)] \in WidgetType
<1>1. /\ copy.generation \in Nat
      /\ widget \in WidgetType /\ widget.status \in StatusType
  BY DEF TypeOK, WidgetType
<1>2. MergePatch(widget.status) \in StatusType
  BY <1>1 DEF MergePatch, Computed, StatusType, TypeOK
<1>3. ASSUME NEW w \in WidgetType, NEW s \in StatusType
      PROVE  [w EXCEPT !.status = s] \in WidgetType
  BY DEF WidgetType
<1> QED BY <1>1, <1>2, <1>3

LEMMA EndType ==
    ASSUME TypeOK, copy # NoWidget,
           ReturnError \/ PatchFails \/ NothingToPatch \/ PatchStatus \/ PatchResponseLost
    PROVE  TypeOK'
<1>1. /\ EndReconcile
      /\ queued' \in BOOLEAN
      /\ UNCHANGED changes \/ CountChange
  BY DEF TypeOK, ReturnError, PatchFails, NothingToPatch, PatchStatus, PatchResponseLost,
     PatchApplied
<1>2. changes' \in 0 .. MaxChanges
  BY <1>1, ChangesType DEF TypeOK
<1>3. /\ widget' \in WidgetType \cup {NoWidget}
      /\ events' \in Seq(WidgetType \cup {NoWidget})
  <2>1. CASE UNCHANGED <<widget, events>>
    BY <2>1 DEF TypeOK
  <2>2. CASE ~UNCHANGED <<widget, events>>
    <3>1. /\ Writes([widget EXCEPT !.status = MergePatch(@)])
          /\ widget # NoWidget
      BY <2>2 DEF ReturnError, PatchFails, NothingToPatch, PatchStatus,
         PatchResponseLost, PatchApplied
    <3> QED BY <3>1, PatchType, WriteType
  <2> QED BY <2>1, <2>2
<1> QED
  BY <1>1, <1>2, <1>3, StatusTypes DEF EndReconcile, TypeOK, watchVars, history

LEMMA RestartType ==
    ASSUME TypeOK, Restart
    PROVE  TypeOK'
<1>1. <<>> \in Seq(WidgetType \cup {NoWidget})
  OBVIOUS
<1>2. [i \in Integrations |-> NoObjects] \in Objects
  BY StatusTypes DEF Objects
<1> QED
  BY <1>1, <1>2, ChangesType, StatusTypes DEF Restart, QueuedAtStart, TypeOK, history

-----------------------------------------------------------------------------
(* Where Reconcile is.                                                     *)

LEMMA LocalKept ==
    ASSUME LocalState, UNCHANGED localVars
    PROVE  LocalState'
  BY DEF LocalState, localVars, Wanted

LEMMA OutsideKeepsLocal ==
    ASSUME \/ EditRefs \/ DeleteWidget \/ CreateWidget \/ Outage \/ WidgetEvent
           \/ \E i \in Integrations : WatchStep(i)
           \/ GetFails \/ UNCHANGED vars
    PROVE  UNCHANGED localVars
<1>1. ASSUME NEW i \in Integrations, WatchStep(i) PROVE UNCHANGED localVars
  BY <1>1 DEF WatchStep, CRDAppears, CRDDisappears, SyncSucceeds, SyncFails,
     RequeueWidgets, RequeueFails, ObjectChanges, ObjectEvent, OtherRegisters, OtherResets
<1>2. CASE GetFails \/ UNCHANGED vars
  BY <1>2 DEF GetFails, vars
<1>3. CASE EditRefs \/ DeleteWidget \/ CreateWidget \/ Outage \/ WidgetEvent
  BY <1>3 DEF EditRefs, DeleteWidget, CreateWidget, Outage, WidgetEvent
<1> QED BY <1>1, <1>2, <1>3

\* A part is computed of a copy that has the reference.
LEMMA PartLocal ==
    ASSUME TypeOK, LocalState, NEW i \in Integrations, PartOfReconcile(i)
    PROVE  pc = i /\ copy # NoWidget /\ i \in Wanted(copy)
  BY WidgetAssumption DEF LocalState, PartOfReconcile, WatchActive, WatchInactive,
     ReadObject, ReadInvalidated, ReadFails, CallsEnsure, CallsGet

\* It leaves the copy alone, and Reconcile goes on with a part that copy has.
LEMMA PartNext ==
    ASSUME TypeOK, LocalState, NEW i \in Integrations, PartOfReconcile(i)
    PROVE  /\ copy' = copy
           /\ \/ WatchActive(i) /\ pc' = pc
              \/ /\ ~WatchActive(i)
                 /\ ensured' = FALSE
                 /\ pc' = NextPart(Wanted(copy) \ {"plugin", i})
                 /\ pc' \in Wanted(copy) \/ pc' = "patch"
<1>1. ASSUME Finish(i)
      PROVE  /\ ensured' = FALSE
             /\ pc' = NextPart(Wanted(copy) \ {"plugin", i})
             /\ pc' \in Wanted(copy) \/ pc' = "patch"
  BY <1>1 DEF Finish, NextPart
<1>2. CASE WatchActive(i)
  BY <1>2 DEF WatchActive
<1>3. CASE ~WatchActive(i)
  <2>1. copy' = copy /\ Finish(i)
    BY <1>3 DEF PartOfReconcile, WatchInactive, ReadObject, ReadInvalidated, ReadFails
  <2> QED BY <1>1, <1>3, <2>1
<1> QED BY <1>2, <1>3

EndStep == ReturnError \/ PatchFails \/ NothingToPatch \/ PatchStatus \/ PatchResponseLost

LEMMA EndNext ==
    ASSUME EndStep
    PROVE  pc = "patch" /\ EndReconcile
  BY DEF EndStep, ReturnError, PatchFails, NothingToPatch, PatchStatus,
     PatchResponseLost, PatchApplied, PatchDue

LEMMA LocalNext ==
    ASSUME TypeOK, LocalState, [Next]_vars
    PROVE  TypeOK' /\ LocalState'
<1>1. CASE EditRefs \/ DeleteWidget \/ CreateWidget
  BY <1>1, EditType, LocalKept, OutsideKeepsLocal
<1>2. CASE Outage \/ WidgetEvent
  BY <1>2, CacheType, LocalKept, OutsideKeepsLocal
<1>3. ASSUME NEW i \in Integrations, WatchStep(i)
      PROVE  TypeOK' /\ LocalState'
  BY <1>3, WatchType, LocalKept, OutsideKeepsLocal
<1>4. CASE GetFails \/ UNCHANGED vars
  <2>1. TypeOK'
    BY <1>4, ChangesType DEF GetFails, TypeOK, vars, apiVars, watchVars, localVars, history
  <2> QED BY <1>4, <2>1, LocalKept, OutsideKeepsLocal
<1>5. CASE BeginReconcile
  <2>1. LocalState'
    <3>1. CASE cached = NoWidget
      BY <1>5, <3>1, LocalKept DEF BeginReconcile
    <3>2. CASE cached # NoWidget
      <4>1. /\ pc = "idle" /\ pc' = NextPart(Wanted(cached)) /\ copy' = cached
            /\ UNCHANGED <<failed, ensured>>
        BY <1>5, <3>2 DEF BeginReconcile
      <4>2. pc' \in Wanted(copy') \/ pc' = "patch"
        BY <4>1 DEF NextPart
      <4>3. ~failed /\ ~ensured
        BY <4>1, WidgetAssumption DEF LocalState
      <4> QED
        BY <3>2, <4>1, <4>2, <4>3, WidgetAssumption DEF LocalState, Wanted
    <3> QED BY <3>1, <3>2
  <2> QED BY <1>5, <2>1, BeginType
<1>6. ASSUME NEW i \in Integrations, PartOfReconcile(i)
      PROVE  TypeOK' /\ LocalState'
  <2>1. pc = i /\ copy # NoWidget /\ i \in Wanted(copy)
    BY <1>6, PartLocal
  <2>2. TypeOK'
    BY <1>6, <2>1, PartType
  <2>3. /\ copy' = copy
        /\ pc' \in Wanted(copy) \/ pc' = "patch"
        /\ ensured' => pc' \in Integrations
    BY <1>6, <2>1, PartNext
  <2>4. LocalState'
    BY <2>1, <2>3, WidgetAssumption DEF LocalState, Wanted
  <2> QED BY <2>2, <2>4
<1>7. CASE EndStep
  <2>1. pc = "patch" /\ copy # NoWidget /\ ~ensured
    BY <1>7, EndNext, WidgetAssumption DEF LocalState
  <2>2. TypeOK'
    BY <1>7, <2>1, EndType DEF EndStep
  <2>3. LocalState'
    BY <1>7, <2>1, EndNext, WidgetAssumption DEF LocalState, EndReconcile
  <2> QED BY <2>2, <2>3
<1>8. CASE Restart
  BY <1>8, RestartType, WidgetAssumption DEF LocalState, Restart
<1> QED
  BY <1>1, <1>2, <1>3, <1>4, <1>5, <1>6, <1>7, <1>8 DEF Next, ReconcileStep, EndStep

LEMMA LocalInit ==
    ASSUME Init
    PROVE  TypeOK /\ LocalState
<1>1. PICK refs \in [Integrations -> Names \cup {NoName}] : widget = Created(0, refs)
  BY DEF Init
<1>2. widget \in WidgetType /\ <<>> \in Seq(WidgetType \cup {NoWidget})
  BY <1>1, StatusTypes
<1>3. /\ watch \in [Integrations -> {"CRDNotFound", "Pending", "Syncing", "Ready"}]
      /\ toRequeue \in [Integrations -> BOOLEAN]
      /\ objectCached \in Objects
  BY StatusTypes DEF Init, Objects
<1>4. changes \in 0 .. MaxChanges
  BY WidgetAssumption DEF Init
<1>5. TypeOK
  BY <1>2, <1>3, <1>4, StatusTypes DEF Init, TypeOK
<1> QED
  BY <1>5, WidgetAssumption DEF Init, LocalState

-----------------------------------------------------------------------------
(* The versions of the Widget.                                             *)

LEMMA VersionsTypes ==
    ASSUME TypeOK
    PROVE  /\ Versions \subseteq WidgetType \cup {NoWidget}
           /\ \A v \in Versions \ {NoWidget} : v.uid \in Nat /\ v.generation \in Nat
<1>1. \A k \in DOMAIN events : events[k] \in WidgetType \cup {NoWidget}
  BY DEF TypeOK
<1>2. Versions \subseteq WidgetType \cup {NoWidget}
  BY <1>1 DEF Versions, TypeOK
<1> QED BY <1>2 DEF WidgetType

LEMMA VersionsKept ==
    ASSUME TypeOK, VersionsOrdered,
           widget' = widget, changes' \in Nat, changes' >= changes,
           Versions' \subseteq Versions \cup {NoWidget}
    PROVE  VersionsOrdered'
<1>1. \A v \in Versions \ {NoWidget} : v.uid \in Nat
  BY VersionsTypes
<1>2. ASSUME NEW v \in Versions' \ {NoWidget}
      PROVE  v.uid <= changes'
  BY <1>1 DEF VersionsOrdered, TypeOK
<1>3. ASSUME NEW v \in Versions' \ {NoWidget}, widget # NoWidget, v.uid = widget.uid
      PROVE  v.generation <= widget.generation
  BY <1>3 DEF VersionsOrdered
<1>4. ASSUME NEW v \in Versions' \ {NoWidget}, NEW w \in Versions' \ {NoWidget},
             SameVersion(v, w)
      PROVE  v.refs = w.refs
  BY <1>4 DEF VersionsOrdered
<1> QED
  BY <1>2, <1>3, <1>4 DEF VersionsOrdered, SameVersion

\* A write adds the new version, which the cache then has to catch up with.
LEMMA WriteVersions ==
    ASSUME TypeOK, NEW new \in WidgetType \cup {NoWidget}, Writes(new),
           cached' = cached, copy' \in {copy, NoWidget}
    PROVE  /\ Versions' \subseteq Versions \cup {new, NoWidget}
           /\ widget' = new
           /\ CacheCatchesUp'
<1>1. /\ events \in Seq(WidgetType \cup {NoWidget})
      /\ events' = Append(events, new) /\ widget' = new
  BY DEF TypeOK, Writes
<1>2. /\ Len(events') = Len(events) + 1 /\ events'[Len(events) + 1] = new
      /\ events' # <<>>
      /\ \A k \in DOMAIN events' : \/ k \in DOMAIN events /\ events'[k] = events[k]
                                   \/ events'[k] = new
  BY <1>1
<1>3. CacheCatchesUp'
  BY <1>1, <1>2 DEF CacheCatchesUp
<1>4. Versions' \subseteq Versions \cup {new, NoWidget}
  BY <1>1, <1>2 DEF Versions
<1> QED BY <1>1, <1>3, <1>4

\* An edit, a new Widget and a patch keep the order.
LEMMA WriteOrdered ==
    ASSUME TypeOK, VersionsOrdered, NEW new \in WidgetType,
           widget' = new, Versions' \subseteq Versions \cup {new, NoWidget},
           changes' \in Nat, changes' >= changes,
           \/ /\ widget # NoWidget /\ new.uid = widget.uid
              /\ new.generation = widget.generation + 1
           \/ new.uid = changes + 1 /\ changes' = changes + 1
           \/ /\ widget # NoWidget /\ SameVersion(new, widget) /\ new.refs = widget.refs
    PROVE  VersionsOrdered'
<1>1. /\ \A v \in Versions \ {NoWidget} : v.uid \in Nat /\ v.generation \in Nat
      /\ new.uid \in Nat /\ new.generation \in Nat
      /\ widget # NoWidget => widget \in Versions \ {NoWidget}
      /\ changes \in Nat
  BY VersionsTypes DEF WidgetType, Versions, TypeOK
<1>2. ASSUME NEW v \in Versions \ {NoWidget}
      PROVE  /\ v.uid <= changes
             /\ v.uid = new.uid => v.generation <= new.generation
             /\ SameVersion(v, new) => v.refs = new.refs
  BY <1>1 DEF VersionsOrdered, SameVersion
<1>3. new.uid <= changes'
  BY <1>1, <1>2 DEF SameVersion
<1>4. ASSUME NEW v \in Versions' \ {NoWidget}
      PROVE  /\ v.uid <= changes'
             /\ v.uid = new.uid => v.generation <= new.generation
  BY <1>1, <1>2, <1>3
<1>5. ASSUME NEW v \in Versions' \ {NoWidget}, NEW w \in Versions' \ {NoWidget},
             SameVersion(v, w)
      PROVE  v.refs = w.refs
  <2>1. CASE v \in Versions /\ w \in Versions
    BY <1>5, <2>1 DEF VersionsOrdered
  <2>2. CASE ~(v \in Versions /\ w \in Versions)
    BY <1>2, <1>5, <2>2 DEF SameVersion
  <2> QED BY <2>1, <2>2
<1> QED
  BY <1>4, <1>5 DEF VersionsOrdered, SameVersion

LEMMA DeleteOrdered ==
    ASSUME TypeOK, VersionsOrdered, widget' = NoWidget, changes' \in Nat,
           changes' >= changes, Versions' \subseteq Versions \cup {NoWidget}
    PROVE  VersionsOrdered'
<1>1. \A v \in Versions \ {NoWidget} : v.uid \in Nat
  BY VersionsTypes
<1>2. ASSUME NEW v \in Versions' \ {NoWidget}
      PROVE  v.uid <= changes'
  BY <1>1 DEF VersionsOrdered, TypeOK
<1>4. ASSUME NEW v \in Versions' \ {NoWidget}, NEW w \in Versions' \ {NoWidget},
             SameVersion(v, w)
      PROVE  v.refs = w.refs
  BY <1>4 DEF VersionsOrdered
<1> QED
  BY <1>2, <1>4 DEF VersionsOrdered, SameVersion

\* The count of changes only grows.
LEMMA ChangesGrow ==
    ASSUME TypeOK, [Next]_vars
    PROVE  changes' \in Nat /\ changes' >= changes
<1>1. ASSUME CountChange PROVE changes' \in Nat /\ changes' >= changes
  BY <1>1 DEF CountChange, TypeOK
<1>2. ASSUME UNCHANGED changes PROVE changes' \in Nat /\ changes' >= changes
  BY <1>2 DEF TypeOK
<1>3. ASSUME NEW i \in Integrations, WatchStep(i) PROVE UNCHANGED changes \/ CountChange
  BY <1>3 DEF WatchStep, CRDAppears, CRDDisappears, SyncSucceeds, SyncFails,
     RequeueWidgets, RequeueFails, ObjectChanges, ObjectEvent, OtherRegisters,
     OtherResets, QueueReferring, apiVars
<1>4. ASSUME ReconcileStep PROVE UNCHANGED changes \/ CountChange
  BY <1>4 DEF ReconcileStep, PartOfReconcile, BeginReconcile, GetFails, WatchActive, WatchInactive,
     ReadObject, ReadInvalidated, ReadFails, ReturnError, PatchFails, NothingToPatch,
     PatchStatus, PatchResponseLost, apiVars
<1>5. ASSUME EditRefs \/ DeleteWidget \/ CreateWidget \/ Outage \/ WidgetEvent \/ Restart
      PROVE  UNCHANGED changes \/ CountChange
  BY <1>5 DEF EditRefs, DeleteWidget, CreateWidget, Outage, WidgetEvent, Restart
<1>6. ASSUME UNCHANGED vars PROVE UNCHANGED changes
  BY <1>6 DEF vars, apiVars
<1> QED
  BY <1>1, <1>2, <1>3, <1>4, <1>5, <1>6 DEF Next

LEMMA QuietVersions ==
    ASSUME CacheCatchesUp, UNCHANGED <<widget, events, cached>>,
           copy' \in {copy, cached, NoWidget}
    PROVE  Versions' \subseteq Versions \cup {NoWidget} /\ CacheCatchesUp'
  BY DEF CacheCatchesUp, Versions

LEMMA QuietSteps ==
    ASSUME TypeOK, LocalState,
           \/ GetFails \/ UNCHANGED vars
           \/ BeginReconcile
           \/ \E i \in Integrations : WatchStep(i) \/ PartOfReconcile(i)
    PROVE  UNCHANGED <<widget, events, cached>> /\ copy' \in {copy, cached, NoWidget}
<1>1. ASSUME NEW i \in Integrations, WatchStep(i)
      PROVE  UNCHANGED <<widget, events, cached, copy>>
  BY <1>1 DEF WatchStep, CRDAppears, CRDDisappears, SyncSucceeds, SyncFails,
     RequeueWidgets, RequeueFails, ObjectChanges, ObjectEvent, OtherRegisters,
     OtherResets, apiVars, localVars
<1>2. ASSUME NEW i \in Integrations, PartOfReconcile(i)
      PROVE  UNCHANGED <<widget, events, cached, copy>>
  BY <1>2 DEF PartOfReconcile, WatchActive, WatchInactive, ReadObject, ReadInvalidated,
     ReadFails, apiVars
<1>3. CASE BeginReconcile
  BY <1>3 DEF BeginReconcile, apiVars, localVars
<1>4. CASE GetFails \/ UNCHANGED vars
  BY <1>4 DEF GetFails, vars, apiVars, localVars
<1> QED BY <1>1, <1>2, <1>3, <1>4

\* What the end of a Reconcile does to the Widget: nothing, or a new status.
LEMMA EndWrites ==
    ASSUME TypeOK, LocalState, EndStep
    PROVE  /\ cached' = cached /\ copy' = NoWidget
           /\ \/ UNCHANGED <<widget, events>>
              \/ \E new \in WidgetType :
                    /\ Writes(new) /\ widget # NoWidget
                    /\ SameVersion(new, widget) /\ new.refs = widget.refs
<1>1. pc = "patch" /\ EndReconcile /\ copy # NoWidget
  BY EndNext, WidgetAssumption DEF LocalState
<1>2. CASE ~UNCHANGED <<widget, events>>
  <2> DEFINE new == [widget EXCEPT !.status = MergePatch(@)]
  <2>1. Writes(new) /\ widget # NoWidget
    BY <1>2 DEF EndStep, ReturnError, PatchFails, NothingToPatch, PatchStatus,
       PatchResponseLost, PatchApplied
  <2>2. new \in WidgetType
    BY <1>1, <2>1, PatchType
  <2>3. SameVersion(new, widget) /\ new.refs = widget.refs
    BY <2>1 DEF SameVersion, TypeOK, WidgetType
  <2> QED BY <1>1, <2>1, <2>2, <2>3 DEF EndReconcile
<1> QED BY <1>1, <1>2 DEF EndReconcile

LEMMA VersionsNext ==
    ASSUME TypeOK, LocalState, VersionsOrdered, CacheCatchesUp, [Next]_vars
    PROVE  VersionsOrdered' /\ CacheCatchesUp'
<1>1. changes' \in Nat /\ changes' >= changes
  BY ChangesGrow
<1>2. CASE EditRefs
  <2>1. PICK refs \in [Integrations -> Names \cup {NoName}] :
           Writes([widget EXCEPT !.refs = refs, !.generation = @ + 1])
    BY <1>2 DEF EditRefs
  <2> DEFINE new == [widget EXCEPT !.refs = refs, !.generation = @ + 1]
  <2>2. widget # NoWidget /\ cached' = cached /\ copy' = copy
    BY <1>2 DEF EditRefs, localVars
  <2>3. new \in WidgetType
    <3>1. widget \in WidgetType /\ widget.generation + 1 \in Nat
      BY <2>2 DEF TypeOK, WidgetType
    <3>2. [widget EXCEPT !.refs = refs] \in WidgetType
      BY <3>1 DEF WidgetType
    <3>3. ASSUME NEW w \in WidgetType, NEW g \in Nat
          PROVE  [w EXCEPT !.generation = g] \in WidgetType
      BY DEF WidgetType
    <3> QED BY <3>1, <3>2, <3>3
  <2>4. new.uid = widget.uid /\ new.generation = widget.generation + 1
    BY <2>2 DEF TypeOK, WidgetType
  <2>5. Writes(new)
    BY <2>1
  <2> HIDE DEF new
  <2> QED BY <1>1, <2>2, <2>3, <2>4, <2>5, WriteVersions, WriteOrdered
<1>3. CASE DeleteWidget
  BY <1>1, <1>3, WriteVersions, DeleteOrdered DEF DeleteWidget, localVars
<1>4. CASE CreateWidget
  <2>1. PICK refs \in [Integrations -> Names \cup {NoName}] :
           Writes(Created(changes + 1, refs))
    BY <1>4 DEF CreateWidget
  <2>2. changes' = changes + 1 /\ cached' = cached /\ copy' = copy
    BY <1>4 DEF CreateWidget, CountChange, localVars
  <2>3. Created(changes + 1, refs) \in WidgetType
    BY <1>1, <2>2, StatusTypes
  <2>4. Created(changes + 1, refs).uid = changes + 1
    BY DEF Created
  <2> QED BY <1>1, <2>1, <2>2, <2>3, <2>4, WriteVersions, WriteOrdered
<1>5. CASE Outage
  <2>1. /\ UNCHANGED <<widget, cached, copy>>
        /\ (events' = <<>> /\ widget = cached) \/ events' = <<widget>>
    BY <1>5 DEF Outage, localVars
  <2>2. Versions' \subseteq Versions
    BY <2>1 DEF Versions
  <2>3. CacheCatchesUp'
    BY <2>1 DEF CacheCatchesUp
  <2> QED BY <1>1, <2>1, <2>2, <2>3, VersionsKept
<1>6. CASE WidgetEvent
  <2>1. /\ UNCHANGED <<widget, copy>>
        /\ events # <<>> /\ cached' = Head(events) /\ events' = Tail(events)
        /\ events \in Seq(WidgetType \cup {NoWidget})
    BY <1>6 DEF WidgetEvent, localVars, TypeOK
  <2>2. /\ Head(events) = events[1] /\ 1 \in DOMAIN events
        /\ \A k \in DOMAIN events' : k + 1 \in DOMAIN events /\ events'[k] = events[k + 1]
    BY <2>1
  <2>3. Versions' \subseteq Versions
    BY <2>1, <2>2 DEF Versions
  <2>4. CacheCatchesUp'
    <3>1. widget = events[Len(events)]
      BY <2>1 DEF CacheCatchesUp
    <3>2. CASE events' = <<>>
      <4>1. Len(events) = 1
        <5>1. Len(events') = Len(events) - 1 /\ Len(events) \in Nat
          BY <2>1
        <5>2. Len(events') = 0
          BY <3>2
        <5> QED BY <5>1, <5>2
      <4> QED BY <2>1, <2>2, <3>1, <3>2, <4>1 DEF CacheCatchesUp
    <3>3. CASE events' # <<>>
      <4>1. events'[Len(events')] = events[Len(events)]
        BY <2>1, <3>3
      <4> QED BY <2>1, <3>1, <3>3, <4>1 DEF CacheCatchesUp
    <3> QED BY <3>2, <3>3
  <2> QED BY <1>1, <2>1, <2>3, <2>4, VersionsKept
<1>7. CASE \/ GetFails \/ UNCHANGED vars
           \/ BeginReconcile
           \/ \E i \in Integrations : WatchStep(i) \/ PartOfReconcile(i)
  BY <1>1, <1>7, QuietSteps, QuietVersions, VersionsKept
<1>8. CASE EndStep
  <2>1. CASE UNCHANGED <<widget, events>>
    BY <1>1, <1>8, <2>1, EndWrites, QuietVersions, VersionsKept
  <2>2. CASE ~UNCHANGED <<widget, events>>
    <3>1. PICK new \in WidgetType :
             /\ Writes(new) /\ widget # NoWidget
             /\ SameVersion(new, widget) /\ new.refs = widget.refs
      BY <1>8, <2>2, EndWrites
    <3> QED BY <1>1, <1>8, <3>1, EndWrites, WriteVersions, WriteOrdered
  <2> QED BY <2>1, <2>2
<1>9. CASE Restart
  <2>1. /\ UNCHANGED widget /\ cached' = widget /\ events' = <<>> /\ copy' = NoWidget
    BY <1>9 DEF Restart
  <2>2. Versions' \subseteq Versions \cup {NoWidget} /\ CacheCatchesUp'
    BY <2>1 DEF Versions, CacheCatchesUp
  <2> QED BY <1>1, <2>1, <2>2, VersionsKept
<1> QED
  BY <1>2, <1>3, <1>4, <1>5, <1>6, <1>7, <1>8, <1>9 DEF Next, ReconcileStep, EndStep

-----------------------------------------------------------------------------
(* What is computed, and what is stored, is current.                       *)

LEMMA SameRefs ==
    ASSUME VersionsOrdered, NEW v \in Versions \ {NoWidget}, NEW w \in Versions \ {NoWidget},
           SameVersion(v, w)
    PROVE  v.refs = w.refs
  BY DEF VersionsOrdered

\* A step of a watcher that changes what the condition of a Widget should be tells
\* the Widget, now or by a requeue that is still due, unless it is counted as missed.
LEMMA WatchStepKeeps ==
    ASSUME TypeOK, NEW i \in Integrations, WatchStep(i),
           cached # NoWidget, ~queued', ~missed',
           NEW w, w.refs = cached.refs, NEW j \in Integrations,
           w.refs[j] = NoName \/ ~toRequeue'[j]
    PROVE  /\ ~queued /\ ~missed
           /\ w.refs[j] = NoName \/ ~toRequeue[j]
           /\ Expected(j, w, watch', objectCached') = Expected(j, w, watch, objectCached)
           /\ w.refs[j] = NoName \/ (watch[j] = "Ready" => watch'[j] = "Ready")
<1>1. CASE CRDAppears(i)
  BY <1>1 DEF CRDAppears, history, Expected, TypeOK
<1>2. CASE CRDDisappears(i)
  BY <1>2 DEF CRDDisappears, history, Expected, TypeOK
<1>3. CASE SyncSucceeds(i)
  BY <1>3 DEF SyncSucceeds, history, Expected, TypeOK
<1>4. CASE SyncFails(i)
  BY <1>4 DEF SyncFails, history, Expected, TypeOK
<1>5. HasReference(i) <=> cached.refs[i] # NoName
  BY DEF HasReference, IndexedNames
<1>6. CASE RequeueWidgets(i)
  BY <1>5, <1>6 DEF RequeueWidgets, history, Expected, TypeOK
<1>7. CASE RequeueFails(i)
  BY <1>5, <1>7 DEF RequeueFails, Expected, TypeOK
<1>8. CASE ObjectChanges(i)
  BY <1>8 DEF ObjectChanges, watchVars, history, Expected
<1>9. CASE ObjectEvent(i)
  <2>1. PICK n \in Names : /\ objectCached' = [objectCached EXCEPT ![i][n] = object[i][n]]
                           /\ QueueReferring(i, n)
    BY <1>9 DEF ObjectEvent
  <2>2. ~queued /\ ~missed /\ n \notin IndexedNames(i)
    BY <2>1 DEF QueueReferring, TypeOK
  <2>3. UNCHANGED <<watch, toRequeue>>
    BY <1>9 DEF ObjectEvent
  <2>4. w.refs[j] = NoName \/ objectCached'[j][w.refs[j]] = objectCached[j][w.refs[j]]
    <3>1. CASE j = i
      <4>1. w.refs[j] = NoName \/ w.refs[j] # n
        BY <2>2, <3>1 DEF IndexedNames
      <4> QED BY <2>1, <3>1, <4>1 DEF TypeOK, Objects
    <3>2. CASE j # i
      BY <2>1, <3>2 DEF TypeOK, Objects
    <3> QED BY <3>1, <3>2
  <2> QED BY <2>2, <2>3, <2>4 DEF Expected
<1>10. CASE OtherRegisters(i)
  BY <1>10 DEF OtherRegisters, Register, history, Expected, TypeOK
<1>11. CASE OtherResets(i)
  BY <1>5, <1>11 DEF OtherResets, Reset, Expected, TypeOK
<1> QED
  BY <1>1, <1>2, <1>3, <1>4, <1>6, <1>7, <1>8, <1>9, <1>10, <1>11 DEF WatchStep

LEMMA CopyIsVersion ==
    ASSUME LocalState, pc # "idle"
    PROVE  copy \in Versions \ {NoWidget}
  BY DEF LocalState, Versions

\* The status of the Widget changes under a Reconcile only if that Reconcile read an
\* older one from the cache.
LEMMA BaseCurrentNext ==
    ASSUME TypeOK, LocalState, VersionsOrdered, BaseCurrent, [Next]_vars
    PROVE  BaseCurrent'
<1>1. CASE EditRefs
  <2>1. PICK refs \in [Integrations -> Names \cup {NoName}] :
           widget' = [widget EXCEPT !.refs = refs, !.generation = @ + 1]
    BY <1>1 DEF EditRefs, Writes
  <2>2. widget # NoWidget /\ UNCHANGED <<pc, copy, staleBase>>
    BY <1>1 DEF EditRefs, localVars, history
  <2>3. widget'.uid = widget.uid /\ widget'.status = widget.status
    BY <2>1, <2>2 DEF TypeOK, WidgetType
  <2> QED BY <2>2, <2>3 DEF BaseCurrent
<1>2. CASE DeleteWidget
  BY <1>2 DEF DeleteWidget, Writes, BaseCurrent
<1>3. CASE CreateWidget
  <2>1. widget'.uid = changes + 1 /\ UNCHANGED <<pc, copy>>
    BY <1>3 DEF CreateWidget, Writes, Created, localVars
  <2>2. ASSUME pc # "idle" PROVE copy.uid # changes + 1
    <3>1. copy.uid <= changes /\ copy.uid \in Nat /\ changes \in Nat
      BY <2>2, CopyIsVersion, VersionsTypes DEF VersionsOrdered, TypeOK
    <3> QED BY <3>1
  <2> QED BY <2>1, <2>2 DEF BaseCurrent
<1>4. CASE \/ Outage \/ WidgetEvent
           \/ \E i \in Integrations : WatchStep(i)
           \/ GetFails \/ UNCHANGED vars
  <2>1. UNCHANGED <<pc, copy>>
    BY <1>4, OutsideKeepsLocal DEF localVars
  <2>2. UNCHANGED <<widget, staleBase>>
    BY <1>4, QuietSteps DEF Outage, WidgetEvent, WatchStep, CRDAppears, CRDDisappears,
       SyncSucceeds, SyncFails, RequeueWidgets, RequeueFails, ObjectChanges, ObjectEvent,
       OtherRegisters, OtherResets, GetFails, vars, history
  <2> QED BY <2>1, <2>2 DEF BaseCurrent
<1>5. CASE BeginReconcile
  <2>1. /\ staleBase' = CacheLacksPatch
        /\ widget' = widget
        /\ \/ pc' = "idle"
           \/ cached # NoWidget /\ copy' = cached
    BY <1>5 DEF BeginReconcile, apiVars, localVars
  <2> QED BY <2>1 DEF BaseCurrent, CacheLacksPatch
<1>6. ASSUME NEW i \in Integrations, PartOfReconcile(i)
      PROVE  BaseCurrent'
  <2>1. pc # "idle" /\ copy' = copy
    BY <1>6, PartLocal, PartNext, WidgetAssumption
  <2>2. UNCHANGED <<widget, staleBase>>
    BY <1>6 DEF PartOfReconcile, WatchActive, WatchInactive, ReadObject, ReadInvalidated,
       ReadFails, apiVars, history
  <2> QED BY <2>1, <2>2 DEF BaseCurrent
<1>7. CASE EndStep \/ Restart
  <2>1. pc' = "idle"
    BY <1>7, EndNext DEF EndReconcile, Restart
  <2> QED BY <2>1 DEF BaseCurrent
<1> QED
  BY <1>1, <1>2, <1>3, <1>4, <1>5, <1>6, <1>7 DEF Next, ReconcileStep, EndStep

LEMMA ReconcileCurrentWatch ==
    ASSUME TypeOK, LocalState, VersionsOrdered, ReconcileCurrent,
           NEW i \in Integrations, WatchStep(i)
    PROVE  ReconcileCurrent'
<1> SUFFICES ASSUME pc' # "idle", ~queued', ~missed'
             PROVE  /\ cached' # NoWidget /\ SameVersion(cached', copy')
                    /\ \A j \in Integrations : Undisturbed(j, copy)' =>
                          /\ Done(j)' /\ ~failed' =>
                                conditions'[j] = Expected(j, copy', watch', objectCached')
                          /\ pc' = j /\ ensured' => watch'[j] = "Ready"
  BY DEF ReconcileCurrent
<1>1. UNCHANGED <<cached, pc, copy, conditions, failed, ensured>>
  BY QuietSteps, OutsideKeepsLocal DEF localVars
<1>2. ~queued /\ ~missed
  BY <1>1 DEF WatchStep, CRDAppears, CRDDisappears, SyncSucceeds, SyncFails,
     RequeueWidgets, RequeueFails, ObjectChanges, ObjectEvent, OtherRegisters,
     OtherResets, QueueReferring, TypeOK, history
<1>3. /\ cached # NoWidget /\ SameVersion(cached, copy)
      /\ \A j \in Integrations : Undisturbed(j, copy) =>
            /\ Done(j) /\ ~failed =>
                  conditions[j] = Expected(j, copy, watch, objectCached)
            /\ pc = j /\ ensured => watch[j] = "Ready"
  BY <1>1, <1>2 DEF ReconcileCurrent
<1>4. copy \in Versions \ {NoWidget} /\ copy.refs = cached.refs
  <2>1. copy \in Versions \ {NoWidget}
    BY <1>1, CopyIsVersion
  <2> QED BY <1>3, <2>1, SameRefs DEF Versions
<1>5. ASSUME NEW j \in Integrations, Undisturbed(j, copy)'
      PROVE  /\ Done(j)' /\ ~failed' =>
                   conditions'[j] = Expected(j, copy', watch', objectCached')
             /\ pc' = j /\ ensured' => watch'[j] = "Ready"
  <2>1. copy.refs[j] = NoName \/ ~toRequeue'[j]
    BY <1>1, <1>5 DEF Undisturbed
  <2>2. /\ copy.refs[j] = NoName \/ ~toRequeue[j]
        /\ Expected(j, copy, watch', objectCached') = Expected(j, copy, watch, objectCached)
        /\ copy.refs[j] = NoName \/ (watch[j] = "Ready" => watch'[j] = "Ready")
    BY <1>3, <1>4, <2>1, WatchStepKeeps
  <2>3. Done(j)' = Done(j)
    BY <1>1 DEF Done, Wanted
  <2>4. pc = j => copy.refs[j] # NoName
    BY DEF LocalState, Wanted
  <2> QED BY <1>1, <1>3, <2>2, <2>3, <2>4 DEF Undisturbed
<1> QED BY <1>1, <1>3, <1>5 DEF SameVersion

LEMMA ReconcileCurrentBegin ==
    ASSUME TypeOK, LocalState, BeginReconcile
    PROVE  ReconcileCurrent'
<1>1. CASE cached = NoWidget
  BY <1>1 DEF ReconcileCurrent, BeginReconcile, localVars
<1>2. CASE cached # NoWidget
  <2>1. /\ copy' = cached /\ cached' = cached
        /\ pc' = NextPart(Wanted(cached))
        /\ ensured' = ensured /\ ~ensured
        /\ conditions' = [i \in Integrations |->
              IF i \in Wanted(cached) THEN cached.status.conditions[i] ELSE Absent]
    BY <1>2, WidgetAssumption DEF BeginReconcile, LocalState
  <2>2. ASSUME NEW j \in Integrations, Done(j)'
        PROVE  conditions'[j] = Expected(j, copy', watch', objectCached')
    <3>1. j \notin Wanted(cached)
      BY <2>1, <2>2, WidgetAssumption DEF Done, Wanted, NextPart
    <3>2. cached.refs[j] = NoName
      BY <3>1 DEF Wanted
    <3> QED BY <2>1, <3>1, <3>2 DEF Expected
  <2> QED BY <1>2, <2>1, <2>2 DEF ReconcileCurrent, SameVersion
<1> QED BY <1>1, <1>2

\* The part done last is right, and the parts before it remain so.
LEMMA ReconcileCurrentPart ==
    ASSUME TypeOK, LocalState, ReconcileCurrent, NEW i \in Integrations, PartOfReconcile(i)
    PROVE  ReconcileCurrent'
<1> SUFFICES ASSUME ~queued', ~missed'
             PROVE  /\ cached' # NoWidget /\ SameVersion(cached', copy')
                    /\ \A j \in Integrations : Undisturbed(j, copy)' =>
                          /\ Done(j)' /\ ~failed' =>
                                conditions'[j] = Expected(j, copy', watch', objectCached')
                          /\ pc' = j /\ ensured' => watch'[j] = "Ready"
  BY DEF ReconcileCurrent
<1>1. pc = i /\ copy # NoWidget /\ i \in Wanted(copy) /\ pc # "idle"
  BY PartLocal, WidgetAssumption
<1>2. UNCHANGED <<cached, copy, queued, missed, toRequeue>>
  BY DEF PartOfReconcile, WatchActive, WatchInactive, ReadObject, ReadInvalidated,
     ReadFails, history, watchVars
<1>3. /\ cached # NoWidget /\ SameVersion(cached, copy)
      /\ \A j \in Integrations : Undisturbed(j, copy) =>
            /\ Done(j) /\ ~failed =>
                  conditions[j] = Expected(j, copy, watch, objectCached)
            /\ pc = j /\ ensured => watch[j] = "Ready"
  BY <1>1, <1>2 DEF ReconcileCurrent
<1>4. \A j \in Integrations : Undisturbed(j, copy)' = Undisturbed(j, copy)
  BY <1>2 DEF Undisturbed
<1>5. CASE WatchActive(i)
  <2>1. /\ UNCHANGED <<pc, copy, conditions, failed, watch, objectCached>>
        /\ watch[i] = "Ready"
    BY <1>5 DEF WatchActive, watchVars
  <2>2. \A j \in Integrations : Done(j)' = Done(j)
    BY <2>1 DEF Done, Wanted
  <2> QED BY <1>1, <1>2, <1>3, <1>4, <2>1, <2>2 DEF SameVersion
<1>6. CASE ~WatchActive(i)
  <2>1. ~ensured' /\ pc' = NextPart(Wanted(copy) \ {"plugin", i})
    BY <1>6, PartNext, PartLocal
  <2>2. ASSUME NEW j \in Integrations, Undisturbed(j, copy)', Done(j)', ~failed'
        PROVE  conditions'[j] = Expected(j, copy', watch', objectCached')
    <3>1. CASE j = i
      <4>1. Undisturbed(i, copy) /\ copy.refs[i] # NoName
        BY <1>1, <1>4, <2>2, <3>1 DEF Wanted
      <4>2. CASE WatchInactive(i)
        <5>1. watch'[i] # "Ready" /\ MarkCRDNotAvailable(i)
          BY <4>2 DEF WatchInactive, Register, TypeOK
        <5> QED BY <1>2, <3>1, <4>1, <5>1 DEF MarkCRDNotAvailable, Mark, Expected, TypeOK
      <4>3. CASE ReadObject(i)
        <5>1. watch[i] = "Ready" /\ UNCHANGED <<watch, objectCached>>
          BY <1>3, <4>1, <4>3 DEF ReadObject, CallsGet, watchVars
        <5> QED BY <1>2, <3>1, <4>1, <4>3, <5>1 DEF ReadObject, Mark, Expected, TypeOK
      <4>4. CASE ReadInvalidated(i)
        <5>1. watch'[i] # "Ready" /\ MarkCRDNotAvailable(i)
          BY <4>4 DEF ReadInvalidated, Reset, TypeOK
        <5> QED BY <1>2, <3>1, <4>1, <5>1 DEF MarkCRDNotAvailable, Mark, Expected, TypeOK
      <4>5. CASE ReadFails(i)
        BY <2>2, <4>5 DEF ReadFails
      <4> QED BY <1>6, <4>2, <4>3, <4>4, <4>5 DEF PartOfReconcile
    <3>2. CASE j # i
      <4>1. Done(j)
        BY <1>1, <1>2, <2>1, <2>2, <3>2, WidgetAssumption DEF Done, NextPart, Wanted
      <4>2. ~failed /\ conditions[j] = Expected(j, copy, watch, objectCached)
        <5>1. ~failed
          BY <1>6, <2>2 DEF PartOfReconcile, WatchInactive, ReadObject, ReadInvalidated,
             ReadFails
        <5> QED BY <1>3, <1>4, <2>2, <4>1, <5>1
      <4>3. conditions'[j] = conditions[j]
        BY <1>6, <2>2, <3>2 DEF PartOfReconcile, WatchInactive, ReadObject,
           ReadInvalidated, ReadFails, MarkCRDNotAvailable, Mark, TypeOK
      <4>4. watch'[j] = watch[j] /\ objectCached'[j] = objectCached[j]
        BY <1>6, <2>2, <3>2 DEF PartOfReconcile, WatchInactive, ReadObject,
           ReadInvalidated, ReadFails, Register, Reset, watchVars, TypeOK, Objects
      <4> QED BY <1>2, <4>2, <4>3, <4>4 DEF Expected
    <3> QED BY <3>1, <3>2
  <2> QED BY <1>2, <1>3, <2>1, <2>2 DEF SameVersion
<1> QED BY <1>5, <1>6

LEMMA ReconcileCurrentCache ==
    ASSUME TypeOK, LocalState, VersionsOrdered, ReconcileCurrent, WidgetEvent
    PROVE  ReconcileCurrent'
<1> SUFFICES ASSUME pc' # "idle", ~queued', ~missed'
             PROVE  ReconcileCurrent'
  BY DEF ReconcileCurrent
<1>1. /\ cached' = Head(events) /\ Head(events) \in Versions
      /\ ~GenerationChanged(cached, Head(events))
      /\ ~HiddenReplacement(cached, Head(events))
      /\ ~queued /\ ~missed
  <2>1. events # <<>> /\ events \in Seq(WidgetType \cup {NoWidget})
    BY DEF WidgetEvent, TypeOK
  <2>2. Head(events) = events[1] /\ 1 \in DOMAIN events
    BY <2>1
  <2> QED BY <2>2 DEF WidgetEvent, Versions
<1>2. cached' # NoWidget /\ SameVersion(cached', cached)
  <2>1. cached \in WidgetType \cup {NoWidget}
    BY DEF TypeOK
  <2> QED BY <1>1, <2>1 DEF GenerationChanged, HiddenReplacement, SameVersion
<1>3. UNCHANGED <<pc, ensured, copy, conditions, failed, watch, toRequeue, objectCached>>
  BY DEF WidgetEvent, localVars, watchVars
<1>4. SameVersion(cached', copy')
  BY <1>1, <1>2, <1>3 DEF ReconcileCurrent, SameVersion
<1> QED
  BY <1>1, <1>2, <1>3, <1>4 DEF ReconcileCurrent, Undisturbed, Done, Wanted

LEMMA ReconcileCurrentNext ==
    ASSUME TypeOK, LocalState, VersionsOrdered, ReconcileCurrent, [Next]_vars
    PROVE  ReconcileCurrent'
<1>1. CASE \/ EditRefs \/ DeleteWidget \/ CreateWidget \/ Outage
           \/ GetFails \/ UNCHANGED vars
  <2>1. /\ UNCHANGED <<watch, toRequeue, objectCached, cached, queued, missed>>
        /\ UNCHANGED <<pc, ensured, copy, conditions, failed>>
    BY <1>1 DEF EditRefs, DeleteWidget, CreateWidget, Outage, GetFails, vars, watchVars,
       localVars, history
  <2> QED BY <2>1 DEF ReconcileCurrent, Undisturbed, Done, Wanted, SameVersion
<1>2. CASE EndStep \/ Restart
  <2>1. pc' = "idle"
    BY <1>2, EndNext DEF EndReconcile, Restart
  <2> QED BY <2>1 DEF ReconcileCurrent
<1> QED
  BY <1>1, <1>2, ReconcileCurrentWatch, ReconcileCurrentBegin, ReconcileCurrentPart,
     ReconcileCurrentCache DEF Next, ReconcileStep, EndStep

\* A Reconcile that ends well leaves what it computed, and that was current.
LEMMA StatusCurrentEnd ==
    ASSUME TypeOK, LocalState, VersionsOrdered, BaseCurrent, ReconcileCurrent, EndStep
    PROVE  StatusCurrent'
<1> SUFFICES ASSUME ~queued', ~missed', ~staleBase', cached' # NoWidget,
                    widget' # NoWidget, SameVersion(cached', widget')
             PROVE  /\ widget'.status.observed = widget'.generation
                    /\ \A j \in Integrations : Undisturbed(j, widget)' =>
                          widget'.status.conditions[j]
                              = Expected(j, widget', watch', objectCached')
  BY DEF StatusCurrent
<1>1. /\ pc = "patch" /\ copy # NoWidget /\ pc # "idle"
      /\ EndReconcile
      /\ UNCHANGED <<cached, missed, staleBase, watch, toRequeue, objectCached>>
  BY EndNext, WidgetAssumption DEF LocalState, EndReconcile, watchVars, history
<1>2. /\ NothingToPatch \/ PatchStatus
      /\ queued' = queued /\ ~failed
  BY DEF EndStep, ReturnError, PatchFails, PatchResponseLost, NothingToPatch,
     PatchStatus, PatchApplied, PatchDue
<1>3. /\ cached # NoWidget /\ SameVersion(cached, copy)
      /\ \A j \in Integrations : Undisturbed(j, copy) =>
            conditions[j] = Expected(j, copy, watch, objectCached)
  BY <1>1, <1>2 DEF ReconcileCurrent, Done
<1>4. /\ widget # NoWidget /\ widget \in WidgetType
      /\ widget'.generation = widget.generation /\ widget'.uid = widget.uid
      /\ widget'.refs = widget.refs
  <2>1. widget # NoWidget /\ widget \in WidgetType
    BY <1>2 DEF NothingToPatch, PatchStatus, PatchApplied, TypeOK
  <2>2. CASE widget' = widget
    BY <2>1, <2>2
  <2>3. CASE widget' = [widget EXCEPT !.status = MergePatch(@)]
    BY <2>1, <2>3 DEF WidgetType
  <2> QED BY <1>2, <2>1, <2>2, <2>3 DEF NothingToPatch, PatchStatus, PatchApplied, Writes
<1>5. SameVersion(copy, widget) /\ copy.status = widget.status
  <2>1. SameVersion(copy, widget)
    BY <1>1, <1>3, <1>4 DEF SameVersion
  <2> QED BY <1>1, <1>4, <2>1 DEF BaseCurrent, SameVersion
<1>6. copy.refs = widget.refs /\ copy.generation = widget.generation
  BY <1>1, <1>4, <1>5, SameRefs DEF Versions, SameVersion
<1>7. widget'.status = Computed
  <2>1. CASE NothingToPatch
    BY <1>5, <2>1 DEF NothingToPatch
  <2>2. CASE PatchStatus
    <3>1. MergePatch(widget.status) = Computed
      <4>1. widget.status \in StatusType
        BY <1>4 DEF WidgetType
      <4> QED BY <1>5, <4>1 DEF MergePatch, Computed
    <3>2. widget' = [widget EXCEPT !.status = Computed]
      BY <2>2, <3>1 DEF PatchStatus, PatchApplied, Writes
    <3> QED BY <1>4, <3>2 DEF WidgetType
  <2> QED BY <1>2, <2>1, <2>2
<1> QED
  BY <1>1, <1>3, <1>4, <1>6, <1>7 DEF Computed, Undisturbed, Expected

LEMMA StatusCurrentWatch ==
    ASSUME TypeOK, VersionsOrdered, StatusCurrent, NEW i \in Integrations, WatchStep(i)
    PROVE  StatusCurrent'
<1> SUFFICES ASSUME pc' = "idle", ~queued', ~missed', ~staleBase', cached' # NoWidget,
                    widget' # NoWidget, SameVersion(cached', widget')
             PROVE  /\ widget'.status.observed = widget'.generation
                    /\ \A j \in Integrations : Undisturbed(j, widget)' =>
                          widget'.status.conditions[j]
                              = Expected(j, widget', watch', objectCached')
  BY DEF StatusCurrent
<1>1. UNCHANGED <<cached, pc, widget, staleBase>>
  BY DEF WatchStep, CRDAppears, CRDDisappears, SyncSucceeds, SyncFails,
     RequeueWidgets, RequeueFails, ObjectChanges, ObjectEvent, OtherRegisters,
     OtherResets, history, localVars, apiVars
<1>2. ~queued /\ ~missed
  BY DEF WatchStep, CRDAppears, CRDDisappears, SyncSucceeds, SyncFails,
     RequeueWidgets, RequeueFails, ObjectChanges, ObjectEvent, OtherRegisters,
     OtherResets, QueueReferring, TypeOK, history
<1>3. SameVersion(cached, widget) /\ widget.refs = cached.refs
  <2>1. SameVersion(cached, widget)
    BY <1>1 DEF SameVersion
  <2> QED BY <1>1, <2>1, SameRefs DEF Versions
<1>4. /\ widget.status.observed = widget.generation
      /\ \A j \in Integrations : Undisturbed(j, widget) =>
            widget.status.conditions[j] = Expected(j, widget, watch, objectCached)
  BY <1>1, <1>2, <1>3 DEF StatusCurrent
<1>5. ASSUME NEW j \in Integrations, Undisturbed(j, widget)'
      PROVE  widget'.status.conditions[j] = Expected(j, widget', watch', objectCached')
  <2>1. widget.refs[j] = NoName \/ ~toRequeue'[j]
    BY <1>1, <1>5 DEF Undisturbed
  <2>2. /\ widget.refs[j] = NoName \/ ~toRequeue[j]
        /\ Expected(j, widget, watch', objectCached')
              = Expected(j, widget, watch, objectCached)
    BY <1>1, <1>3, <2>1, WatchStepKeeps
  <2> QED BY <1>1, <1>4, <2>2 DEF Undisturbed
<1> QED BY <1>1, <1>4, <1>5

LEMMA StatusCurrentNext ==
    ASSUME TypeOK, LocalState, VersionsOrdered, BaseCurrent, ReconcileCurrent,
           StatusCurrent, [Next]_vars
    PROVE  StatusCurrent'
<1>1. CASE EditRefs
  <2>1. PICK refs \in [Integrations -> Names \cup {NoName}] :
           widget' = [widget EXCEPT !.refs = refs, !.generation = @ + 1]
    BY <1>1 DEF EditRefs, Writes
  <2>2. widget # NoWidget /\ cached' = cached
    BY <1>1 DEF EditRefs
  <2>3. widget'.uid = widget.uid /\ widget'.generation = widget.generation + 1
    BY <2>1, <2>2 DEF TypeOK, WidgetType
  <2>4. ASSUME cached # NoWidget PROVE ~SameVersion(cached, widget')
    <3>1. cached.uid = widget.uid => cached.generation <= widget.generation
      BY <2>2, <2>4 DEF VersionsOrdered, Versions
    <3>2. cached.generation \in Nat /\ widget.generation \in Nat
      BY <2>2, <2>4 DEF TypeOK, WidgetType
    <3> QED BY <2>3, <3>1, <3>2 DEF SameVersion
  <2> QED BY <2>2, <2>4 DEF StatusCurrent, SameVersion
<1>2. CASE DeleteWidget
  BY <1>2 DEF DeleteWidget, Writes, StatusCurrent
<1>3. CASE CreateWidget
  <2>1. widget'.uid = changes + 1 /\ cached' = cached
    BY <1>3 DEF CreateWidget, Writes, Created
  <2>2. ASSUME cached # NoWidget PROVE ~SameVersion(cached, widget')
    <3>1. cached.uid <= changes /\ cached.uid \in Nat /\ changes \in Nat
      BY <2>2 DEF VersionsOrdered, Versions, TypeOK, WidgetType
    <3> QED BY <2>1, <3>1 DEF SameVersion
  <2> QED BY <2>1, <2>2 DEF StatusCurrent, SameVersion
<1>4. CASE Outage \/ GetFails \/ UNCHANGED vars
  BY <1>4 DEF Outage, GetFails, vars, apiVars, watchVars, localVars, history, StatusCurrent,
     Undisturbed, SameVersion
<1>5. CASE WidgetEvent
  <2> SUFFICES ASSUME ~queued', ~missed', cached' # NoWidget, widget # NoWidget
               PROVE  StatusCurrent'
    BY <1>5 DEF StatusCurrent, WidgetEvent
  <2>1. /\ cached' = Head(events)
        /\ ~GenerationChanged(cached, Head(events))
        /\ ~HiddenReplacement(cached, Head(events))
        /\ ~queued /\ ~missed
    BY <1>5 DEF WidgetEvent
  <2>2. cached # NoWidget /\ SameVersion(cached', cached)
    BY <2>1 DEF GenerationChanged, HiddenReplacement, SameVersion
  <2> QED
    BY <1>5, <2>1, <2>2 DEF StatusCurrent, SameVersion, Undisturbed, WidgetEvent,
       localVars, watchVars
<1>6. CASE BeginReconcile
  <2>1. CASE cached = NoWidget
    BY <1>6, <2>1 DEF BeginReconcile, StatusCurrent
  <2>2. CASE cached # NoWidget
    BY <1>6, <2>2, WidgetAssumption DEF BeginReconcile, StatusCurrent, NextPart
  <2> QED BY <2>1, <2>2
<1>7. ASSUME NEW i \in Integrations, PartOfReconcile(i)
      PROVE  StatusCurrent'
  <2>1. pc' # "idle"
    BY <1>7, PartNext, PartLocal, WidgetAssumption DEF Wanted
  <2> QED BY <2>1 DEF StatusCurrent
<1>8. CASE EndStep
  BY <1>8, StatusCurrentEnd
<1>9. CASE Restart
  BY <1>9 DEF Restart, QueuedAtStart, StatusCurrent
<1> QED
  BY <1>1, <1>2, <1>3, <1>4, <1>5, <1>6, <1>7, <1>8, <1>9, StatusCurrentWatch
     DEF Next, ReconcileStep, EndStep

-----------------------------------------------------------------------------
(* The steps of WatchStatus, for one Widget.                               *)

WatchKeeps(i) == [Watch(i)!Next]_(Watch(i)!statusVars)

Reading(i) == IF CallsGet(i) THEN {"widget"} ELSE {}
Due(i) == IF WillAsk(i) THEN {"widget", "others"} ELSE {"others"}

\* A change of the answer after which the Widget will ask, or none.
LEMMA Told ==
    ASSUME NEW i \in Integrations, CallsGet(i)' <=> CallsGet(i), WillAsk(i)',
           \/ watch'[i] = watch[i]
           \/ watch[i] = "CRDNotFound" /\ watch'[i] = "Pending"
           \/ watch[i] = "Syncing" /\ watch'[i] \in {"Ready", "Pending"}
           \/ watch[i] = "Ready" /\ watch'[i] = "CRDNotFound"
    PROVE  WatchKeeps(i)
<1>1. Due(i)' = {"widget", "others"} /\ Due(i)' = Due(i) \cup {"widget"}
      /\ Reading(i)' = Reading(i)
  BY DEF Due, Reading
<1>2. CASE watch'[i] = watch[i]
  <2>1. Watch(i)!Enqueued("widget")
    BY <1>1, <1>2 DEF Watch!Enqueued, Due, Reading
  <2> QED BY <2>1 DEF WatchKeeps, Watch!Next, Watch!ParentStep
<1>3. CASE watch'[i] # watch[i]
  <2>1. Watch(i)!TellsAll
    BY <1>1 DEF Watch!TellsAll, Due, Reading
  <2> QED
    BY <1>3, <2>1 DEF WatchKeeps, Watch!Next, Watch!CRDFound, Watch!SyncSucceeded,
       Watch!SyncFailed, Watch!ActiveLost, Watch!Becomes
<1> QED BY <1>2, <1>3

\* A change that other Widgets bring about, of an answer that is "no" both times.
LEMMA NotTold ==
    ASSUME NEW i \in Integrations, CallsGet(i)' <=> CallsGet(i), (WillAsk(i)' <=> WillAsk(i)),
           \/ watch'[i] = watch[i]
           \/ watch[i] \in {"Pending", "Syncing"} /\ watch'[i] = "CRDNotFound"
           \/ watch[i] = "Pending" /\ watch'[i] = "Syncing"
    PROVE  WatchKeeps(i)
<1>1. Due(i)' = Due(i) /\ Reading(i)' = Reading(i)
  BY DEF Due, Reading
<1>2. CASE watch'[i] = watch[i]
  BY <1>1, <1>2 DEF WatchKeeps, Watch!statusVars, Due, Reading
<1>3. CASE watch[i] \in {"Pending", "Syncing"} /\ watch'[i] = "CRDNotFound"
  <2>1. Watch(i)!InactiveLost
    BY <1>1, <1>3 DEF Watch!InactiveLost, Watch!Becomes, Watch!TellsNobody, Due, Reading
  <2> QED BY <2>1 DEF WatchKeeps, Watch!Next
<1>4. CASE watch[i] = "Pending" /\ watch'[i] = "Syncing"
  <2>1. "others" \in Due(i) /\ Due(i)' \in {Due(i), Due(i) \ {"others"}}
    BY <1>1 DEF Due
  <2>2. Watch(i)!ToldUnavailable("others")
    BY <1>1, <1>4, <2>1 DEF Watch!ToldUnavailable, Watch!Asks, Watch!Becomes, Due, Reading
  <2> QED BY <2>2 DEF WatchKeeps, Watch!Next, Watch!ParentStep
<1> QED BY <1>2, <1>3, <1>4

\* Ensure answers, and the Widget was due until then.
LEMMA Answered ==
    ASSUME NEW i \in Integrations, WillAsk(i), ~CallsGet(i),
           \/ /\ CallsGet(i)'
              /\ watch[i] = "Ready" /\ watch'[i] = "Ready"
           \/ /\ ~CallsGet(i)'
              /\ watch[i] \in {"CRDNotFound", "Pending", "Syncing"}
              /\ watch'[i] = watch[i] \/ (watch[i] = "Pending" /\ watch'[i] = "Syncing")
    PROVE  WatchKeeps(i)
<1>1. "widget" \in Due(i) /\ Due(i)' \in {Due(i), Due(i) \ {"widget"}}
  BY DEF Due
<1>2. CASE CallsGet(i)'
  <2>1. Reading(i)' = Reading(i) \cup {"widget"}
    BY <1>2 DEF Reading
  <2>2. Watch(i)!ToldReady("widget")
    BY <1>1, <1>2, <2>1 DEF Watch!ToldReady, Watch!Asks, Watch!Becomes, Due, Reading
  <2> QED BY <2>2 DEF WatchKeeps, Watch!Next, Watch!ParentStep
<1>3. CASE ~CallsGet(i)'
  <2>1. Reading(i)' = Reading(i)
    BY <1>3 DEF Reading
  <2>2. Watch(i)!ToldUnavailable("widget")
    BY <1>1, <1>3, <2>1 DEF Watch!ToldUnavailable, Watch!Asks, Watch!Becomes, Due, Reading
  <2> QED BY <2>2 DEF WatchKeeps, Watch!Next, Watch!ParentStep
<1> QED BY <1>2, <1>3

\* The read of the cache that follows.
LEMMA ReadOver ==
    ASSUME TypeOK, NEW i \in Integrations, CallsGet(i), ~CallsGet(i)',
           (WillAsk(i)' <=> WillAsk(i)), watch'[i] = watch[i] \/ watch'[i] = "CRDNotFound"
    PROVE  WatchKeeps(i)
<1>1. /\ Due(i)' = Due(i) /\ "widget" \in Reading(i)
      /\ Reading(i)' = Reading(i) \ {"widget"}
  BY DEF Due, Reading
<1>2. CASE watch'[i] = watch[i]
  <2>1. Watch(i)!ReadEnds("widget")
    BY <1>1, <1>2 DEF Watch!ReadEnds, Due, Reading
  <2> QED BY <2>1 DEF WatchKeeps, Watch!Next, Watch!ParentStep
<1>3. CASE watch'[i] = "CRDNotFound"
  <2>1. watch[i] \in Watch(i)!Reasons \ {"NotStarted"}
    BY DEF Watch!Reasons, TypeOK
  <2>2. Watch(i)!ReadInvalidated("widget")
    BY <1>1, <1>3, <2>1 DEF Watch!ReadInvalidated, Watch!Becomes, Due, Reading
  <2> QED BY <2>2 DEF WatchKeeps, Watch!Next, Watch!ParentStep
<1> QED BY <1>2, <1>3

\* The Widget is due, or not, as before when nothing it depends on has changed.
LEMMA SameDue ==
    ASSUME NEW i \in Integrations,
           UNCHANGED <<pc, copy, ensured, cached, queued, toRequeue[i]>>
    PROVE  (WillAsk(i)' <=> WillAsk(i)) /\ (CallsGet(i)' <=> CallsGet(i))
  BY DEF WillAsk, HasReference, IndexedNames, CallsGet, Done, Wanted

LEMMA PromiseWatch ==
    ASSUME TypeOK, NEW j \in Integrations, WatchStep(j), ~missed', NEW i \in Integrations
    PROVE  WatchKeeps(i)
<1>1. UNCHANGED <<pc, copy, ensured, cached>>
  BY QuietSteps, OutsideKeepsLocal DEF WatchStep, CRDAppears, CRDDisappears, SyncSucceeds,
     SyncFails, RequeueWidgets, RequeueFails, ObjectChanges, ObjectEvent, OtherRegisters,
     OtherResets, localVars
<1>2. (CallsGet(i)' <=> CallsGet(i)) /\ (HasReference(i)' <=> HasReference(i))
  BY <1>1 DEF CallsGet, HasReference, IndexedNames
<1>3. queued' \in BOOLEAN /\ (queued' = queued \/ queued')
  BY DEF WatchStep, CRDAppears, CRDDisappears, SyncSucceeds, SyncFails, RequeueWidgets,
     RequeueFails, ObjectChanges, ObjectEvent, OtherRegisters, OtherResets,
     QueueReferring, TypeOK, HasReference
<1>4. CASE watch'[i] = watch[i] /\ toRequeue'[i] = toRequeue[i]
  <2>1. CASE queued' = queued
    BY <1>1, <1>4, <2>1, SameDue, NotTold
  <2>2. CASE queued'
    <3>1. WillAsk(i)'
      BY <2>2 DEF WillAsk
    <3> QED BY <1>2, <1>4, <3>1, Told
  <2> QED BY <1>3, <2>1, <2>2
<1>5. CASE i # j
  <2>1. watch'[i] = watch[i] /\ toRequeue'[i] = toRequeue[i]
    BY <1>5 DEF WatchStep, CRDAppears, CRDDisappears, SyncSucceeds, SyncFails,
       RequeueWidgets, RequeueFails, ObjectChanges, ObjectEvent, OtherRegisters,
       OtherResets, Register, Reset, TypeOK, watchVars
  <2> QED BY <1>4, <2>1
<1>6. CASE i = j
  <2>1. ASSUME toRequeue'[i] PROVE WillAsk(i)'
    BY <2>1 DEF WillAsk
  <2>2. CASE CRDAppears(i)
    BY <1>2, <2>1, <2>2, Told DEF CRDAppears, TypeOK
  <2>3. CASE CRDDisappears(i)
    <3>1. CASE watch[i] = "Ready"
      BY <1>2, <2>1, <2>3, <3>1, Told DEF CRDDisappears, TypeOK
    <3>2. CASE watch[i] # "Ready"
      <4>1. /\ watch[i] \in {"Pending", "Syncing"} /\ watch'[i] = "CRDNotFound"
            /\ UNCHANGED <<queued, toRequeue[i]>>
        BY <2>3, <3>2 DEF CRDDisappears, TypeOK
      <4> QED BY <1>1, <4>1, SameDue, NotTold
    <3> QED BY <3>1, <3>2
  <2>4. CASE SyncSucceeds(i)
    BY <1>2, <2>1, <2>4, Told DEF SyncSucceeds, TypeOK
  <2>5. CASE SyncFails(i)
    BY <1>2, <2>1, <2>5, Told DEF SyncFails, TypeOK
  <2>6. CASE RequeueWidgets(i)
    <3>1. (queued' \/ ~HasReference(i)') /\ watch' = watch
      BY <1>2, <2>6 DEF RequeueWidgets
    <3>2. WillAsk(i)'
      BY <3>1 DEF WillAsk
    <3> QED BY <1>2, <3>1, <3>2, Told
  <2>7. CASE RequeueFails(i)
    <3>1. ~HasReference(i)' /\ watch' = watch
      BY <1>2, <2>7 DEF RequeueFails
    <3>2. WillAsk(i)'
      BY <3>1 DEF WillAsk
    <3> QED BY <1>2, <3>1, <3>2, Told
  <2>8. CASE ObjectChanges(i) \/ ObjectEvent(i)
    BY <1>4, <2>8 DEF ObjectChanges, ObjectEvent, watchVars
  <2>9. CASE OtherRegisters(i)
    <3>1. /\ watch[i] = "Pending" /\ watch'[i] = "Syncing"
          /\ UNCHANGED <<queued, toRequeue[i]>>
      BY <2>9 DEF OtherRegisters, Register, TypeOK
    <3> QED BY <1>1, <3>1, SameDue, NotTold
  <2>10. CASE OtherResets(i)
    <3>1. watch[i] # "CRDNotFound" /\ watch'[i] = "CRDNotFound"
          /\ UNCHANGED <<queued, toRequeue[i]>>
      BY <2>10 DEF OtherResets, Reset, TypeOK
    <3>2. CASE watch[i] = "Ready"
      <4>1. ~HasReference(i)'
        BY <1>2, <2>10, <3>2 DEF OtherResets
      <4>2. WillAsk(i)'
        BY <4>1 DEF WillAsk
      <4> QED BY <1>2, <3>1, <3>2, <4>2, Told
    <3>3. CASE watch[i] # "Ready"
      <4>1. watch[i] \in {"Pending", "Syncing"}
        BY <3>1, <3>3 DEF TypeOK
      <4> QED BY <1>1, <3>1, <4>1, SameDue, NotTold
    <3> QED BY <3>2, <3>3
  <2> QED
    BY <1>6, <2>2, <2>3, <2>4, <2>5, <2>6, <2>7, <2>8, <2>9, <2>10 DEF WatchStep
<1> QED BY <1>5, <1>6

\* A change of the references that the cache receives queues the Widget.
LEMMA PromiseEvent ==
    ASSUME TypeOK, VersionsOrdered, WidgetEvent, ~missed', NEW i \in Integrations
    PROVE  WatchKeeps(i)
<1>1. UNCHANGED <<watch, toRequeue, pc, copy, ensured>>
  BY DEF WidgetEvent, watchVars, localVars
<1>2. CallsGet(i)' <=> CallsGet(i)
  BY <1>1 DEF CallsGet
<1>3. CASE queued'
  <2>1. WillAsk(i)'
    BY <1>3 DEF WillAsk
  <2> QED BY <1>1, <1>2, <2>1, Told
<1>4. CASE ~queued'
  <2>1. /\ cached' = Head(events) /\ Head(events) \in Versions
        /\ ~GenerationChanged(cached, Head(events))
        /\ ~HiddenReplacement(cached, Head(events))
        /\ queued' = queued
    <3>1. events # <<>> /\ events \in Seq(WidgetType \cup {NoWidget})
      BY DEF WidgetEvent, TypeOK
    <3>2. Head(events) = events[1] /\ 1 \in DOMAIN events
      BY <3>1
    <3> QED BY <1>4, <3>2 DEF WidgetEvent, Versions, TypeOK
  <2>2. NoWidget \notin {cached, cached'} /\ SameVersion(cached, cached')
    BY <2>1 DEF GenerationChanged, HiddenReplacement, SameVersion
  <2>3. cached'.refs = cached.refs
    BY <2>1, <2>2, SameRefs DEF Versions
  <2>4. HasReference(i)' <=> HasReference(i)
    BY <2>2, <2>3 DEF HasReference, IndexedNames
  <2>5. WillAsk(i)' <=> WillAsk(i)
    BY <1>1, <2>1, <2>4, <1>2 DEF WillAsk, Done, Wanted
  <2> QED BY <1>1, <1>2, <2>5, NotTold
<1> QED BY <1>3, <1>4

\* The key is taken off the queue, and each part the Widget has will ask.
LEMMA PromiseBegin ==
    ASSUME TypeOK, LocalState, BeginReconcile, NEW i \in Integrations
    PROVE  WatchKeeps(i)
<1>1. watch' = watch /\ cached' = cached
  BY DEF BeginReconcile, watchVars
<1>2. ~CallsGet(i)'
  BY WidgetAssumption DEF CallsGet, BeginReconcile, LocalState, localVars
<1>3. ~CallsGet(i)
  BY WidgetAssumption DEF CallsGet, BeginReconcile
<1>4. WillAsk(i)'
  <2>1. CASE cached = NoWidget
    BY <1>1, <2>1 DEF WillAsk, HasReference, IndexedNames
  <2>2. CASE cached # NoWidget /\ i \notin Wanted(cached)
    <3>1. ~HasReference(i)'
      BY <1>1, <2>2 DEF HasReference, IndexedNames, Wanted
    <3> QED BY <3>1 DEF WillAsk
  <2>3. CASE cached # NoWidget /\ i \in Wanted(cached)
    <3>1. copy' = cached /\ pc' = NextPart(Wanted(cached))
      BY <2>3 DEF BeginReconcile
    <3>2. ~Done(i)' /\ pc' # "idle"
      BY <2>3, <3>1, WidgetAssumption DEF Done, NextPart, Wanted
    <3> QED BY <1>2, <3>2 DEF WillAsk
  <2> QED BY <2>1, <2>2, <2>3
<1> QED BY <1>1, <1>2, <1>3, <1>4, Told

LEMMA PromisePart ==
    ASSUME TypeOK, LocalState, NEW j \in Integrations, PartOfReconcile(j),
           NEW i \in Integrations
    PROVE  WatchKeeps(i)
<1>1. pc = j /\ pc # "idle" /\ copy # NoWidget /\ j \in Wanted(copy) /\ copy' = copy
  BY PartLocal, PartNext, WidgetAssumption
<1>2. UNCHANGED <<queued, toRequeue, cached>>
  BY DEF PartOfReconcile, WatchActive, WatchInactive, ReadObject, ReadInvalidated,
     ReadFails, watchVars
<1>3. HasReference(i)' <=> HasReference(i)
  BY <1>2 DEF HasReference, IndexedNames
<1>4. CASE WatchActive(j)
  <2>1. pc' = pc /\ ensured' /\ ~ensured /\ watch' = watch /\ watch[j] = "Ready"
    BY <1>4 DEF WatchActive, CallsEnsure, watchVars
  <2>2. CASE i = j
    <3>1. ~Done(i)
      BY <1>1, <2>2, WidgetAssumption DEF Done
    <3>2. WillAsk(i) /\ ~CallsGet(i) /\ CallsGet(i)'
      BY <1>1, <2>1, <2>2, <3>1 DEF WillAsk, CallsGet
    <3> QED BY <2>1, <2>2, <3>2, Answered
  <2>3. CASE i # j
    <3>1. ~CallsGet(i) /\ ~CallsGet(i)' /\ (Done(i)' <=> Done(i))
      BY <1>1, <2>1, <2>3 DEF CallsGet, Done, Wanted
    <3>2. WillAsk(i)' <=> WillAsk(i)
      BY <1>1, <1>2, <1>3, <2>1, <3>1 DEF WillAsk
    <3> QED BY <2>1, <3>1, <3>2, NotTold
  <2> QED BY <2>2, <2>3
<1>5. CASE ~WatchActive(j)
  <2>1. /\ ~ensured' /\ pc' # "idle"
        /\ pc' = NextPart(Wanted(copy) \ {"plugin", j})
    BY <1>5, PartNext, PartLocal, WidgetAssumption DEF Wanted
  <2>2. ~CallsGet(i)'
    BY <2>1 DEF CallsGet
  <2>3. CASE i = j
    <3>1. ~Done(i) /\ Done(i)'
      BY <1>1, <2>1, <2>3, WidgetAssumption DEF Done, NextPart, Wanted
    <3>2. CASE CallsGet(i)
      <4>1. WillAsk(i)' <=> WillAsk(i)
        BY <1>2, <1>3, <3>1, <3>2 DEF WillAsk
      <4>2. watch'[i] = watch[i] \/ watch'[i] = "CRDNotFound"
        BY <1>5, <2>3, <3>2 DEF PartOfReconcile, WatchInactive, CallsEnsure, CallsGet,
           ReadObject, ReadInvalidated, ReadFails, Reset, TypeOK, watchVars
      <4> QED BY <2>2, <3>2, <4>1, <4>2, ReadOver
    <3>3. CASE ~CallsGet(i)
      <4>1. WillAsk(i)
        BY <1>1, <3>1, <3>3 DEF WillAsk
      <4>2. WatchInactive(i)
        BY <1>5, <2>3, <3>3 DEF PartOfReconcile, ReadObject, ReadInvalidated, ReadFails
      <4>3. /\ watch[i] \in {"CRDNotFound", "Pending", "Syncing"}
            /\ watch'[i] = watch[i] \/ (watch[i] = "Pending" /\ watch'[i] = "Syncing")
        BY <4>2 DEF WatchInactive, Register, TypeOK
      <4> QED BY <2>2, <3>3, <4>1, <4>3, Answered
    <3> QED BY <3>2, <3>3
  <2>4. CASE i # j
    <3>1. watch'[i] = watch[i] /\ ~CallsGet(i)
      BY <1>1, <1>5, <2>4 DEF PartOfReconcile, WatchInactive, ReadObject,
         ReadInvalidated, ReadFails, Register, Reset, TypeOK, watchVars, CallsGet
    <3>2. Done(i)' <=> Done(i)
      BY <1>1, <2>1, <2>4, WidgetAssumption DEF Done, NextPart, Wanted
    <3>3. WillAsk(i)' <=> WillAsk(i)
      BY <1>1, <1>2, <1>3, <2>1, <2>2, <3>1, <3>2 DEF WillAsk
    <3> QED BY <2>2, <3>1, <3>3, NotTold
  <2> QED BY <2>3, <2>4
<1> QED BY <1>4, <1>5

LEMMA PromiseEnd ==
    ASSUME TypeOK, LocalState, EndStep, NEW i \in Integrations
    PROVE  WatchKeeps(i)
<1>1. pc = "patch" /\ pc' = "idle" /\ UNCHANGED <<watch, toRequeue, cached, ensured>>
  BY EndNext DEF EndReconcile, watchVars
<1>2. ~CallsGet(i) /\ ~CallsGet(i)' /\ Done(i)
  BY <1>1, WidgetAssumption DEF CallsGet, Done
<1>3. queued' = queued \/ queued'
  BY DEF EndStep, ReturnError, PatchFails, NothingToPatch, PatchStatus, PatchResponseLost
<1>4. CASE queued'
  <2>1. WillAsk(i)'
    BY <1>4 DEF WillAsk
  <2> QED BY <1>1, <1>2, <2>1, Told
<1>5. CASE queued' = queued
  <2>1. HasReference(i)' <=> HasReference(i)
    BY <1>1 DEF HasReference, IndexedNames
  <2>2. WillAsk(i)' <=> WillAsk(i)
    BY <1>1, <1>2, <1>5, <2>1 DEF WillAsk
  <2> QED BY <1>1, <1>2, <2>2, NotTold
<1> QED BY <1>3, <1>4, <1>5

LEMMA PromiseNext ==
    ASSUME StatusInv, [Next]_vars, ~missed', ~Restart, NEW i \in Integrations
    PROVE  WatchKeeps(i)
<1>1. TypeOK /\ LocalState /\ VersionsOrdered
  BY DEF StatusInv
<1>2. CASE \/ EditRefs \/ DeleteWidget \/ CreateWidget \/ Outage
           \/ GetFails \/ UNCHANGED vars
  <2>1. UNCHANGED <<watch, toRequeue, pc, copy, ensured, cached, queued>>
    BY <1>2 DEF EditRefs, DeleteWidget, CreateWidget, Outage, GetFails, vars, watchVars,
       localVars
  <2> QED BY <2>1, SameDue, NotTold
<1> QED
  BY <1>1, <1>2, PromiseWatch, PromiseEvent, PromiseBegin, PromisePart, PromiseEnd
     DEF Next, ReconcileStep, EndStep

-----------------------------------------------------------------------------
(* What is missed, and when.                                               *)

\* The faults that lose a request, and the other Widgets, that reset a watch.
NothingLosesRequests ==
    Faults \cap {"listError", "outage", "sharedRequest"} = {} /\ ~OtherWidgets

Joined(old, new) == NoWidget \in {old, new} \/ old.uid = new.uid

\* No two events in a row, or the cache and the first of them, are of different
\* Widgets: a deletion is between them.
EventsInOrder ==
    \A k \in DOMAIN events : Joined(IF k = 1 THEN cached ELSE events[k - 1], events[k])

LEMMA WriteInOrder ==
    ASSUME TypeOK, CacheCatchesUp, EventsInOrder, NEW new \in WidgetType \cup {NoWidget},
           Writes(new), cached' = cached, Joined(widget, new)
    PROVE  EventsInOrder'
<1>1. /\ events \in Seq(WidgetType \cup {NoWidget})
      /\ events' = Append(events, new)
  BY DEF TypeOK, Writes
<1>2. /\ Len(events) \in Nat /\ DOMAIN events = 1 .. Len(events)
      /\ DOMAIN events' = 1 .. Len(events) + 1
      /\ events'[Len(events) + 1] = new
      /\ \A k \in DOMAIN events : events'[k] = events[k]
      /\ events = <<>> <=> Len(events) = 0
  BY <1>1
<1>3. ASSUME NEW k \in DOMAIN events'
      PROVE  Joined(IF k = 1 THEN cached' ELSE events'[k - 1], events'[k])
  <2>1. CASE k \in DOMAIN events
    <3>1. k # 1 => k - 1 \in DOMAIN events
      BY <1>2, <2>1
    <3> QED BY <1>2, <2>1, <3>1 DEF EventsInOrder
  <2>2. CASE k \notin DOMAIN events
    <3>1. k = Len(events) + 1
      BY <1>2, <2>2
    <3>2. (IF k = 1 THEN cached' ELSE events'[k - 1]) = widget
      <4>1. CASE events = <<>>
        BY <1>2, <3>1, <4>1 DEF CacheCatchesUp
      <4>2. CASE events # <<>>
        <5>1. k # 1 /\ k - 1 = Len(events) /\ Len(events) \in DOMAIN events
          BY <1>2, <3>1, <4>2
        <5> QED BY <1>2, <4>2, <5>1 DEF CacheCatchesUp
      <4> QED BY <4>1, <4>2
    <3> QED BY <1>2, <3>1, <3>2
  <2> QED BY <2>1, <2>2
<1> QED BY <1>3 DEF EventsInOrder

LEMMA InOrderNext ==
    ASSUME NothingLosesRequests, StatusInv, EventsInOrder, ~missed, [Next]_vars
    PROVE  EventsInOrder' /\ ~missed'
<1>1. TypeOK /\ CacheCatchesUp /\ LocalState
  BY DEF StatusInv
<1>2. CASE EditRefs \/ DeleteWidget \/ CreateWidget
  <2>1. UNCHANGED <<cached, missed>>
    BY <1>2 DEF EditRefs, DeleteWidget, CreateWidget, history
  <2>2. PICK new \in WidgetType \cup {NoWidget} : Writes(new) /\ Joined(widget, new)
    <3>1. CASE EditRefs
      <4>1. PICK refs \in [Integrations -> Names \cup {NoName}] :
               Writes([widget EXCEPT !.refs = refs, !.generation = @ + 1])
        BY <3>1 DEF EditRefs
      <4> DEFINE new == [widget EXCEPT !.refs = refs, !.generation = @ + 1]
      <4>2. widget \in WidgetType /\ widget.generation + 1 \in Nat
        BY <1>1, <3>1 DEF EditRefs, TypeOK, WidgetType
      <4>3. [widget EXCEPT !.refs = refs] \in WidgetType
        BY <4>2 DEF WidgetType
      <4>4. ASSUME NEW w \in WidgetType, NEW g \in Nat
            PROVE  [w EXCEPT !.generation = g] \in WidgetType
        BY DEF WidgetType
      <4>5. new \in WidgetType
        BY <4>2, <4>3, <4>4
      <4>6. new.uid = widget.uid
        BY <4>2 DEF WidgetType
      <4>7. Writes(new)
        BY <4>1
      <4> HIDE DEF new
      <4> QED BY <4>5, <4>6, <4>7 DEF Joined
    <3>2. CASE DeleteWidget
      BY <3>2 DEF DeleteWidget, Joined
    <3>3. CASE CreateWidget
      <4>1. changes + 1 \in Nat
        BY <1>1 DEF TypeOK
      <4> QED BY <3>3, <4>1, StatusTypes DEF CreateWidget, Joined
    <3> QED BY <1>2, <3>1, <3>2, <3>3
  <2> QED BY <1>1, <2>1, <2>2, WriteInOrder
<1>3. CASE WidgetEvent
  <2>1. /\ events \in Seq(WidgetType \cup {NoWidget}) /\ events # <<>>
        /\ cached' = Head(events) /\ events' = Tail(events)
    BY <1>1, <1>3 DEF WidgetEvent, TypeOK
  <2>2. /\ Head(events) = events[1] /\ 1 \in DOMAIN events
        /\ \A k \in DOMAIN events' : /\ k + 1 \in DOMAIN events /\ events'[k] = events[k + 1]
                                     /\ k \in Nat \ {0}
                                     /\ k # 1 => events'[k - 1] = events[k]
    BY <2>1
  <2>3. ~missed'
    <3>1. Joined(cached, events[1])
      BY <2>2 DEF EventsInOrder
    <3> QED BY <1>3, <2>2, <3>1 DEF WidgetEvent, HiddenReplacement, Joined
  <2>4. ASSUME NEW k \in DOMAIN events'
        PROVE  Joined(IF k = 1 THEN cached' ELSE events'[k - 1], events'[k])
    <3>1. PICK m \in DOMAIN events : m = k + 1 /\ m # 1 /\ m - 1 = k
      BY <2>2
    <3>2. Joined(events[k], events[k + 1])
      <4>1. Joined(events[m - 1], events[m])
        BY <3>1 DEF EventsInOrder
      <4> QED BY <3>1, <4>1
    <3>3. (IF k = 1 THEN cached' ELSE events'[k - 1]) = events[k]
      BY <2>1, <2>2
    <3> QED BY <2>2, <3>2, <3>3
  <2> QED BY <2>3, <2>4 DEF EventsInOrder
<1>4. CASE Restart
  <2>1. DOMAIN events' = {}
    BY <1>4 DEF Restart
  <2> QED BY <1>4, <2>1 DEF Restart, history, EventsInOrder
<1>5. CASE EndStep
  <2>1. ~missed'
    BY <1>5, EndNext DEF EndReconcile, history
  <2>2. CASE UNCHANGED <<widget, events>>
    BY <1>1, <1>5, <2>1, <2>2, EndWrites DEF EventsInOrder
  <2>3. CASE ~UNCHANGED <<widget, events>>
    <3>1. PICK new \in WidgetType : Writes(new) /\ widget # NoWidget /\ SameVersion(new, widget)
      BY <1>1, <1>5, <2>3, EndWrites
    <3>2. Joined(widget, new)
      BY <3>1 DEF Joined, SameVersion
    <3> QED BY <1>1, <1>5, <2>1, <3>1, <3>2, EndWrites, WriteInOrder
  <2> QED BY <2>2, <2>3
<1>6. CASE \/ GetFails \/ UNCHANGED vars
           \/ BeginReconcile
           \/ \E i \in Integrations : WatchStep(i) \/ PartOfReconcile(i)
  <2>1. EventsInOrder'
    BY <1>1, <1>6, QuietSteps DEF EventsInOrder
  <2>2. ASSUME NEW i \in Integrations, WatchStep(i)
        PROVE  ~missed'
    BY <2>2 DEF NothingLosesRequests, WatchStep, CRDAppears, CRDDisappears, SyncSucceeds,
       SyncFails, RequeueWidgets, RequeueFails, ObjectChanges, ObjectEvent, OtherRegisters,
       OtherResets, QueueReferring, history
  <2>3. ASSUME NEW i \in Integrations, PartOfReconcile(i)
        PROVE  ~missed'
    BY <2>3 DEF PartOfReconcile, WatchActive, WatchInactive, ReadObject, ReadInvalidated,
       ReadFails, history
  <2>4. ASSUME GetFails \/ UNCHANGED vars \/ BeginReconcile
        PROVE  ~missed'
    BY <2>4 DEF GetFails, BeginReconcile, vars, history
  <2> QED BY <1>6, <2>1, <2>2, <2>3, <2>4
<1>7. ~Outage
  BY DEF NothingLosesRequests, Outage
<1> QED
  BY <1>2, <1>3, <1>4, <1>5, <1>6, <1>7 DEF Next, ReconcileStep, EndStep

-----------------------------------------------------------------------------
(* The theorems.                                                           *)

LEMMA StatusInit == Init => StatusInv
<1> SUFFICES ASSUME Init PROVE StatusInv
  OBVIOUS
<1>1. TypeOK /\ LocalState
  BY LocalInit
<1>2. PICK refs \in [Integrations -> Names \cup {NoName}] : widget = Created(0, refs)
  BY DEF Init
<1>3. /\ widget.uid = 0 /\ cached = widget /\ copy = NoWidget /\ events = <<>>
      /\ changes = 0 /\ queued
  BY <1>2 DEF Init, Created
<1>4. Versions \subseteq {widget, NoWidget}
  BY <1>3 DEF Versions
<1>5. widget # NoWidget => widget.generation \in Nat
  BY <1>1 DEF TypeOK, WidgetType
<1>6. VersionsOrdered
  BY <1>3, <1>4, <1>5 DEF VersionsOrdered
<1>7. CacheCatchesUp /\ BaseCurrent /\ ReconcileCurrent /\ StatusCurrent
  BY <1>3 DEF Init, CacheCatchesUp, BaseCurrent, ReconcileCurrent, StatusCurrent
<1> QED BY <1>1, <1>6, <1>7 DEF StatusInv

LEMMA StatusStep == StatusInv /\ [Next]_vars => StatusInv'
<1> SUFFICES ASSUME StatusInv, [Next]_vars PROVE StatusInv'
  OBVIOUS
<1>1. TypeOK /\ VersionsOrdered /\ CacheCatchesUp /\ LocalState /\ BaseCurrent
      /\ ReconcileCurrent /\ StatusCurrent
  BY DEF StatusInv
<1>2. TypeOK' /\ LocalState'
  BY <1>1, LocalNext
<1>3. VersionsOrdered' /\ CacheCatchesUp'
  BY <1>1, VersionsNext
<1>4. BaseCurrent' /\ ReconcileCurrent' /\ StatusCurrent'
  BY <1>1, BaseCurrentNext, ReconcileCurrentNext, StatusCurrentNext
<1> QED BY <1>2, <1>3, <1>4 DEF StatusInv

\* Every variable of the controller keeps its type, whatever is edited, lost or
\* restarted.
THEOREM TypeCorrect == Spec => []TypeOK
<1>1. Init => TypeOK /\ LocalState
  BY LocalInit
<1>2. TypeOK /\ LocalState /\ [Next]_vars => TypeOK' /\ LocalState'
  BY LocalNext
<1> QED BY <1>1, <1>2, PTL DEF Spec

\* What a Reconcile under way has computed, and the status the last one stored, are
\* right for the version of the Widget the controller's cache holds, or the Widget
\* is queued, will be queued by a watcher, or was missed.
THEOREM StatusInvariant == Spec => []StatusInv
  BY StatusInit, StatusStep, PTL DEF Spec

\* When all events are delivered and all requests worked off, the status of the
\* Widget is right, for any number of names, edits, failures and restarts.
THEOREM SettledStatusCorrectHolds == Spec => []SettledStatusCorrect
<1>1. StatusInv => SettledStatusCorrect
  <2> SUFFICES ASSUME StatusInv, Settled, ~staleBase, ~missed, widget # NoWidget
               PROVE  /\ widget.status.observed = widget.generation
                      /\ \A i \in Integrations : widget.status.conditions[i]
                                                    = Expected(i, widget, watch, object)
    BY DEF SettledStatusCorrect, StatusCorrect
  <2>1. widget = cached /\ SameVersion(cached, widget)
    BY DEF StatusInv, CacheCatchesUp, Settled, SameVersion
  <2>2. /\ widget.status.observed = widget.generation
        /\ \A i \in Integrations : widget.status.conditions[i]
                                      = Expected(i, widget, watch, objectCached)
    BY <2>1 DEF StatusInv, StatusCurrent, Settled, Undisturbed
  <2>3. ASSUME NEW i \in Integrations
        PROVE  Expected(i, widget, watch, objectCached) = Expected(i, widget, watch, object)
    BY DEF Settled, Expected
  <2> QED BY <2>2, <2>3
<1> QED BY <1>1, StatusInvariant, PTL

\* Each watcher's promise reaches the Widget: between a change of the answer and the
\* Widget's next question to that watcher, a requeue, its key or its Reconcile is on
\* its way, for any number of names and changes and whatever other Widgets do.
THEOREM PromisesReachWidgetHolds == Spec => PromisesReachWidget
<1>1. StatusInv /\ [Next]_vars =>
         [missed' \/ Restart \/ \A i \in Integrations : [Watch(i)!Next]_(Watch(i)!statusVars)]_vars
  BY PromiseNext DEF WatchKeeps
<1> QED BY <1>1, StatusInvariant, PTL DEF Spec, PromisesReachWidget

\* Requests are lost only when a List fails, when an Update's second call repeats one,
\* by a watch of the Widgets that is down for a while, and to the Widgets that share
\* a watcher: a crash, a patch whose response is lost, and any order of changes lose
\* none.
THEOREM NothingMissed ==
    ASSUME NothingLosesRequests
    PROVE  Spec => []~missed
<1>1. Init => StatusInv /\ EventsInOrder /\ ~missed
  <2>1. Init => EventsInOrder /\ ~missed
    BY DEF Init, EventsInOrder
  <2> QED BY <2>1, StatusInit
<1>2. StatusInv /\ EventsInOrder /\ ~missed /\ [Next]_vars
      => StatusInv' /\ EventsInOrder' /\ ~missed'
  BY InOrderNext, StatusStep
<1> QED BY <1>1, <1>2, PTL DEF Spec

\* So then a settled Widget's status is wrong only if the last Reconcile read one it
\* had itself replaced.
THEOREM SettledStatusCorrectWithoutLoss ==
    ASSUME NothingLosesRequests
    PROVE  Spec => [](Settled /\ ~staleBase => StatusCorrect)
<1>1. SettledStatusCorrect /\ ~missed => (Settled /\ ~staleBase => StatusCorrect)
  BY DEF SettledStatusCorrect
<1> QED BY <1>1, SettledStatusCorrectHolds, NothingMissed, PTL
=============================================================================
