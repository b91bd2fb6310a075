-------------------------- MODULE WidgetController --------------------------
(***************************************************************************)
(* The widget controller over its watchers: one Widget, the controller's   *)
(* cache of it, the optional objects it may refer to, and Reconcile, which *)
(* reads them and patches the status.                                      *)
(*                                                                         *)
(* Definitions named ...Without..., Drop... and ...Unchecked are altered   *)
(* code that the properties are tried against; no specification uses them. *)
(*                                                                         *)
(* Of a watcher only what Status says and its private cache are here, with *)
(* the steps WatchStatus, which Watcher implements, allows it: that they   *)
(* are such steps is PromisesReachWidget.  Widgets influence each other    *)
(* only through the watchers, so one is modelled and the others are        *)
(* OtherWidgets.                                                           *)
(***************************************************************************)
EXTENDS Naturals, Sequences

CONSTANTS
    Integrations,   \* the optional CRDs in use
    Names,          \* of the objects a Widget may refer to
    NoName,         \* the empty reference
    Settings,       \* what such an object may contain
    NoObject,       \* there is no object of that name
    NoWidget,       \* the Widget does not exist
    OtherWidgets,   \* whether other Widgets are reconciled too
    Faults,         \* what may go wrong
    MaxChanges      \* bound: edits, object and CRD changes, and failures

FaultKinds == {
    "listError",    \* the List in a mapping function fails
    "lostResponse", \* a patch is applied but its response is lost
    "outage",       \* the watch of the Widgets is lost for a while
    "restart",      \* the manager process crashes
    "sharedRequest"} \* a watcher's Update does not add a request a second time

ASSUME WidgetAssumption ==
    /\ Integrations \subseteq {"plugin", "theme"}
    /\ NoName \notin Names \cup Settings
    /\ NoObject \notin Settings \cup Names \cup {NoName}
    /\ OtherWidgets \in BOOLEAN
    /\ Faults \subseteq FaultKinds
    /\ MaxChanges \in Nat

VARIABLES
    watch,          \* Status of the watcher, per integration
    toRequeue,      \* the watcher has yet to queue the widgets referring to it
    object,         \* the objects that may be referred to, in the API server
    objectCached,   \* and in the watcher's private cache
    widget,         \* the Widget in the API server
    events,         \* its versions the controller's cache has yet to receive
    cached,         \* the controller's cache of it
    queued,         \* its key is in the work queue
    pc,             \* Reconcile: the part under way
    ensured,        \* TryGet of that part has called Ensure
    copy,           \* the Widget as Reconcile read it
    conditions,     \* the conditions it computes
    failed,         \* pluginErr or themeErr
    staleBase,      \* history: the last Reconcile read a status since patched
    missed,         \* history: no Reconcile since a change nobody was told of
    changes         \* changes used up

apiVars == <<object, widget, events, changes>>
watchVars == <<watch, toRequeue, objectCached>>
localVars == <<pc, ensured, copy, conditions, failed>>
history == <<staleBase, missed>>
vars == <<apiVars, watchVars, cached, queued, localVars, history>>

\* A condition: its reason, what its message is about (the name not found or the
\* setting applied), and its observedGeneration.
Conditions ==
    [reason : {"absent", "CRDNotAvailable", "NotFound", "Applied"},
     about : Names \cup Settings \cup {NoName},
     generation : Nat]

Absent == [reason |-> "absent", about |-> NoName, generation |-> 0]

StatusType == [observed : Nat, conditions : [Integrations -> Conditions]]

WidgetType ==
    [uid : Nat, generation : Nat, refs : [Integrations -> Names \cup {NoName}],
     status : StatusType]

Objects == [Integrations -> [Names -> Settings \cup {NoObject}]]

TypeOK ==
    /\ watch \in [Integrations -> {"CRDNotFound", "Pending", "Syncing", "Ready"}]
    /\ toRequeue \in [Integrations -> BOOLEAN]
    /\ object \in Objects
    /\ objectCached \in Objects
    /\ widget \in WidgetType \cup {NoWidget}
    /\ events \in Seq(WidgetType \cup {NoWidget})
    /\ cached \in WidgetType \cup {NoWidget}
    /\ queued \in BOOLEAN
    /\ pc \in {"idle", "patch"} \cup Integrations
    /\ ensured \in BOOLEAN
    /\ copy \in WidgetType \cup {NoWidget}
    /\ conditions \in [Integrations -> Conditions]
    /\ failed \in BOOLEAN
    /\ staleBase \in BOOLEAN
    /\ missed \in BOOLEAN
    /\ changes \in 0 .. MaxChanges

NoConditions == [i \in Integrations |-> Absent]

NoObjects == [n \in Names |-> NoObject]

Created(id, refs) ==
    [uid |-> id, generation |-> 1, refs |-> refs,
     status |-> [observed |-> 0, conditions |-> NoConditions]]

\* A fresh Widget, in the controller's cache and queued by its Create event; there
\* are no objects of a CRD that is not installed.
Init ==
    /\ watch \in [Integrations -> {"CRDNotFound", "Pending"}]
    /\ toRequeue = [i \in Integrations |-> FALSE]
    /\ object \in Objects
    /\ \A i \in Integrations : watch[i] = "CRDNotFound" => object[i] = NoObjects
    /\ objectCached = [i \in Integrations |-> NoObjects]
    /\ \E refs \in [Integrations -> Names \cup {NoName}] : widget = Created(0, refs)
    /\ events = <<>>
    /\ cached = widget
    /\ queued = TRUE
    /\ pc = "idle"
    /\ ensured = FALSE
    /\ copy = NoWidget
    /\ conditions = NoConditions
    /\ failed = FALSE
    /\ staleBase = FALSE
    /\ missed = FALSE
    /\ changes = 0

CountChange == changes < MaxChanges /\ changes' = changes + 1

-----------------------------------------------------------------------------
(* The Widget and the controller's cache of it.                            *)

Writes(new) == widget' = new /\ events' = Append(events, new)

EditRefs ==
    /\ CountChange
    /\ widget # NoWidget
    /\ \E refs \in [Integrations -> Names \cup {NoName}] \ {widget.refs} :
          Writes([widget EXCEPT !.refs = refs, !.generation = @ + 1])
    /\ UNCHANGED <<object, watchVars, cached, queued, localVars, history>>

DeleteWidget ==
    /\ CountChange
    /\ widget # NoWidget
    /\ Writes(NoWidget)
    /\ UNCHANGED <<object, watchVars, cached, queued, localVars, history>>

\* Every change has been counted, so the count gives a uid not used before.
CreateWidget ==
    /\ CountChange
    /\ widget = NoWidget
    /\ \E refs \in [Integrations -> Names \cup {NoName}] :
          Writes(Created(changes + 1, refs))
    /\ UNCHANGED <<object, watchVars, cached, queued, localVars, history>>

\* After an outage the list brings the present version alone.
Outage ==
    /\ "outage" \in Faults
    /\ Len(events) > 1
    /\ events' = IF widget = cached THEN <<>> ELSE <<widget>>
    /\ UNCHANGED <<object, widget, changes, watchVars, cached, queued, localVars,
                   history>>

OnlyCreatedOrDeleted(old, new) == NoWidget \in {old, new}

\* GenerationChangedPredicate: an Update passes when the generation differs, a
\* Create or a Delete always does.
GenerationChanged(old, new) ==
    NoWidget \in {old, new} \/ old.generation # new.generation

\* After an outage another Widget may take the place of one with its generation.
HiddenReplacement(old, new) ==
    NoWidget \notin {old, new} /\ old.uid # new.uid /\ old.generation = new.generation

WidgetEvent ==
    /\ events # <<>>
    /\ cached' = Head(events)
    /\ events' = Tail(events)
    /\ queued' = (queued \/ GenerationChanged(cached, Head(events)))
    /\ missed' = (missed \/ HiddenReplacement(cached, Head(events)))
    /\ UNCHANGED <<object, widget, changes, watchVars, localVars, staleBase>>

-----------------------------------------------------------------------------
(* The watchers.                                                           *)

\* What the reference index has of the Widget in the controller's cache: its name,
\* or nothing for an empty reference.
IndexedNames(i) == IF cached = NoWidget THEN {} ELSE {cached.refs[i]} \ {NoName}

\* The index on having a reference at all.
HasReference(i) == IndexedNames(i) # {}

CRDAppears(i) ==
    /\ CountChange
    /\ watch[i] = "CRDNotFound"
    /\ watch' = [watch EXCEPT ![i] = "Pending"]
    /\ toRequeue' = [toRequeue EXCEPT ![i] = TRUE]
    /\ UNCHANGED <<object, widget, events, objectCached, cached, queued,
                   localVars, history>>

\* onCRDChange queues the widgets only if the watch was active.
CRDDisappears(i) ==
    /\ CountChange
    /\ watch[i] # "CRDNotFound"
    /\ watch' = [watch EXCEPT ![i] = "CRDNotFound"]
    /\ toRequeue' = [toRequeue EXCEPT ![i] = @ \/ watch[i] = "Ready"]
    /\ UNCHANGED <<object, widget, events, objectCached, cached, queued,
                   localVars, history>>

SyncSucceeds(i) ==
    /\ watch[i] = "Syncing"
    /\ watch' = [watch EXCEPT ![i] = "Ready"]
    /\ objectCached' = [objectCached EXCEPT ![i] = object[i]]
    /\ toRequeue' = [toRequeue EXCEPT ![i] = TRUE]
    /\ UNCHANGED <<apiVars, cached, queued, localVars, history>>

SyncFails(i) ==
    /\ watch[i] = "Syncing"
    /\ watch' = [watch EXCEPT ![i] = "Pending"]
    /\ toRequeue' = [toRequeue EXCEPT ![i] = TRUE]
    /\ UNCHANGED <<apiVars, objectCached, cached, queued, localVars, history>>

\* allWidgetsWithPluginRef and allWidgetsWithThemeRef.
RequeueWidgets(i) ==
    /\ toRequeue[i]
    /\ toRequeue' = [toRequeue EXCEPT ![i] = FALSE]
    /\ queued' = (queued \/ HasReference(i))
    /\ UNCHANGED <<apiVars, watch, objectCached, cached, localVars, history>>

\* Nothing is queued: their List fails, which is logged, or it is the second call of
\* an Update whose first has added the request already (HandlerRequeues in Watcher).
RequeueFails(i) ==
    /\ "listError" \in Faults \/ "sharedRequest" \in Faults
    /\ CountChange
    /\ toRequeue[i]
    /\ toRequeue' = [toRequeue EXCEPT ![i] = FALSE]
    /\ missed' = (missed \/ HasReference(i))
    /\ UNCHANGED <<object, widget, events, watch, objectCached, cached, queued,
                   localVars, staleBase>>

ObjectChanges(i) ==
    /\ CountChange
    /\ \E n \in Names : \E o \in (Settings \cup {NoObject}) \ {object[i][n]} :
          object' = [object EXCEPT ![i][n] = o]
    /\ UNCHANGED <<widget, events, watchVars, cached, queued, localVars, history>>

DropObjectEvent(i, n) == queued' = queued /\ UNCHANGED <<changes, missed>>

\* pluginConfigToWidgets and themeToWidgets: the widgets that refer to the name are
\* queued, unless the List fails.
QueueReferring(i, n) ==
    \/ /\ queued' = (queued \/ n \in IndexedNames(i))
       /\ UNCHANGED <<changes, missed>>
    \/ /\ "listError" \in Faults
       /\ CountChange
       /\ missed' = (missed \/ n \in IndexedNames(i))
       /\ UNCHANGED queued

ObjectEvent(i) ==
    /\ watch[i] = "Ready"
    /\ \E n \in Names :
          /\ objectCached[i][n] # object[i][n]
          /\ objectCached' = [objectCached EXCEPT ![i][n] = object[i][n]]
          /\ QueueReferring(i, n)
    /\ UNCHANGED <<object, widget, events, watch, toRequeue, cached, localVars,
                   staleBase>>

-----------------------------------------------------------------------------
(* Reconcile.                                                              *)

Wanted(w) == {i \in Integrations : w.refs[i] # NoName}

\* The plugin comes first.  A part without a reference only removes its condition,
\* which BeginReconcile does for it: nobody sees the difference.
NextPart(todo) ==
    IF "plugin" \in todo THEN "plugin" ELSE IF "theme" \in todo THEN "theme" ELSE "patch"

\* The cached Widget lacks a patch of its status.
CacheLacksPatch ==
    /\ NoWidget \notin {cached, widget}
    /\ cached.uid = widget.uid
    /\ cached.status # widget.status

\* Get of the Widget from the controller's cache; a Widget that is gone is no error.
BeginReconcile ==
    /\ pc = "idle"
    /\ queued
    /\ queued' = FALSE
    /\ missed' = FALSE
    /\ staleBase' = CacheLacksPatch
    /\ IF cached = NoWidget
       THEN UNCHANGED localVars
       ELSE /\ pc' = NextPart(Wanted(cached))
            /\ copy' = cached
            /\ conditions' = [i \in Integrations |->
                  IF i \in Wanted(cached) THEN cached.status.conditions[i] ELSE Absent]
            /\ UNCHANGED <<failed, ensured>>
    /\ UNCHANGED <<apiVars, watchVars, cached>>

\* Get returns any other error: the key is queued again.
GetFails ==
    /\ CountChange
    /\ pc = "idle"
    /\ queued
    /\ UNCHANGED <<object, widget, events, watchVars, cached, queued, localVars,
                   history>>

\* tryGetPlugin and tryGetTheme call Ensure first, and then read.
CallsEnsure(i) == pc = i /\ ~ensured
CallsGet(i) == pc = i /\ ensured

Finish(i) == pc' = NextPart(Wanted(copy) \ {"plugin", i}) /\ ensured' = FALSE

\* The Mark... methods.
Mark(i, reason, about) ==
    conditions' = [conditions EXCEPT ![i] =
        [reason |-> reason, about |-> about, generation |-> copy.generation]]

MarkCRDNotAvailable(i) == Mark(i, "CRDNotAvailable", NoName)

\* Ensure starts the watch of a CRD that is there, with an empty cache.
Register(i) ==
    /\ watch[i] = "Pending"
    /\ watch' = [watch EXCEPT ![i] = "Syncing"]
    /\ objectCached' = [objectCached EXCEPT ![i] = NoObjects]

\* TryGet, when Ensure says the watch is active: the cache is read next.
WatchActive(i) ==
    /\ CallsEnsure(i)
    /\ watch[i] = "Ready"
    /\ ensured' = TRUE
    /\ UNCHANGED <<apiVars, watchVars, cached, queued, pc, copy, conditions,
                   failed, history>>

\* TryGet, when it is not.
WatchInactive(i) ==
    /\ CallsEnsure(i)
    /\ watch[i] # "Ready"
    /\ Register(i) \/ (watch[i] # "Pending" /\ UNCHANGED <<watch, objectCached>>)
    /\ MarkCRDNotAvailable(i)
    /\ Finish(i)
    /\ UNCHANGED <<apiVars, toRequeue, cached, queued, copy, failed, history>>

ReadObjectWithoutNotFound(i) ==
    /\ CallsGet(i)
    /\ Mark(i, "Applied", objectCached[i][copy.refs[i]])
    /\ Finish(i)
    /\ UNCHANGED <<apiVars, watchVars, cached, queued, copy, failed, history>>

\* The cache read of TryGet.
ReadObject(i) ==
    /\ CallsGet(i)
    /\ LET found == objectCached[i][copy.refs[i]] IN
          IF found = NoObject
          THEN Mark(i, "NotFound", copy.refs[i])
          ELSE Mark(i, "Applied", found)
    /\ Finish(i)
    /\ UNCHANGED <<apiVars, watchVars, cached, queued, copy, failed, history>>

\* A read found the informer removed: the watcher is reset, whatever became of it
\* since, and nobody is queued.
Reset(i) == watch' = [watch EXCEPT ![i] = "CRDNotFound"]

ReadInvalidated(i) ==
    /\ CallsGet(i)
    /\ Reset(i)
    /\ MarkCRDNotAvailable(i)
    /\ Finish(i)
    /\ UNCHANGED <<apiVars, toRequeue, objectCached, cached, queued, copy,
                   failed, history>>

\* Any other error of the read; the other integration is still reconciled.
ReadFails(i) ==
    /\ CountChange
    /\ CallsGet(i)
    /\ failed' = TRUE
    /\ Finish(i)
    /\ UNCHANGED <<object, widget, events, watchVars, cached, queued, copy,
                   conditions, history>>

\* The Reconcile of another Widget starts the watch,
OtherRegisters(i) ==
    /\ OtherWidgets
    /\ Register(i)
    /\ UNCHANGED <<apiVars, toRequeue, cached, queued, localVars, history>>

\* or resets it.
OtherResets(i) ==
    /\ OtherWidgets
    /\ CountChange
    /\ watch[i] # "CRDNotFound"
    /\ Reset(i)
    /\ missed' = (missed \/ (watch[i] = "Ready" /\ HasReference(i)))
    /\ UNCHANGED <<object, widget, events, toRequeue, objectCached, cached, queued,
                   localVars, staleBase>>

Computed == [observed |-> copy.generation, conditions |-> conditions]

\* client.MergeFrom(copy): a JSON merge patch holds the fields that differ from
\* the copy, the list of conditions as one field.
MergePatch(now) ==
    [observed |-> IF Computed.observed # copy.status.observed
                  THEN Computed.observed ELSE now.observed,
     conditions |-> IF Computed.conditions # copy.status.conditions
                    THEN Computed.conditions ELSE now.conditions]

EndReconcile ==
    /\ pc' = "idle"
    /\ copy' = NoWidget
    /\ conditions' = NoConditions
    /\ failed' = FALSE
    /\ UNCHANGED <<object, watchVars, cached, ensured, history>>

PatchDue == pc = "patch" /\ ~failed /\ Computed # copy.status

\* A returned error queues the key again.
ReturnError ==
    /\ pc = "patch"
    /\ failed \/ (PatchDue /\ widget = NoWidget)
    /\ queued' = TRUE
    /\ EndReconcile
    /\ UNCHANGED <<widget, events, changes>>

PatchFails ==
    /\ CountChange
    /\ PatchDue
    /\ queued' = TRUE
    /\ EndReconcile
    /\ UNCHANGED <<widget, events>>

\* The status is what the copy already had: no patch.
NothingToPatch ==
    /\ pc = "patch" /\ ~failed /\ Computed = copy.status
    /\ EndReconcile
    /\ UNCHANGED <<widget, events, changes, queued>>

PatchApplied ==
    /\ PatchDue /\ widget # NoWidget
    /\ LET new == [widget EXCEPT !.status = MergePatch(@)] IN
          IF new = widget THEN UNCHANGED <<widget, events>> ELSE Writes(new)
    /\ EndReconcile

PatchStatus == PatchApplied /\ UNCHANGED <<changes, queued>>

PatchResponseLost ==
    /\ "lostResponse" \in Faults
    /\ CountChange
    /\ PatchApplied
    /\ queued' = TRUE

-----------------------------------------------------------------------------
(* A new manager process: everything in memory is gone and the caches list *)
(* anew.                                                                   *)

NobodyQueued == FALSE

\* The initial list makes a Create event of a Widget that is there.
QueuedAtStart == widget # NoWidget

Restart ==
    /\ "restart" \in Faults
    /\ CountChange
    /\ watch' \in [Integrations -> {"CRDNotFound", "Pending"}]
    /\ toRequeue' = [i \in Integrations |-> FALSE]
    /\ objectCached' = [i \in Integrations |-> NoObjects]
    /\ cached' = widget
    /\ events' = <<>>
    /\ queued' = QueuedAtStart
    /\ pc' = "idle"
    /\ ensured' = FALSE
    /\ copy' = NoWidget
    /\ conditions' = NoConditions
    /\ failed' = FALSE
    /\ UNCHANGED <<object, widget, history>>

-----------------------------------------------------------------------------
WatchStep(i) ==
    \/ CRDAppears(i)
    \/ CRDDisappears(i)
    \/ SyncSucceeds(i)
    \/ SyncFails(i)
    \/ RequeueWidgets(i)
    \/ RequeueFails(i)
    \/ ObjectChanges(i)
    \/ ObjectEvent(i)
    \/ OtherRegisters(i)
    \/ OtherResets(i)

PartOfReconcile(i) ==
    \/ WatchActive(i)
    \/ WatchInactive(i)
    \/ ReadObject(i)
    \/ ReadInvalidated(i)
    \/ ReadFails(i)

ReconcileStep ==
    \/ BeginReconcile
    \/ GetFails
    \/ \E i \in Integrations : PartOfReconcile(i)
    \/ ReturnError
    \/ PatchFails
    \/ NothingToPatch
    \/ PatchStatus
    \/ PatchResponseLost

Next ==
    \/ EditRefs
    \/ DeleteWidget
    \/ CreateWidget
    \/ Outage
    \/ WidgetEvent
    \/ \E i \in Integrations : WatchStep(i)
    \/ ReconcileStep
    \/ Restart

Spec == Init /\ [][Next]_vars

\* Events arrive, the worker works, and a sync ends; nothing else is owed.
Fairness ==
    /\ WF_vars(WidgetEvent)
    /\ WF_vars(ReconcileStep)
    /\ \A i \in Integrations :
          /\ WF_vars(SyncSucceeds(i) \/ SyncFails(i))
          /\ WF_vars(RequeueWidgets(i))
          /\ WF_vars(ObjectEvent(i))

FairSpec == Spec /\ Fairness

-----------------------------------------------------------------------------
(* Properties.                                                             *)

\* Everything that happened has been delivered and worked off.
Settled ==
    /\ events = <<>> /\ ~queued /\ pc = "idle"
    /\ \A i \in Integrations :
          ~toRequeue[i] /\ (watch[i] = "Ready" => objectCached[i] = object[i])

\* What the condition of an integration should say of a Widget, with the watchers
\* and the objects as given.
Expected(i, w, statuses, objects) ==
    LET name == w.refs[i]
        Says(reason, about) ==
            [reason |-> reason, about |-> about, generation |-> w.generation]
    IN  IF name = NoName THEN Absent
        ELSE IF statuses[i] # "Ready" THEN Says("CRDNotAvailable", NoName)
        ELSE IF objects[i][name] = NoObject THEN Says("NotFound", name)
        ELSE Says("Applied", objects[i][name])

StatusCorrect ==
    widget # NoWidget =>
        /\ widget.status.observed = widget.generation
        /\ \A i \in Integrations :
              widget.status.conditions[i] = Expected(i, widget, watch, object)

\* Once everything is delivered and worked off, the status says what the CRDs,
\* the objects and the references are: neither an index that lags behind an edit
\* of the references, nor a watch lost while Reconcile is half way, nor a crash
\* between a patch and its event leaves a Widget behind.  Two exceptions: the last
\* Reconcile read a status it had itself replaced, or a request was lost.
SettledStatusCorrect == Settled /\ ~staleBase /\ ~missed => StatusCorrect

\* Reconcile is through with this part.
Done(i) == i \notin Wanted(copy) \/ pc = "patch" \/ (pc = "theme" /\ i = "plugin")

\* The Widget has yet to ask the watcher, or it has nothing to ask.
WillAsk(i) ==
    \/ toRequeue[i]
    \/ queued
    \/ ~HasReference(i)
    \/ pc # "idle" /\ ~Done(i) /\ ~CallsGet(i)

\* To its watcher the Widget is one parent, all others are another.  Readers may have
\* reset the watcher before; with lost empty no request gets lost.
Watch(i) ==
    INSTANCE WatchStatus WITH
        status <- watch[i],
        due <- IF WillAsk(i) THEN {"widget", "others"} ELSE {"others"},
        reading <- IF CallsGet(i) THEN {"widget"} ELSE {},
        lost <- {},
        invalidated <- TRUE,
        Parents <- {"widget", "others"},
        ListsFail <- FALSE

\* The watchers do what WatchStatus promises, and the controller carries it to the
\* Widget: after a change of the answer the Widget is due until it has asked, though
\* the index that finds it is of an older version and its key is taken off the queue
\* before it asks.  Unless a request is lost, or the process restarts.
PromisesReachWidget ==
    [][missed' \/ Restart \/ \A i \in Integrations : [Watch(i)!Next]_(Watch(i)!statusVars)]_vars

\* When the cluster stays as it is, the status becomes right and remains so,
\* whatever failed or crashed before, with the same exceptions.
StatusConverges == <>[](StatusCorrect \/ staleBase \/ missed)

-----------------------------------------------------------------------------
(* Why SettledStatusCorrect holds.                                         *)

Versions == {widget, cached, copy} \cup {events[k] : k \in DOMAIN events}

SameVersion(v, w) == v.uid = w.uid /\ v.generation = w.generation

\* The references of a version of the Widget are known by uid and generation, and
\* none is newer than the Widget itself.
VersionsOrdered ==
    \A v \in Versions \ {NoWidget} :
        /\ v.uid <= changes
        /\ widget # NoWidget /\ v.uid = widget.uid => v.generation <= widget.generation
        /\ \A w \in Versions \ {NoWidget} : SameVersion(v, w) => v.refs = w.refs

\* The events lead to what the API server holds.
CacheCatchesUp == widget = IF events = <<>> THEN cached ELSE events[Len(events)]

\* Only the patch at its end changes the status a Reconcile has read.
BaseCurrent ==
    pc # "idle" /\ ~staleBase /\ widget # NoWidget /\ copy.uid = widget.uid =>
        copy.status = widget.status

\* Where Reconcile is, and what it has then.
LocalState ==
    /\ pc = "idle" <=> copy = NoWidget
    /\ pc = "idle" => ~failed
    /\ pc \in Integrations => pc \in Wanted(copy)
    /\ ensured => pc \in Integrations

\* A requeue of the watcher will find a Widget that has the reference.
Undisturbed(i, w) == w.refs[i] = NoName \/ ~toRequeue[i]

\* During a Reconcile that is not to be repeated the Widget has no new version, what
\* has been computed still holds, and a watch found active is active, each unless
\* the watcher has yet to queue its widgets.
ReconcileCurrent ==
    pc # "idle" /\ ~queued /\ ~missed =>
        /\ cached # NoWidget /\ SameVersion(cached, copy)
        /\ \A i \in Integrations : Undisturbed(i, copy) =>
              /\ Done(i) /\ ~failed =>
                    conditions[i] = Expected(i, copy, watch, objectCached)
              /\ pc = i /\ ensured => watch[i] = "Ready"

\* After it the status of the version in the cache is right, on the same condition.
StatusCurrent ==
    /\ pc = "idle" /\ ~queued /\ ~missed /\ ~staleBase
    /\ NoWidget \notin {cached, widget} /\ SameVersion(cached, widget)
    => /\ widget.status.observed = widget.generation
       /\ \A i \in Integrations : Undisturbed(i, widget) =>
             widget.status.conditions[i] = Expected(i, widget, watch, objectCached)

\* The invariant the proof of SettledStatusCorrect rests on.
StatusInv ==
    /\ TypeOK
    /\ VersionsOrdered
    /\ CacheCatchesUp
    /\ LocalState
    /\ BaseCurrent
    /\ ReconcileCurrent
    /\ StatusCurrent

-----------------------------------------------------------------------------
(* What the documents say and the code does not do.                        *)

\* README.md, How it works: a condition tells whether the CRD is there; the test
\* "should clear condition when pluginRef is removed from Widget": it is gone with
\* the reference.  So for a settled Widget, whatever status its last Reconcile
\* started from.
SettledStatusAlwaysCorrect == Settled /\ ~missed => StatusCorrect
=============================================================================
