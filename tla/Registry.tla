------------------------------ MODULE Registry ------------------------------
(***************************************************************************)
(* Setting up watchers: calls of RegisterOn on one Registry, each of which *)
(* looks the CRD name up, builds a watcher without holding the registry's  *)
(* mutex, stores it and attaches it to the controller; and the conditions  *)
(* the Registry reports for the watchers it holds, while they change and   *)
(* further calls arrive.                                                   *)
(*                                                                         *)
(* Definitions named ...Without... and ...Keeping... are altered code that *)
(* the properties are tried against; no specification uses them.           *)
(***************************************************************************)
EXTENDS Naturals, FiniteSets

CONSTANTS
    Calls,  \* calls of RegisterOn, each on a builder of its own
    CRDs,   \* CRD names: records of the plural and the group
    MaxMoves    \* bound: changes of the watchers' statuses

ASSUME RegistryAssumption ==
    /\ CRDs \subseteq [plural : STRING, group : STRING]
    /\ MaxMoves \in Nat

\* What a builder was given.  "wellFormed" and "typeKnown" stand for a CRD name
\* and an object type, "ownerKnown" for an owner type, that Build can use.
Options == {"wellFormed", "typeKnown", "handler", "owner", "ownerKnown",
            "requeueAll", "conditionType"}

VARIABLES
    crd,        \* the CRD of each call
    options,    \* what its builder was given
    pc,         \* where the call is
    managed,    \* calls whose private object cache the manager runs
    watchers,   \* the registry: for each name the call whose watcher it holds
    sources,    \* calls whose watcher is attached to a controller
    reason,     \* what Status says of the watcher of each call
    moves,      \* changes of these used up
    reporting,  \* a call of Conditions holds the read lock
    unreported, \* the watchers it has yet to ask
    report,     \* the conditions it has got, kept when it has returned them
    seen        \* history: the reasons each watcher has had since it began

callVars == <<crd, options, pc, managed, watchers, sources>>
statusVars == <<reason, moves, seen>>
reportVars == <<reporting, unreported, report>>
vars == <<callVars, statusVars, reportVars>>

\* Only the reason matters here: one parent that is always due, and never loses a
\* request or resets the watcher.
Watcher(c) ==
    INSTANCE WatchStatus WITH
        status <- reason[c], due <- {"parent"}, reading <- {}, lost <- {},
        invalidated <- "parent" \in {}, Parents <- {"parent"}, ListsFail <- FALSE

Reasons == {"NotStarted", "CRDNotFound", "Pending", "Syncing", "Ready"}

Unregistered == [c \in CRDs |-> {}]

ConditionTypes ==
    {<<name.plural>> : name \in CRDs} \cup {<<name.plural, name.group>> : name \in CRDs}

Conditions ==
    [watcher : Calls, type : ConditionTypes, available : BOOLEAN, reason : Reasons]

TypeOK ==
    /\ crd \in [Calls -> CRDs]
    /\ options \in [Calls -> SUBSET Options]
    /\ pc \in [Calls -> {"look", "build", "cache", "owner", "register", "attach",
                         "done", "failed"}]
    /\ managed \subseteq Calls
    /\ watchers \in [CRDs -> SUBSET Calls]
    /\ sources \subseteq Calls
    /\ reason \in [Calls -> Reasons]
    /\ moves \in 0 .. MaxMoves
    /\ reporting \in BOOLEAN
    /\ unreported \subseteq Calls
    /\ report \subseteq Conditions
    /\ seen \in [Calls -> SUBSET Reasons]

\* A builder lacks at most two of what it needs, or has what it should not.
Init ==
    /\ crd \in [Calls -> CRDs]
    /\ options \in [Calls -> {o \in SUBSET Options : Cardinality(Options \ o) <= 2}]
    /\ pc = [c \in Calls |-> "look"]
    /\ managed = {}
    /\ watchers = Unregistered
    /\ sources = {}
    /\ reason = [c \in Calls |-> "NotStarted"]
    /\ moves = 0
    /\ reporting = FALSE
    /\ unreported = {}
    /\ report = {}
    /\ seen = [c \in Calls |-> {}]

Goto(c, label) == pc' = [pc EXCEPT ![c] = label]

Registered(name) == watchers[name] # {}

\* reg.has: the answer may be out of date when register is called.
Has(c) ==
    /\ pc[c] = "look"
    /\ Goto(c, IF Registered(crd[c]) THEN "failed" ELSE "build")
    /\ UNCHANGED <<crd, options, managed, watchers, sources, statusVars, reportVars>>

\* The checks Build makes before it creates anything.
Valid(o) ==
    /\ {"wellFormed", "typeKnown", "requeueAll"} \subseteq o
    /\ ("handler" \in o) # ("owner" \in o)

Build(c) ==
    /\ pc[c] = "build"
    /\ Goto(c, IF Valid(options[c]) THEN "cache" ELSE "failed")
    /\ UNCHANGED <<crd, options, managed, watchers, sources, statusVars, reportVars>>

\* mgr.Add of the private cache; the registry's CRD cache is shared.
AddObjectCache(c) ==
    /\ pc[c] = "cache"
    /\ \/ managed' = managed \cup {c} /\ Goto(c, "owner")
       \/ managed' = managed /\ Goto(c, "failed")
    /\ UNCHANGED <<crd, options, watchers, sources, statusVars, reportVars>>

\* The owner type is looked up only now, with the cache already in the manager.
ResolveOwner(c) ==
    /\ pc[c] = "owner"
    /\ Goto(c, IF "owner" \in options[c] /\ "ownerKnown" \notin options[c]
               THEN "failed" ELSE "register")
    /\ UNCHANGED <<crd, options, managed, watchers, sources, statusVars, reportVars>>

RegisterWithoutCheck(c) ==
    /\ pc[c] = "register"
    /\ ~reporting
    /\ watchers' = [watchers EXCEPT ![crd[c]] = {c}]
    /\ Goto(c, "attach")
    /\ UNCHANGED <<crd, options, managed, sources, statusVars, reportVars>>

\* reg.register looks again, under the mutex, which Conditions keeps it waiting for.
Register(c) ==
    /\ pc[c] = "register"
    /\ ~reporting
    /\ IF Registered(crd[c])
       THEN Goto(c, "failed") /\ UNCHANGED watchers
       ELSE /\ watchers' = [watchers EXCEPT ![crd[c]] = {c}]
            /\ Goto(c, "attach")
    /\ UNCHANGED <<crd, options, managed, sources, statusVars, reportVars>>

\* ctrlBuilder.WatchesRawSource.
Attach(c) ==
    /\ pc[c] = "attach"
    /\ sources' = sources \cup {c}
    /\ Goto(c, "done")
    /\ UNCHANGED <<crd, options, managed, watchers, statusVars, reportVars>>

-----------------------------------------------------------------------------
(* What a Registry reports.                                                *)

\* conditionTypeFromCRDName looks at the plural alone; WithConditionType may give
\* any other type, here one made of the whole name.
ConditionType(c) ==
    IF "conditionType" \in options[c]
    THEN <<crd[c].plural, crd[c].group>>
    ELSE <<crd[c].plural>>

\* Condition of a watcher, from one Status.
Condition(c) ==
    [watcher |-> c, type |-> ConditionType(c),
     available |-> reason[c] = "Ready", reason |-> reason[c]]

Held == UNION {watchers[name] : name \in CRDs}

BeginReportKeepingList ==
    /\ ~reporting
    /\ reporting' = TRUE
    /\ unreported' = Held
    /\ seen' = [c \in Calls |-> {reason[c]}]
    /\ UNCHANGED <<callVars, reason, moves, report>>

\* Conditions takes the read lock and starts with an empty list.
BeginReport ==
    /\ ~reporting
    /\ reporting' = TRUE
    /\ unreported' = Held
    /\ report' = {}
    /\ seen' = [c \in Calls |-> {reason[c]}]
    /\ UNCHANGED <<callVars, reason, moves>>

\* It asks the watchers one after the other, in any order.
ReportOne(c) ==
    /\ reporting
    /\ c \in unreported
    /\ unreported' = unreported \ {c}
    /\ report' = report \cup {Condition(c)}
    /\ UNCHANGED <<callVars, statusVars, reporting>>

EndReport ==
    /\ reporting
    /\ unreported = {}
    /\ reporting' = FALSE
    /\ seen' = [c \in Calls |-> {}]
    /\ UNCHANGED <<callVars, reason, moves, unreported, report>>

\* A watcher the manager has started does not wait for any of this.
WatcherMoves(c) ==
    /\ c \in sources
    /\ moves < MaxMoves
    /\ moves' = moves + 1
    /\ \E r \in Reasons \ {reason[c]} :
          /\ reason' = [reason EXCEPT ![c] = r]
          /\ seen' = IF reporting THEN [seen EXCEPT ![c] = @ \cup {r}] ELSE seen
    /\ Watcher(c)!Next
    /\ UNCHANGED <<callVars, reportVars>>

-----------------------------------------------------------------------------
Step(c) ==
    \/ Has(c)
    \/ Build(c)
    \/ AddObjectCache(c)
    \/ ResolveOwner(c)
    \/ Register(c)
    \/ Attach(c)
    \/ ReportOne(c)
    \/ WatcherMoves(c)

Next ==
    \/ \E c \in Calls : Step(c)
    \/ BeginReport
    \/ EndReport

Spec == Init /\ [][Next]_vars

-----------------------------------------------------------------------------
(* Properties.                                                             *)

\* However calls for one CRD overlap between has and register, one of them at
\* most gets a watcher, and it is the one the registry holds: no two sources of a
\* controller follow the same CRD, with an informer each.
OneWatcherPerCRD ==
    \A c, d \in Calls :
        {c, d} \subseteq sources /\ crd[c] = crd[d] => c = d

\* When all calls have returned, the watchers the registry reports on are those
\* that are attached and so will be started, and each has its cache in the
\* manager: a Registry never reports NotStarted for ever.
HeldIsAttached ==
    (\A c \in Calls : pc[c] \in {"done", "failed"}) =>
        Held = sources /\ sources \subseteq managed

\* What Conditions returns has exactly one condition for each watcher registered by
\* then, each with a reason the watcher had during the call: none left out, none
\* twice, none from before.  The reasons of different watchers need not have held
\* at the same time.
ReportIsExact ==
    reporting /\ unreported = {} =>
        /\ {k.watcher : k \in report} = Held
        /\ \A j, k \in report : j.watcher = k.watcher => j = k
        /\ \A k \in report : k.reason \in seen[k.watcher]

\* Why: a watcher is in the registry from register on, under its own name only
\* and alone there.
RegistryInv ==
    /\ TypeOK
    /\ \A c \in Calls :
          /\ c \in watchers[crd[c]] <=> pc[c] \in {"attach", "done"}
          /\ c \in sources <=> pc[c] = "done"
          /\ pc[c] \in {"owner", "register", "attach", "done"} => c \in managed
    /\ \A name \in CRDs : \A c, d \in watchers[name] : crd[c] = name /\ c = d

\* And a call of Conditions divides the watchers into those it has asked and those
\* it has not, which no register can disturb.
ReportInv ==
    reporting =>
        /\ unreported \subseteq Held
        /\ {k.watcher : k \in report} = Held \ unreported
        /\ \A j, k \in report : j.watcher = k.watcher => j = k
        /\ \A k \in report : k.reason \in seen[k.watcher]
        /\ \A c \in Calls : reason[c] \in seen[c]

\* The comment on Conditions: the conditions are keyed by the condition type.
ConditionsAreKeyed ==
    \A c, d \in Held : ConditionType(c) = ConditionType(d) => c = d
=============================================================================
