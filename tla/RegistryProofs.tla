--------------------------- MODULE RegistryProofs ---------------------------
(***************************************************************************)
(* Proofs about a Registry, for any number of calls and CRDs.              *)
(***************************************************************************)
EXTENDS Registry, TLAPS

\* Types, and where a call may be found in the registry, are inductive.
LEMMA NextInv == RegistryInv /\ [Next]_vars => RegistryInv'
<1> SUFFICES ASSUME RegistryInv, [Next]_vars PROVE RegistryInv'
  OBVIOUS
<1> USE DEF RegistryInv, TypeOK, Goto, callVars, statusVars, reportVars
<1>1. ASSUME NEW c \in Calls, Has(c) \/ Build(c) \/ ResolveOwner(c)
      PROVE  RegistryInv'
  BY <1>1 DEF Has, Build, ResolveOwner
<1>2. ASSUME NEW c \in Calls, AddObjectCache(c)
      PROVE  RegistryInv'
  BY <1>2 DEF AddObjectCache
<1>3. ASSUME NEW c \in Calls, Register(c)
      PROVE  RegistryInv'
  <2>1. CASE Registered(crd[c])
    BY <1>3, <2>1 DEF Register
  <2>2. CASE ~Registered(crd[c])
    <3>1. watchers[crd[c]] = {} /\ crd[c] \in CRDs
      BY <2>2 DEF Registered
    <3>2. /\ watchers' = [watchers EXCEPT ![crd[c]] = {c}]
          /\ pc[c] = "register" /\ pc' = [pc EXCEPT ![c] = "attach"]
          /\ UNCHANGED <<crd, options, managed, sources, statusVars, reportVars>>
      BY <1>3, <2>2 DEF Register
    <3>3. TypeOK'
      BY <3>1, <3>2
    <3>4. ASSUME NEW d \in Calls
          PROVE  /\ d \in watchers'[crd'[d]] <=> pc'[d] \in {"attach", "done"}
                 /\ d \in sources' <=> pc'[d] = "done"
                 /\ pc'[d] \in {"owner", "register", "attach", "done"} => d \in managed'
      <4>1. CASE d = c
        BY <3>1, <3>2, <4>1
      <4>2. CASE d # c
        BY <3>1, <3>2, <4>2
      <4> QED BY <4>1, <4>2
    <3>5. ASSUME NEW name \in CRDs, NEW d \in watchers'[name], NEW e \in watchers'[name]
          PROVE  crd'[d] = name /\ d = e
      <4>1. CASE name = crd[c]
        BY <3>1, <3>2, <3>5, <4>1
      <4>2. CASE name # crd[c]
        BY <3>1, <3>2, <3>5, <4>2
      <4> QED BY <4>1, <4>2
    <3> QED BY <3>3, <3>4, <3>5
  <2> QED BY <2>1, <2>2
<1>4. ASSUME NEW c \in Calls, Attach(c)
      PROVE  RegistryInv'
  BY <1>4 DEF Attach
<1>5. ASSUME NEW c \in Calls, ReportOne(c)
      PROVE  RegistryInv'
  <2>1. Condition(c) \in Conditions
    BY DEF Condition, Conditions, ConditionType, ConditionTypes
  <2> QED BY <1>5, <2>1 DEF ReportOne
<1>6. ASSUME NEW c \in Calls, WatcherMoves(c)
      PROVE  RegistryInv'
  <2>1. PICK r \in Reasons :
           /\ reason' = [reason EXCEPT ![c] = r]
           /\ seen' = IF reporting THEN [seen EXCEPT ![c] = @ \cup {r}] ELSE seen
    BY <1>6 DEF WatcherMoves
  <2>2. moves < MaxMoves /\ moves' = moves + 1 /\ UNCHANGED <<callVars, reportVars>>
    BY <1>6 DEF WatcherMoves
  <2> QED BY <2>1, <2>2, RegistryAssumption
<1>7. CASE BeginReport
  <2>1. Held \subseteq Calls
    BY DEF Held
  <2> QED BY <1>7, <2>1 DEF BeginReport
<1>8. CASE EndReport
  BY <1>8 DEF EndReport
<1>9. CASE UNCHANGED vars
  BY <1>9 DEF vars
<1> QED
  BY <1>1, <1>2, <1>3, <1>4, <1>5, <1>6, <1>7, <1>8, <1>9 DEF Next, Step

\* The invariant holds in every state of every run.
THEOREM Invariant == Spec => []RegistryInv
<1>1. Init => RegistryInv
  <2> SUFFICES ASSUME Init PROVE RegistryInv
    OBVIOUS
  <2>1. moves \in 0 .. MaxMoves
    BY RegistryAssumption DEF Init
  <2>2. reason \in [Calls -> Reasons] /\ seen \in [Calls -> SUBSET Reasons]
    BY DEF Init, Reasons
  <2>3. TypeOK
    BY <2>1, <2>2 DEF Init, TypeOK, Unregistered
  <2> QED BY <2>3 DEF Init, RegistryInv, TypeOK, Unregistered
<1> QED
  BY <1>1, NextInv, PTL DEF Spec

\* Overlapping calls of RegisterOn for one CRD attach one watcher at most.
THEOREM OneWatcherPerCRDHolds == Spec => []OneWatcherPerCRD
<1>1. RegistryInv => OneWatcherPerCRD
  <2> SUFFICES ASSUME RegistryInv, NEW c \in Calls, NEW d \in Calls,
                      c \in sources, d \in sources, crd[c] = crd[d]
               PROVE  c = d
    BY DEF OneWatcherPerCRD
  <2>1. c \in watchers[crd[c]] /\ d \in watchers[crd[c]]
    BY DEF RegistryInv
  <2>2. crd[c] \in CRDs
    BY DEF RegistryInv, TypeOK
  <2> QED BY <2>1, <2>2 DEF RegistryInv
<1> QED
  BY <1>1, Invariant, PTL

\* Once every call has returned, the registry holds exactly the attached watchers.
THEOREM HeldIsAttachedHolds == Spec => []HeldIsAttached
<1>1. RegistryInv => HeldIsAttached
  <2> SUFFICES ASSUME RegistryInv, \A c \in Calls : pc[c] \in {"done", "failed"}
               PROVE  Held = sources /\ sources \subseteq managed
    BY DEF HeldIsAttached
  <2>1. ASSUME NEW c \in Held PROVE c \in sources
    <3>1. PICK name \in CRDs : c \in watchers[name]
      BY <2>1 DEF Held
    <3>2. c \in Calls /\ crd[c] = name
      BY <3>1 DEF RegistryInv, TypeOK
    <3> QED BY <3>1, <3>2 DEF RegistryInv
  <2>2. ASSUME NEW c \in sources PROVE c \in Held /\ c \in managed
    <3>1. c \in Calls /\ crd[c] \in CRDs
      BY DEF RegistryInv, TypeOK
    <3>2. c \in watchers[crd[c]] /\ c \in managed
      BY <3>1 DEF RegistryInv
    <3> QED BY <3>1, <3>2 DEF Held
  <2> QED BY <2>1, <2>2
<1> QED
  BY <1>1, Invariant, PTL

\* While a call of Conditions is at work no watcher is registered, so what it has and
\* has not asked stay the two halves of the registry.
LEMMA ReportNext == RegistryInv /\ ReportInv /\ [Next]_vars => ReportInv'
<1> SUFFICES ASSUME RegistryInv, ReportInv, [Next]_vars, reporting' PROVE ReportInv'
  BY DEF ReportInv
<1> USE DEF callVars, statusVars, reportVars
<1>0. TypeOK
  BY DEF RegistryInv
<1>1. CASE UNCHANGED <<watchers, statusVars, reportVars>>
  BY <1>1 DEF ReportInv, Held
<1>2. ASSUME NEW c \in Calls,
             Has(c) \/ Build(c) \/ AddObjectCache(c) \/ ResolveOwner(c) \/ Register(c)
             \/ Attach(c)
      PROVE  UNCHANGED <<watchers, statusVars, reportVars>>
  BY <1>2 DEF Has, Build, AddObjectCache, ResolveOwner, Register, Attach
<1>3. ASSUME NEW c \in Calls, ReportOne(c)
      PROVE  ReportInv'
  <2>1. /\ reporting /\ c \in unreported /\ unreported' = unreported \ {c}
        /\ report' = report \cup {Condition(c)}
        /\ UNCHANGED <<callVars, statusVars, reporting>>
    BY <1>3 DEF ReportOne
  <2>2. Condition(c).watcher = c /\ Condition(c).reason = reason[c]
    BY DEF Condition
  <2>3. /\ unreported \subseteq Held
        /\ {k.watcher : k \in report} = Held \ unreported
        /\ \A j, k \in report : j.watcher = k.watcher => j = k
        /\ \A k \in report : k.reason \in seen[k.watcher]
        /\ \A d \in Calls : reason[d] \in seen[d]
    BY <2>1 DEF ReportInv
  <2>4. Held' = Held
    BY <2>1 DEF Held
  <2>5. {k.watcher : k \in report'} = Held' \ unreported'
    BY <2>1, <2>2, <2>3, <2>4
  <2>6. ASSUME NEW j \in report', NEW k \in report', j.watcher = k.watcher
        PROVE  j = k
    <3>1. \A i \in report : i.watcher # c
      BY <2>1, <2>3
    <3> QED BY <2>1, <2>2, <2>3, <2>6, <3>1
  <2>7. \A k \in report' : k.reason \in seen'[k.watcher]
    BY <2>1, <2>2, <2>3
  <2> QED BY <2>1, <2>3, <2>4, <2>5, <2>6, <2>7 DEF ReportInv
<1>4. ASSUME NEW c \in Calls, WatcherMoves(c)
      PROVE  ReportInv'
  <2>1. PICK r \in Reasons :
           /\ reason' = [reason EXCEPT ![c] = r]
           /\ seen' = IF reporting THEN [seen EXCEPT ![c] = @ \cup {r}] ELSE seen
    BY <1>4 DEF WatcherMoves
  <2>2. UNCHANGED <<callVars, reportVars>>
    BY <1>4 DEF WatcherMoves
  <2>3. /\ seen' = [seen EXCEPT ![c] = @ \cup {r}]
        /\ reason \in [Calls -> Reasons] /\ seen \in [Calls -> SUBSET Reasons]
    BY <1>0, <2>1, <2>2 DEF TypeOK
  <2>4. \A d \in Calls : reason'[d] \in seen'[d] /\ seen[d] \subseteq seen'[d]
    BY <2>1, <2>2, <2>3 DEF ReportInv
  <2>5. \A k \in report : k.watcher \in Calls
    BY <1>0 DEF TypeOK, Conditions
  <2> QED BY <2>2, <2>4, <2>5 DEF ReportInv, Held
<1>5. CASE BeginReport
  BY <1>0, <1>5 DEF BeginReport, ReportInv, Held, TypeOK
<1>6. CASE EndReport
  BY <1>6 DEF EndReport
<1>7. CASE UNCHANGED vars
  BY <1>1, <1>7 DEF vars
<1> QED
  BY <1>1, <1>2, <1>3, <1>4, <1>5, <1>6, <1>7 DEF Next, Step

\* Conditions returns one condition, with a reason held during the call, for every
\* watcher registered, however calls of RegisterOn and status changes interleave.
THEOREM ReportIsExactHolds == Spec => []ReportIsExact
<1>1. Init => ReportInv
  BY DEF Init, ReportInv
<1>2. ReportInv => ReportIsExact
  BY DEF ReportInv, ReportIsExact
<1> QED
  BY <1>1, <1>2, ReportNext, Invariant, PTL DEF Spec

\* Of two CRDs with one plural, each watcher was given a condition type of its own.
PluralsTold ==
    \A c, d \in Held :
        crd[c] # crd[d] /\ crd[c].plural = crd[d].plural => "conditionType" \in options[c]

\* The conditions are keyed by their type, as the comment on Conditions has it, if
\* WithConditionType is used for all watchers whose CRDs share a plural.
THEOREM ConditionsAreKeyedWithOwnTypes ==
    Spec /\ []PluralsTold => []ConditionsAreKeyed
<1>1. RegistryInv /\ PluralsTold => ConditionsAreKeyed
  <2> SUFFICES ASSUME RegistryInv, PluralsTold, NEW c \in Held, NEW d \in Held,
                      ConditionType(c) = ConditionType(d)
               PROVE  c = d
    BY DEF ConditionsAreKeyed
  <2>1. /\ c \in Calls /\ crd[c] \in CRDs /\ c \in watchers[crd[c]]
        /\ d \in Calls /\ crd[d] \in CRDs /\ d \in watchers[crd[d]]
    BY DEF Held, RegistryInv, TypeOK
  <2>2. crd[c].plural = crd[d].plural
    BY DEF ConditionType
  <2>3. CASE crd[c] = crd[d]
    BY <2>1, <2>3 DEF RegistryInv
  <2>4. CASE crd[c] # crd[d]
    <3>1. "conditionType" \in options[c] /\ "conditionType" \in options[d]
      BY <2>2, <2>4 DEF PluralsTold
    <3>2. crd[c].group = crd[d].group
      BY <3>1 DEF ConditionType
    <3> QED BY <2>1, <2>2, <2>4, <3>2, RegistryAssumption
  <2> QED BY <2>3, <2>4
<1> QED
  BY <1>1, Invariant, PTL
=============================================================================
