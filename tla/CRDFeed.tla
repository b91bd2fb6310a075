------------------------------ MODULE CRDFeed ------------------------------
(***************************************************************************)
(* The optional CRD as the API server holds it, and the stream of          *)
(* onCRDChange calls the shared CRD informer (CRDCache) makes for it.      *)
(*                                                                         *)
(* transformCRDForCache strips a CRD to its metadata and status, and the   *)
(* watcher reads two facts of what is left: whether it has a               *)
(* DeletionTimestamp and whether its Established condition is True.  The   *)
(* informer and TypedEnqueueRequestsFromMapFunc are controller-runtime:    *)
(* external, modelled by what the watcher depends on.                      *)
(***************************************************************************)
EXTENDS Naturals, Sequences

CONSTANTS
    NoCRD,      \* the CRD is not installed
    MaxChurn,   \* bound: changes, disconnections and resyncs of the CRD
    Faults      \* the failures this instance exercises

FaultKinds == {"lossyWatch", "listError", "startError", "removeError", "shutdown"}

\* What transformCRDForCache keeps of a CRD, as far as onCRDChange looks at it.
CRDObjects == [established : BOOLEAN, deleting : BOOLEAN]

ASSUME FeedAssumption ==
    /\ NoCRD \notin CRDObjects
    /\ MaxChurn \in Nat
    /\ Faults \subseteq FaultKinds

VARIABLES
    crd,        \* the CRD in the API server
    connected,  \* the informer's watch is established
    stored,     \* the CRD in the informer's store
    calls,      \* the onCRDChange calls still to be made, in order
    churn       \* changes used up

feedVars == <<crd, connected, stored, calls, churn>>

CRDRemovedOnlyWhenDeleting(c) == c.deleting

\* crdRemoved of onCRDChange, with isCRDEstablished: a CRD on its way out
\* counts as gone even while it is still served.
CRDRemoved(c) == c.deleting \/ ~c.established

Usable == crd # NoCRD /\ crd.established /\ ~crd.deleting

\* The API server answers a LIST of T.
Served == crd # NoCRD /\ crd.established

FeedInit ==
    /\ crd \in CRDObjects \cup {NoCRD}
    /\ connected = FALSE
    /\ stored = NoCRD
    /\ calls = <<>>
    /\ churn = 0

\* A call is one of a notification of its own, or the first or second of an Update.
Parts == {"only", "old", "new"}

Calls == [object : CRDObjects, part : Parts]

Call(c, p) == [object |-> c, part |-> p]

\* The onCRDChange calls one informer notification turns into: Add maps the new
\* object, Update maps the old and then the new one, Delete maps the last object
\* the store held.
CallsFor(old, new) ==
    IF old = NoCRD
    THEN IF new = NoCRD THEN <<>> ELSE <<Call(new, "only")>>
    ELSE IF new = NoCRD THEN <<Call(old, "only")>>
    ELSE <<Call(old, "old"), Call(new, "new")>>

\* A change of the CRD; a connected informer gets it as a watch event.
Change(new) ==
    /\ churn < MaxChurn
    /\ churn' = churn + 1
    /\ crd' = new
    /\ IF connected
       THEN /\ stored' = new
            /\ calls' = calls \o CallsFor(stored, new)
       ELSE UNCHANGED <<stored, calls>>
    /\ UNCHANGED connected

Install == crd = NoCRD /\ Change([established |-> FALSE, deleting |-> FALSE])

SetEstablished ==
    crd # NoCRD /\ Change([crd EXCEPT !.established = ~crd.established])

MarkDeleting ==
    crd # NoCRD /\ ~crd.deleting /\ Change([crd EXCEPT !.deleting = TRUE])

\* The finalizer is done: only a CRD marked for deletion disappears.
Finalize == crd # NoCRD /\ crd.deleting /\ Change(NoCRD)

\* LIST after connecting: the store becomes what the server holds, and the
\* difference is notified; a CRD that vanished meanwhile as a tombstone.
Relist ==
    /\ ~connected
    /\ connected' = TRUE
    /\ stored' = crd
    /\ calls' = calls \o CallsFor(stored, crd)
    /\ UNCHANGED <<crd, churn>>

Disconnect ==
    /\ "lossyWatch" \in Faults
    /\ connected
    /\ churn < MaxChurn
    /\ churn' = churn + 1
    /\ connected' = FALSE
    /\ UNCHANGED <<crd, stored, calls>>

\* The informer's periodic resync repeats an Update of what it already holds.
Resync ==
    /\ connected
    /\ stored # NoCRD
    /\ churn < MaxChurn
    /\ churn' = churn + 1
    /\ calls' = calls \o CallsFor(stored, stored)
    /\ UNCHANGED <<crd, connected, stored>>

FeedStep ==
    \/ Install
    \/ SetEstablished
    \/ MarkDeleting
    \/ Finalize
    \/ Disconnect
    \/ Resync

FeedTypeOK ==
    /\ crd \in CRDObjects \cup {NoCRD}
    /\ stored \in CRDObjects \cup {NoCRD}
    /\ connected \in BOOLEAN
    /\ calls \in Seq(Calls)
    /\ churn \in 0 .. MaxChurn
=============================================================================
