---------------------------- MODULE WatchStatus ----------------------------
(***************************************************************************)
(* What a watcher promises its parents: the reasons Status reports, which  *)
(* of them may follow each other, and who is reconciled because of it.     *)
(* Every change of the answer makes all parents due, and a parent stops    *)
(* being due only by being answered.  A request is lost only where listing *)
(* the parents fails, or after a reset by a parent that finds the cache    *)
(* gone; lost remembers it until the parent asks again.  That reset is the *)
(* one change of the answer nobody else is told of.                        *)
(***************************************************************************)
CONSTANTS
    Parents,    \* the parent objects
    ListsFail   \* whether listing them may fail

VARIABLES
    status,     \* the reason Status reports
    due,        \* parents that are to be reconciled
    reading,    \* parents told that the watch is active, before their read
    lost,       \* parents whose request was lost since they last asked
    invalidated \* some parent has found the cache gone

statusVars == <<status, due, reading, lost, invalidated>>

Reasons == {"NotStarted", "CRDNotFound", "Pending", "Syncing", "Ready"}

Init ==
    /\ status = "NotStarted"
    /\ due = {}
    /\ reading = {}
    /\ lost = {}
    /\ invalidated = FALSE

Becomes(from, to) == status \in from /\ status' \in to

TellsAll == due' = Parents /\ UNCHANGED <<reading, lost, invalidated>>
TellsNobody == UNCHANGED <<due, reading, lost, invalidated>>

\* The CRD may be found before Start has returned.
FoundEarly    == Becomes({"NotStarted"}, {"NotStarted"}) /\ TellsAll
Started       == Becomes({"NotStarted"}, {"CRDNotFound", "Pending"}) /\ TellsNobody
CRDFound      == Becomes({"CRDNotFound"}, {"Pending"}) /\ TellsAll
SyncSucceeded == Becomes({"Syncing"}, {"Ready"}) /\ TellsAll
SyncFailed    == Becomes({"Syncing"}, {"Pending"}) /\ TellsAll
ActiveLost    == Becomes({"Ready"}, {"CRDNotFound"}) /\ TellsAll
InactiveLost  == Becomes({"Pending", "Syncing"}, {"CRDNotFound"}) /\ TellsNobody

\* A parent becomes due for reasons of its own, or of an object of T.
Enqueued(p) ==
    due' = due \cup {p} /\ UNCHANGED <<status, reading, lost, invalidated>>

\* Requests for some parents are lost; they stay due if another one is on its way.
Dropped ==
    /\ ListsFail \/ invalidated
    /\ \E gone \in SUBSET due :
          /\ due' \in {due, due \ gone}
          /\ lost' = lost \cup gone
    /\ UNCHANGED <<status, reading, invalidated>>

\* A parent asks; it stays due if a request for all of them is on its way.
Asks(p) ==
    /\ p \in due
    /\ due' \in {due, due \ {p}}
    /\ lost' = lost \ {p}
    /\ UNCHANGED invalidated

ToldReady(p) ==
    /\ Asks(p)
    /\ Becomes({"Ready"}, {"Ready"})
    /\ reading' = reading \cup {p}

ToldUnavailable(p) ==
    /\ Asks(p)
    /\ \/ \E r \in {"CRDNotFound", "Pending", "Syncing"} : Becomes({r}, {r})
       \/ Becomes({"Pending"}, {"Syncing"})
    /\ UNCHANGED reading

ReadEnds(p) ==
    /\ p \in reading
    /\ reading' = reading \ {p}
    /\ UNCHANGED <<status, due, lost, invalidated>>

ReadInvalidated(p) ==
    /\ p \in reading
    /\ reading' = reading \ {p}
    /\ Becomes(Reasons \ {"NotStarted"}, {"CRDNotFound"})
    /\ invalidated' = TRUE
    /\ UNCHANGED <<due, lost>>

ParentStep(p) ==
    \/ Enqueued(p)
    \/ ToldReady(p)
    \/ ToldUnavailable(p)
    \/ ReadEnds(p)
    \/ ReadInvalidated(p)

Next ==
    \/ FoundEarly
    \/ Started
    \/ CRDFound
    \/ SyncSucceeded
    \/ SyncFailed
    \/ ActiveLost
    \/ InactiveLost
    \/ Dropped
    \/ \E p \in Parents : ParentStep(p)

Spec == Init /\ [][Next]_statusVars
=============================================================================
