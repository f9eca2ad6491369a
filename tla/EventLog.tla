------------------------------- MODULE EventLog -------------------------------
(***************************************************************************)
(* What the event inbox promises to the agents' hooks and to the worker    *)
(* that ingests their events: a queue.  An event that was written waits    *)
(* until it is stored, the one that waits longest is stored next, and each *)
(* is stored once.  An event of a newer release is sealed: this desktop    *)
(* cannot store it, and what was written after it waits behind it.  Files, *)
(* cursors, rotations, crashes and retries do not appear here; EventInbox  *)
(* is shown to implement this.                                             *)
(***************************************************************************)
EXTENDS Naturals, Sequences, SequencesExt

CONSTANT Events     \* the numbers of the events, in the order of their writing

VARIABLES
    written,    \* the events that were written completely
    pending,    \* those of them that wait
    sealed,     \* those of them that cannot be read
    stored      \* the events in the database, in the order of their storing

logVars == <<written, pending, sealed, stored>>

LogInit == written = {} /\ pending = {} /\ sealed = {} /\ stored = <<>>

WriteEvent(n) ==
    /\ \A m \in written : m < n
    /\ written' = written \cup {n}
    /\ pending' = pending \cup {n}
    /\ sealed' \in {sealed, sealed \cup {n}}
    /\ UNCHANGED stored

StoreEvent(n) ==
    /\ n \in pending \ sealed
    /\ \A m \in pending : n <= m
    /\ pending' = pending \ {n}
    /\ stored' = Append(stored, n)
    /\ UNCHANGED <<written, sealed>>

LogNext == \E n \in Events : WriteEvent(n) \/ StoreEvent(n)

LogSpec == LogInit /\ [][LogNext]_logVars

\* Nothing waits for ever, except a sealed event and what was written after it.
EveryEventStored ==
    \A n \in Events :
        n \in written ~> n \in ToSet(stored) \/ \E m \in sealed : m <= n

FairLogSpec == LogSpec /\ EveryEventStored
=============================================================================
