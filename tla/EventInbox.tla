------------------------------ MODULE EventInbox ------------------------------
(***************************************************************************)
(* The desktop's durable event inbox: short-lived hook helpers append      *)
(* lines to one file under a file lock; the source thread of the desktop   *)
(* reads them one at a time, hands each to the worker and moves its cursor *)
(* when the worker has stored the event and the cursor in one transaction. *)
(* At the end of the file the source may rotate the segment: journal,      *)
(* rename, create, journal again, checkpoint the new cursor, erase the old *)
(* segment, remove the journal.  The desktop may die between any two of    *)
(* these steps, and any of them may fail; the next round resumes from the  *)
(* journal.  A helper may die in the middle of a line, and a helper of a   *)
(* newer release may write lines this desktop cannot read: the source      *)
(* stops in front of the first of them and waits.                          *)
(*                                                                         *)
(* A position in the file counts lines.  The identity of a file (device    *)
(* and inode) is free again when the file is removed.                      *)
(***************************************************************************)
EXTENDS Integers, Sequences, FiniteSets, SequencesExt

CONSTANTS
    Identities,     \* the file identities the file system can hand out
    MaxRecords,     \* bound: lines the helpers write
    Capacity,       \* the inbox refuses lines beyond this length
    MaxFaults,      \* bound: crashes of the desktop and failed steps
    None            \* no file, no journal, no identity, no generation

ASSUME InboxAssumption ==
    /\ MaxRecords \in Nat /\ Capacity \in Nat /\ MaxFaults \in Nat
    /\ None \notin Identities /\ None \notin Nat

VARIABLES
    inbox,          \* the inbox file, or None
    quarantine,     \* the segment renamed away by the rotation, or None
    journal,        \* the maintenance journal, or None
    locked,         \* the source thread holds the file lock
    db,             \* the cursor checkpointed in the database
    stored,         \* the events stored in the database, in order
    appended,       \* how many lines the helpers have written
    written,        \* the events among them: the lines written to the end
    generation,     \* the last rotation's generation
    pc,             \* what the source thread does next
    cursor,         \* its cursor in memory
    work,           \* the line handed to the worker and the cursor after it
    then,           \* which call the rotation steps return to
    active,         \* the run finalizer has been activated
    backlog,        \* the events that were in the inbox when the desktop started
    faults          \* crashes and failures so far

disk   == <<inbox, quarantine, journal, locked>>
base   == <<db, stored>>
thread == <<pc, cursor, work, then, active, backlog>>
helpers == <<appended, written>>
vars   == <<disk, base, thread, helpers, generation, faults>>

-----------------------------------------------------------------------------
\* A line is complete, of this release or a newer one, torn (the helper died
\* inside it; it is still the last one), or cut (a torn line that the next
\* helper has ended).
Complete == {"whole", "newer"}
Lines == [n: 1..MaxRecords, text: Complete \cup {"torn", "cut"}]

Files == [id: Identities, lines: Seq(Lines)]

InboxCursor == [gen: Nat \cup {None}, id: Identities \cup {None}, offset: Nat]

MaintenanceJournal ==
    [gen: Nat, new: Identities \cup {None}, old: Identities, eof: Nat]

Works == [line: Lines, next: InboxCursor]

ASSUME NoneAssumption ==
    /\ None \notin Files
    /\ None \notin MaintenanceJournal
    /\ None \notin Works

Rotating == {"rename", "create", "identify", "checkpoint", "finish", "unlink"}

InboxTypeOK ==
    /\ inbox \in Files \cup {None}
    /\ quarantine \in Files \cup {None}
    /\ journal \in MaintenanceJournal \cup {None}
    /\ locked \in BOOLEAN
    /\ db \in InboxCursor
    /\ stored \in Seq(1..MaxRecords)
    /\ appended \in 0..MaxRecords
    /\ written \subseteq 1..appended
    /\ generation \in Nat
    /\ pc \in {"down", "loop", "work", "acked", "eof"} \cup Rotating
    /\ cursor \in InboxCursor
    /\ work \in Works \cup {None}
    /\ then \in {"loop", "eof"}
    /\ active \in BOOLEAN
    /\ backlog \subseteq 1..MaxRecords
    /\ faults \in 0..MaxFaults

Origin == [gen |-> None, id |-> None, offset |-> 0]

Init ==
    /\ inbox = None /\ quarantine = None /\ journal = None /\ locked = FALSE
    /\ db = Origin /\ stored = <<>>
    /\ appended = 0 /\ written = {} /\ generation = 0 /\ faults = 0
    /\ pc = "down" /\ cursor = Origin /\ work = None /\ then = "loop"
    /\ active = FALSE /\ backlog = {}

Records(f) == IF f = None THEN {}
              ELSE {l.n : l \in {m \in Range(f.lines) : m.text \in Complete}}

FreeIdentities ==
    {i \in Identities : (inbox = None \/ inbox.id # i)
                        /\ (quarantine = None \/ quarantine.id # i)}

\* Where reading really starts: a cursor of another file, or beyond the end,
\* starts over and loses its generation.
Misplaced(c, f) == (c.id # None /\ c.id # f.id) \/ Len(f.lines) < c.offset
CursorIn(c, f) ==
    [gen    |-> IF Misplaced(c, f) THEN None ELSE c.gen,
     id     |-> f.id,
     offset |-> IF Misplaced(c, f) THEN 0 ELSE c.offset]

Ended(lines) ==
    IF lines # <<>> /\ Last(lines).text = "torn"
    THEN [lines EXCEPT ![Len(lines)].text = "cut"]
    ELSE lines

-----------------------------------------------------------------------------
(* The helpers. *)

\* One hook invocation under the lock: end a torn last line, check the
\* capacity, append.  The helper may die inside its own line.
AppendBatch ==
    /\ ~locked
    /\ appended < MaxRecords
    /\ \E text \in Complete \cup {"torn"} :
       LET line == [n |-> appended + 1, text |-> text] IN
       /\ \/ /\ inbox = None
             /\ \E i \in FreeIdentities : inbox' = [id |-> i, lines |-> <<line>>]
          \/ /\ inbox # None
             /\ Len(inbox.lines) < Capacity
             /\ inbox' = [inbox EXCEPT !.lines = Append(Ended(@), line)]
       /\ written' = IF text \in Complete THEN written \cup {line.n} ELSE written
    /\ appended' = appended + 1
    /\ UNCHANGED <<quarantine, journal, locked, base, thread, generation, faults>>

-----------------------------------------------------------------------------
(* Plausible mistakes, used to show that the properties notice them. *)

\* As Start, but the finalizer is activated at once.
StartActive ==
    /\ pc = "down"
    /\ pc' = "loop"
    /\ cursor' = db
    /\ backlog' = Records(inbox)
    /\ active' = TRUE
    /\ UNCHANGED <<disk, base, work, then, helpers, generation, faults>>

\* As RotateSegment, but trusting the end of file seen before the lock.
RotateUnchecked ==
    /\ pc = "eof" /\ cursor.offset > 0 /\ ~locked
    /\ inbox # None
    /\ generation' = generation + 1
    /\ journal' = [gen |-> generation + 1, new |-> None, old |-> inbox.id,
                   eof |-> cursor.offset]
    /\ locked' = TRUE
    /\ then' = "eof"
    /\ pc' = "rename"
    /\ UNCHANGED <<inbox, quarantine, base, cursor, work, active, backlog,
                   helpers, faults>>

\* As EraseQuarantine, but the removal of the old segment is left out.
EraseNothing ==
    /\ pc = "finish" /\ ~locked
    /\ locked' = TRUE
    /\ pc' = "unlink"
    /\ UNCHANGED <<inbox, quarantine, journal, base, cursor, work, then, active,
                   backlog, helpers, generation, faults>>

-----------------------------------------------------------------------------
(* The source thread and the worker. *)

Start ==
    /\ pc = "down"
    /\ pc' = "loop"
    /\ cursor' = db
    /\ backlog' = Records(inbox)
    /\ UNCHANGED <<disk, base, work, then, active, helpers, generation, faults>>

\* The next line, complete or cut, goes to the worker over the rendezvous
\* channel.
ReadNextRecord ==
    /\ pc = "loop" /\ journal = None /\ inbox # None
    /\ LET c == CursorIn(cursor, inbox) IN
       /\ c.offset < Len(inbox.lines)
       /\ inbox.lines[c.offset + 1].text \notin {"torn", "newer"}
       /\ work' = [line |-> inbox.lines[c.offset + 1],
                   next |-> [c EXCEPT !.offset = @ + 1]]
    /\ pc' = "work"
    /\ UNCHANGED <<disk, base, cursor, then, active, backlog, helpers,
                   generation, faults>>

\* The next line is of a newer release: the cursor stays in front of it, to be
\* tried again.  The health report, which is throttled and may fail,
\* checkpoints that cursor.
ReadUnsupported ==
    /\ pc = "loop" /\ journal = None /\ inbox # None
    /\ LET c == CursorIn(cursor, inbox) IN
       /\ c.offset < Len(inbox.lines)
       /\ inbox.lines[c.offset + 1].text = "newer"
       /\ cursor' = c
       /\ db' \in {db, c}
    /\ UNCHANGED <<disk, stored, pc, work, then, active, backlog, helpers,
                   generation, faults>>

\* The worker stores the event, unless it is a replay or the line is rejected,
\* and the cursor behind it, in one transaction.
ProcessRecord ==
    /\ pc = "work"
    /\ stored' = IF work.line.text = "whole" /\ work.line.n \notin Range(stored)
                 THEN Append(stored, work.line.n) ELSE stored
    /\ db' = work.next
    /\ pc' = "acked"
    /\ UNCHANGED <<disk, cursor, work, then, active, backlog, helpers,
                   generation, faults>>

Acknowledge ==
    /\ pc = "acked"
    /\ cursor' = work.next
    /\ work' = None
    /\ pc' = "loop"
    /\ UNCHANGED <<disk, base, then, active, backlog, helpers, generation, faults>>

\* The transaction fails and rolls back: the record is read again.
ProcessFails ==
    /\ pc = "work" /\ faults < MaxFaults
    /\ faults' = faults + 1
    /\ work' = None
    /\ pc' = "loop"
    /\ UNCHANGED <<disk, base, cursor, then, active, backlog, helpers, generation>>

ReachEof ==
    /\ pc = "loop" /\ journal = None
    /\ inbox # None => CursorIn(cursor, inbox).offset = Len(inbox.lines)
    /\ pc' = "eof"
    /\ UNCHANGED <<disk, base, cursor, work, then, active, backlog, helpers,
                   generation, faults>>

-----------------------------------------------------------------------------
(* Rotation. *)

AtEof == /\ inbox # None
         /\ Len(inbox.lines) = cursor.offset
         /\ cursor.id \in {None, inbox.id}

\* rotate_segment takes the lock and looks again; the segment is large or old
\* enough.  The journal is written first.
RotateSegment ==
    /\ pc = "eof" /\ cursor.offset > 0 /\ ~locked
    /\ AtEof
    /\ generation' = generation + 1
    /\ journal' = [gen |-> generation + 1, new |-> None, old |-> inbox.id,
                   eof |-> cursor.offset]
    /\ locked' = TRUE
    /\ then' = "eof"
    /\ pc' = "rename"
    /\ UNCHANGED <<inbox, quarantine, base, cursor, work, active, backlog,
                   helpers, faults>>

\* Nothing to rotate yet, or the file changed: the end of file is reported and
\* the finalizer activated.
LeaveSegment ==
    /\ pc = "eof"
    /\ active' = TRUE
    /\ pc' = "loop"
    /\ UNCHANGED <<disk, base, cursor, work, then, backlog, helpers, generation,
                   faults>>

Rename ==
    /\ pc = "rename"
    /\ quarantine' = inbox
    /\ inbox' = None
    /\ pc' = "create"
    /\ UNCHANGED <<journal, locked, base, cursor, work, then, active, backlog,
                   helpers, generation, faults>>

CreateNewInbox ==
    /\ pc = "create"
    /\ \E i \in FreeIdentities : inbox' = [id |-> i, lines |-> <<>>]
    /\ pc' = "identify"
    /\ UNCHANGED <<quarantine, journal, locked, base, cursor, work, then, active,
                   backlog, helpers, generation, faults>>

\* The journal records the identity of the new file; the lock is released.
Identify ==
    /\ pc = "identify"
    /\ journal' = [journal EXCEPT !.new = inbox.id]
    /\ locked' = FALSE
    /\ pc' = "checkpoint"
    /\ UNCHANGED <<inbox, quarantine, base, cursor, work, then, active, backlog,
                   helpers, generation, faults>>

Checkpoint ==
    /\ pc = "checkpoint"
    /\ db' = IF db.gen = journal.gen THEN db
             ELSE [gen |-> journal.gen, id |-> journal.new, offset |-> 0]
    /\ pc' = "finish"
    /\ UNCHANGED <<disk, stored, cursor, work, then, active, backlog, helpers,
                   generation, faults>>

\* finish_maintenance: erase the old segment, then remove the journal.
EraseQuarantine ==
    /\ pc = "finish" /\ ~locked
    /\ locked' = TRUE
    /\ quarantine' = None
    /\ pc' = "unlink"
    /\ UNCHANGED <<inbox, journal, base, cursor, work, then, active, backlog,
                   helpers, generation, faults>>

RemoveJournal ==
    /\ pc = "unlink"
    /\ journal' = None
    /\ locked' = FALSE
    /\ cursor' = db
    /\ active' = (active \/ then = "eof")
    /\ pc' = "loop"
    /\ UNCHANGED <<inbox, quarantine, base, work, then, backlog, helpers,
                   generation, faults>>

\* Where the rotation stands, from the journal and the files; "abandon" when
\* lines were appended to the file after the journal but before the rename,
\* "conflict" when the file is not the journalled one.
ResumeAt ==
    IF journal.new = None /\ quarantine = None /\ inbox # None
    THEN IF Len(inbox.lines) < journal.eof \/ inbox.id # journal.old THEN "conflict"
         ELSE IF Len(inbox.lines) > journal.eof THEN "abandon"
         ELSE "rename"
    ELSE IF inbox = None THEN "create"
    ELSE IF journal.new = inbox.id THEN "checkpoint"
    ELSE IF journal.new # None /\ quarantine = None THEN "rename"
    ELSE "identify"

\* A journal is found before the next read: recovery goes on from there.
ResumeRotation ==
    /\ pc = "loop" /\ journal # None /\ ~locked
    /\ ResumeAt \in Rotating
    /\ pc' = ResumeAt
    /\ locked' = (ResumeAt # "checkpoint")
    /\ then' = "loop"
    /\ UNCHANGED <<inbox, quarantine, journal, base, cursor, work, active, backlog,
                   helpers, generation, faults>>

AbandonRotation ==
    /\ pc = "loop" /\ journal # None /\ ~locked
    /\ ResumeAt = "abandon"
    /\ journal' = None
    /\ cursor' = db
    /\ UNCHANGED <<inbox, quarantine, locked, base, pc, work, then, active, backlog,
                   helpers, generation, faults>>

\* A step fails: its call returns the error, the lock is released, and the
\* journal is found again in the next round.
RotationFails ==
    /\ pc \in Rotating /\ faults < MaxFaults
    /\ faults' = faults + 1
    /\ locked' = FALSE
    /\ active' = (active \/ then = "eof")
    /\ pc' = "loop"
    /\ UNCHANGED <<inbox, quarantine, journal, base, cursor, work, then, backlog,
                   helpers, generation>>

Crash ==
    /\ pc # "down" /\ faults < MaxFaults
    /\ faults' = faults + 1
    /\ pc' = "down"
    /\ locked' = FALSE
    /\ work' = None
    /\ active' = FALSE
    /\ UNCHANGED <<inbox, quarantine, journal, base, cursor, then, backlog, helpers,
                   generation>>

-----------------------------------------------------------------------------
Step == \/ Start \/ ReadNextRecord \/ ReadUnsupported
        \/ ProcessRecord \/ Acknowledge \/ ReachEof
        \/ RotateSegment \/ LeaveSegment
        \/ Rename \/ CreateNewInbox \/ Identify \/ Checkpoint
        \/ EraseQuarantine \/ RemoveJournal
        \/ ResumeRotation \/ AbandonRotation

Next == AppendBatch \/ Step \/ ProcessFails \/ RotationFails \/ Crash

\* The threads of the desktop run, and it is started again after a crash;
\* nothing is assumed of the helpers, and faults need not happen.
Spec == Init /\ [][Next]_vars /\ WF_vars(Step)

-----------------------------------------------------------------------------
(* Properties. *)

Unread == IF inbox = None THEN {}
          ELSE {inbox.lines[k].n : k \in
                   {j \in DOMAIN inbox.lines : j > CursorIn(db, inbox).offset}}

\* The events that wait: the complete lines behind the checkpointed cursor, from
\* which the next reader, after whatever crash, will start.
Waiting == IF inbox = None THEN {}
           ELSE {inbox.lines[k].n : k \in
                   {j \in DOMAIN inbox.lines :
                       /\ j > CursorIn(db, inbox).offset
                       /\ inbox.lines[j].text \in Complete}}

\* The events this desktop cannot read.
Newer == IF inbox = None THEN {}
         ELSE {l.n : l \in {m \in Range(inbox.lines) : m.text = "newer"}}

\* What the inbox promises: a queue.
Log == INSTANCE EventLog
       WITH Events <- 1..MaxRecords, pending <- Waiting, sealed <- Newer

\* With all its files, cursors, rotations and crashes the inbox is a queue:
\* a step makes one new event wait, or stores the event that waits longest and
\* takes it from those that wait, or does nothing of either.  An event of a
\* newer release is never passed over: it keeps its place, and so do the events
\* behind it.  Where no such event stands in front, no event waits for ever
\* (process_record, rotate_segment, resume_rotation_locked, and
\* InboxRead::Unsupported in run_inbox_source).
ImplementsLog == Log!FairLogSpec

\* Every event a helper wrote completely, of whichever release, is stored, or
\* it is in the inbox behind the checkpointed cursor, where the next reader
\* finds it: neither the
\* rotation, nor its recovery after a crash at any step, nor a file that gets
\* the identity of an erased one, makes the source skip a line
\* (rotate_segment, resume_rotation_locked, read_next_record).
NoRecordLost == written \subseteq ToSet(stored) \cup Unread

\* Events are stored in the order the helpers wrote them, and no line is handed
\* to the worker again once its transaction has committed: the cursor moves
\* with the event (process_record, run_inbox_source).
ReadInOrder ==
    /\ \A j, k \in DOMAIN stored : j < k => stored[j] < stored[k]
    /\ pc = "work" => \A k \in DOMAIN stored : stored[k] < work.line.n

\* The finalizer, which ends quiet runs, is activated only when every event
\* that was waiting when the desktop started has been stored: a run is not
\* ended while its own later events sit unread in the inbox (on_caught_up).
ActivatedCaughtUp == active => backlog \subseteq ToSet(stored)

\* A rotated segment, which still holds the bodies of consumed events, is
\* erased in the end, whatever step of the rotation was interrupted
\* (finish_maintenance, recover_maintenance_for_source).
SegmentsErased == quarantine # None ~> quarantine = None
=============================================================================
