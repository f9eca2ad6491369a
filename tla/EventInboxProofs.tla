--------------------------- MODULE EventInboxProofs ---------------------------
(***************************************************************************)
(* Proofs about the event inbox: it implements a queue (EventLog), no      *)
(* event is lost, events are stored in the order they were written, and    *)
(* the finalizer starts caught up, for any number of lines, identities,    *)
(* crashes and failed steps.                                               *)
(*                                                                         *)
(* The argument.  The lines of the inbox and the events of the database    *)
(* are one ascending sequence of numbers cut in two at the place where     *)
(* the checkpointed cursor is taken up again (Content).  A helper extends  *)
(* the second part, the worker moves the cut by one line, and a rotation   *)
(* swaps the file for an empty one only while the cut is at its end.  What *)
(* remains is that every step of the rotation, and every interrupted       *)
(* rotation, leaves a cursor that is either in place in the file or        *)
(* visibly of another file and so starts over (CursorInv): between the     *)
(* rename and the checkpoint the cursor names the quarantined segment,     *)
(* whose identity no new file can get while it exists.                     *)
(***************************************************************************)
EXTENDS EventInbox, TLAPS

-----------------------------------------------------------------------------
(* The invariant.                                                          *)

\* The steps of the rotation that hold the file lock.
Guarded == {"rename", "create", "identify", "unlink"}

(* What is in the inbox, and from where on it is unread.                   *)
Text  == IF inbox = None THEN <<>> ELSE inbox.lines
Where == IF inbox = None THEN 0 ELSE CursorIn(db, inbox).offset

\* The lines carry ascending numbers of what was appended; the complete ones
\* are exactly those that hold a written event.
Numbered(ls, a, wr) ==
    /\ \A j \in 1..Len(ls) :
         /\ ls[j].n <= a
         /\ ls[j].text \in Complete <=> ls[j].n \in wr
    /\ \A j, k \in 1..Len(ls) : j < k => ls[j].n < ls[k].n

\* The database stores the events in the order of their numbers.
Ascending(st) == \A j, k \in 1..Len(st) : j < k => st[j] < st[k]

\* Nothing up to w is torn or of a newer release, everything stored is older
\* than everything behind w, and every written event is stored or behind w.
Content(ls, w, st, a, wr) ==
    /\ Numbered(ls, a, wr)
    /\ \A j \in 1..Len(ls) : j <= w => ls[j].text \notin {"torn", "newer"}
    /\ \A k \in 1..Len(st) : st[k] <= a
    /\ Ascending(st)
    /\ \A k \in 1..Len(st), j \in 1..Len(ls) : j > w => st[k] < ls[j].n
    /\ \A n \in wr : \/ \E k \in 1..Len(st) : st[k] = n
                     \/ \E j \in 1..Len(ls) : j > w /\ ls[j].n = n

\* The content of the inbox and the database fit together at the cursor.
ContentInv == Content(Text, Where, stored, appended, written)

\* The checkpointed cursor belongs to the inbox file and lies within it.
InPlace == /\ db.id \in {None, inbox.id}
           /\ db.offset <= Len(inbox.lines)

\* Where the checkpointed cursor stands, by how far the rotation has come.
CursorInv ==
    /\ db.id = None => db.offset = 0 /\ db.gen = None
    /\ db.gen # None => db.gen <= generation
    /\ journal = None =>
         /\ quarantine = None
         /\ inbox = None => db.id = None
         /\ inbox # None => InPlace
    /\ journal # None => journal.gen = generation
    /\ journal # None /\ journal.new = None =>
         /\ db.gen # generation
         /\ db.id = journal.old /\ db.offset = journal.eof
         /\ quarantine = None =>
              /\ inbox # None /\ inbox.id = journal.old
              /\ Len(inbox.lines) >= journal.eof
         /\ quarantine # None =>
              /\ quarantine.id = journal.old
              /\ inbox # None => inbox.id # quarantine.id
    /\ journal # None /\ journal.new # None =>
         /\ inbox # None /\ inbox.id = journal.new
         /\ quarantine # None => inbox.id # quarantine.id
         /\ db.gen = generation => db.id = journal.new /\ db.offset = 0
         /\ db.gen # generation =>
              /\ quarantine # None
              /\ db.id = journal.old /\ quarantine.id = journal.old

\* What each step of the source thread may rely on.
PhaseInv ==
    /\ locked <=> pc \in Guarded
    /\ pc \in {"work", "acked", "eof"} => journal = None
    /\ pc \in Rotating => journal # None
    /\ journal = None /\ pc \notin {"down", "acked"} =>
         /\ cursor.gen = db.gen /\ cursor.offset = db.offset
         /\ cursor.id = db.id \/ (inbox # None /\ cursor.id = inbox.id)
    /\ pc = "work" =>
         /\ inbox # None /\ db.offset < Len(inbox.lines)
         /\ work # None /\ work.line = inbox.lines[db.offset + 1]
         /\ work.line.text \notin {"torn", "newer"}
         /\ work.next = [gen |-> db.gen, id |-> inbox.id,
                         offset |-> db.offset + 1]
    /\ pc = "acked" => work # None /\ work.next = db
    /\ pc = "rename" => /\ journal.new = None /\ quarantine = None
                        /\ Len(inbox.lines) = journal.eof
    /\ pc = "create" => inbox = None
    /\ pc = "identify" =>
         journal.new = None /\ quarantine # None /\ inbox # None
    /\ pc \in {"checkpoint", "finish", "unlink"} => journal.new # None
    /\ pc \in {"finish", "unlink"} => db.gen = generation
    /\ pc = "unlink" => quarantine = None

\* Once the end of the file was seen, what waited at the start is stored.
CaughtUp ==
    /\ backlog \subseteq written
    /\ pc = "down" => ~active
    /\ pc = "eof" \/ active \/ (pc \in Rotating /\ then = "eof") =>
           backlog \subseteq ToSet(stored)

\* The inductive invariant.
Inv == InboxTypeOK /\ ContentInv /\ CursorInv /\ PhaseInv /\ CaughtUp

-----------------------------------------------------------------------------
(* Fields, sequences and the content.                                      *)

\* The fields of a line.
LEMMA LineFields ==
    ASSUME NEW l \in Lines
    PROVE  l.n \in Nat /\ l.text \in {"whole", "newer", "torn", "cut"}
BY InboxAssumption DEF Lines, Complete

\* The fields of a cursor.
LEMMA CursorFields ==
    ASSUME NEW c \in InboxCursor
    PROVE  /\ c.gen \in Nat \cup {None} /\ c.id \in Identities \cup {None}
           /\ c.offset \in Nat
           /\ c = [gen |-> c.gen, id |-> c.id, offset |-> c.offset]
BY DEF InboxCursor

\* The fields of a file.
LEMMA FileFields ==
    ASSUME NEW f \in Files
    PROVE  f.id \in Identities /\ f.lines \in Seq(Lines) /\ f # None
           /\ f.id # None /\ Len(f.lines) \in Nat
BY InboxAssumption, NoneAssumption DEF Files

\* The fields of the maintenance journal.
LEMMA JournalFields ==
    ASSUME NEW j \in MaintenanceJournal
    PROVE  /\ j.gen \in Nat /\ j.new \in Identities \cup {None}
           /\ j.old \in Identities /\ j.eof \in Nat /\ j # None /\ j.old # None
BY InboxAssumption, NoneAssumption DEF MaintenanceJournal

\* The fields of the work handed over.
LEMMA WorkFields ==
    ASSUME NEW w \in Works
    PROVE  w.line \in Lines /\ w.next \in InboxCursor /\ w # None
BY NoneAssumption DEF Works

\* The elements of a sequence over a set are in the set.
LEMMA ElementsIn ==
    ASSUME NEW S, NEW s \in Seq(S)
    PROVE  \A k \in 1..Len(s) : s[k] \in S
OBVIOUS

\* Appending keeps the elements and adds one at the end.
LEMMA AppendFacts ==
    ASSUME NEW S, NEW s \in Seq(S), NEW x \in S
    PROVE  /\ Append(s, x) \in Seq(S) /\ Len(s) \in Nat
           /\ Len(Append(s, x)) = Len(s) + 1
           /\ Append(s, x)[Len(s) + 1] = x
           /\ \A j \in 1..Len(s) : Append(s, x)[j] = s[j]
<1>1. /\ Append(s, x) \in Seq(S) /\ Len(s) \in Nat
      /\ Len(Append(s, x)) = Len(s) + 1
  OBVIOUS
<1>2. /\ Append(s, x)[Len(s) + 1] = x
      /\ \A j \in 1..Len(s) : Append(s, x)[j] = s[j]
  OBVIOUS
<1> QED BY <1>1, <1>2

\* Ending a torn last line changes no number and only the text of that line.
LEMMA EndedFacts ==
    ASSUME NEW ls \in Seq(Lines)
    PROVE  /\ Ended(ls) \in Seq(Lines) /\ Len(Ended(ls)) = Len(ls)
           /\ \A j \in 1..Len(ls) :
                /\ Ended(ls)[j].n = ls[j].n
                /\ \/ Ended(ls)[j] = ls[j]
                   \/ Ended(ls)[j].text = "cut" /\ ls[j].text = "torn"
<1>1. CASE ls # <<>> /\ Last(ls).text = "torn"
  <2> DEFINE n == Len(ls)
             m == [ls EXCEPT ![n] = [ls[n] EXCEPT !.text = "cut"]]
  <2>1. Ended(ls) = m
    BY <1>1 DEF Ended
  <2>2. n \in Nat /\ n \in 1..n /\ ls[n] \in Lines /\ ls \in [1..n -> Lines]
    BY <1>1
  <2>3. [ls[n] EXCEPT !.text = "cut"] \in Lines
        /\ [ls[n] EXCEPT !.text = "cut"].n = ls[n].n
        /\ [ls[n] EXCEPT !.text = "cut"].text = "cut"
    BY <2>2 DEF Lines
  <2>4. m \in [1..n -> Lines] /\ m[n] = [ls[n] EXCEPT !.text = "cut"]
        /\ \A j \in 1..n : j # n => m[j] = ls[j]
    BY <2>2, <2>3
  <2>5. ls[n].text = "torn"
    BY <1>1 DEF Last
  <2>6. m \in Seq(Lines) /\ Len(m) = n
    BY <2>2, <2>4
  <2> QED BY <2>1, <2>3, <2>4, <2>5, <2>6
<1>2. CASE ~(ls # <<>> /\ Last(ls).text = "torn")
  BY <1>2 DEF Ended
<1> QED BY <1>1, <1>2

\* The lines and the written events after a helper has appended.
Longer(ls, a, t) == Append(Ended(ls), [n |-> a + 1, text |-> t])
More(wr, a, t) == IF t \in Complete THEN wr \cup {a + 1} ELSE wr

\* A helper's append keeps content and cursor in step, and leaves every line
\* that is not torn as it is (append_batch).
LEMMA AppendLine ==
    ASSUME NEW ls \in Seq(Lines), NEW w \in Nat, NEW a \in Nat,
           NEW st \in Seq(1..MaxRecords), NEW wr \in SUBSET (1..a),
           w <= Len(ls), Content(ls, w, st, a, wr),
           NEW t \in {"whole", "newer", "torn"}, a + 1 <= MaxRecords
    PROVE  /\ Content(Longer(ls, a, t), w, st, a + 1, More(wr, a, t))
           /\ Longer(ls, a, t) \in Seq(Lines)
           /\ Len(Longer(ls, a, t)) = Len(ls) + 1
           /\ \A j \in 1..Len(ls) :
                Longer(ls, a, t)[j] = ls[j] \/ ls[j].text = "torn"
<1> DEFINE line == [n |-> a + 1, text |-> t]
           e == Ended(ls)
           new == Longer(ls, a, t)
           nw == More(wr, a, t)
<1>1. line \in Lines /\ line.n = a + 1 /\ line.text = t
  BY InboxAssumption DEF Lines, Complete
<1>2. /\ e \in Seq(Lines) /\ Len(e) = Len(ls)
      /\ \A j \in 1..Len(ls) :
           /\ e[j].n = ls[j].n
           /\ e[j] = ls[j] \/ (e[j].text = "cut" /\ ls[j].text = "torn")
  BY EndedFacts
<1>3. new = Append(e, line) /\ nw = IF t \in Complete THEN wr \cup {a + 1} ELSE wr
  BY DEF Longer, More
<1> HIDE DEF line, e, new, nw
<1>4. /\ new \in Seq(Lines) /\ Len(new) = Len(ls) + 1
      /\ new[Len(ls) + 1] = line
      /\ \A j \in 1..Len(ls) : new[j] = e[j]
  BY <1>1, <1>2, <1>3, AppendFacts
<1>5. \A j \in 1..Len(ls) : /\ ls[j].n \in Nat /\ ls[j].n <= a
                            /\ ls[j].text \in Complete <=> ls[j].n \in wr
                            /\ new[j].n = ls[j].n
                            /\ new[j].text \in Complete <=> ls[j].text \in Complete
  <2> SUFFICES ASSUME NEW j \in 1..Len(ls)
               PROVE  /\ ls[j].n \in Nat /\ ls[j].n <= a
                      /\ ls[j].text \in Complete <=> ls[j].n \in wr
                      /\ new[j].n = ls[j].n
                      /\ new[j].text \in Complete <=> ls[j].text \in Complete
    OBVIOUS
  <2>1. ls[j] \in Lines
    OBVIOUS
  <2>2. ls[j].n <= a /\ (ls[j].text \in Complete <=> ls[j].n \in wr)
    BY DEF Content, Numbered
  <2>3. new[j] = e[j]
    BY <1>4
  <2>4. /\ e[j].n = ls[j].n
        /\ e[j] = ls[j] \/ (e[j].text = "cut" /\ ls[j].text = "torn")
    BY <1>2
  <2> QED BY <2>1, <2>2, <2>3, <2>4, LineFields DEF Complete
<1>6. Numbered(new, a + 1, nw)
  <2>1. ASSUME NEW j \in 1..Len(new)
        PROVE  new[j].n <= a + 1 /\ (new[j].text \in Complete <=> new[j].n \in nw)
    <3>1. CASE j = Len(ls) + 1
      BY <3>1, <1>1, <1>3, <1>4
    <3>2. CASE j # Len(ls) + 1
      <4>1. j \in 1..Len(ls)
        BY <3>2, <1>4
      <4>2. new[j].n # a + 1 /\ new[j].n <= a + 1
        BY <4>1, <1>5
      <4> QED BY <4>1, <4>2, <1>3, <1>5
    <3> QED BY <3>1, <3>2
  <2>2. ASSUME NEW j \in 1..Len(new), NEW k \in 1..Len(new), j < k
        PROVE  new[j].n < new[k].n
    <3>1. j \in 1..Len(ls)
      BY <2>2, <1>4
    <3>2. CASE k = Len(ls) + 1
      <4>1. new[k].n = a + 1
        BY <3>2, <1>1, <1>4
      <4>2. new[j].n \in Nat /\ new[j].n <= a
        BY <3>1, <1>5
      <4> QED BY <4>1, <4>2
    <3>3. CASE k # Len(ls) + 1
      <4>1. k \in 1..Len(ls)
        BY <3>3, <1>4
      <4> QED BY <2>2, <3>1, <4>1, <1>5 DEF Content, Numbered
    <3> QED BY <3>2, <3>3
  <2> QED BY <2>1, <2>2 DEF Numbered
<1>7. \A j \in 1..Len(new) : j <= w => new[j].text \notin {"torn", "newer"}
  <2> SUFFICES ASSUME NEW j \in 1..Len(new), j <= w
               PROVE  new[j].text \notin {"torn", "newer"}
    OBVIOUS
  <2>1. j \in 1..Len(ls)
    BY <1>4
  <2>2. ls[j].text \notin {"torn", "newer"}
    BY <2>1 DEF Content
  <2> QED BY <2>1, <2>2, <1>2, <1>4
<1>0. \A k \in 1..Len(st) : st[k] \in Nat /\ st[k] <= a
  <2>1. \A k \in 1..Len(st) : st[k] \in 1..MaxRecords
    BY ElementsIn
  <2> QED BY <2>1, InboxAssumption DEF Content
<1>8. \A k \in 1..Len(st) : st[k] <= a + 1
  BY <1>0
<1>9. \A k \in 1..Len(st), j \in 1..Len(new) : j > w => st[k] < new[j].n
  <2> SUFFICES ASSUME NEW k \in 1..Len(st), NEW j \in 1..Len(new), j > w
               PROVE  st[k] < new[j].n
    OBVIOUS
  <2>1. CASE j = Len(ls) + 1
    BY <2>1, <1>0, <1>1, <1>4
  <2>2. CASE j # Len(ls) + 1
    <3>1. j \in 1..Len(ls)
      BY <2>2, <1>4
    <3> QED BY <3>1, <1>5 DEF Content
  <2> QED BY <2>1, <2>2
<1>10. \A n \in nw : \/ \E k \in 1..Len(st) : st[k] = n
                     \/ \E j \in 1..Len(new) : j > w /\ new[j].n = n
  <2> SUFFICES ASSUME NEW n \in nw
               PROVE  \/ \E k \in 1..Len(st) : st[k] = n
                      \/ \E j \in 1..Len(new) : j > w /\ new[j].n = n
    OBVIOUS
  <2>1. CASE n \in wr
    <3>1. \/ \E k \in 1..Len(st) : st[k] = n
          \/ \E j \in 1..Len(ls) : j > w /\ ls[j].n = n
      BY <2>1 DEF Content
    <3>2. \A j \in 1..Len(ls) : j \in 1..Len(new)
      BY <1>4
    <3> QED BY <3>1, <3>2, <1>5
  <2>2. CASE n \notin wr
    <3>1. n = a + 1
      BY <2>2, <1>3
    <3>2. Len(ls) + 1 \in 1..Len(new) /\ Len(ls) + 1 > w
      BY <1>4
    <3> QED BY <3>1, <3>2, <1>1, <1>4
  <2> QED BY <2>1, <2>2
<1>11. \A j \in 1..Len(ls) : new[j] = ls[j] \/ ls[j].text = "torn"
  BY <1>2, <1>4
<1> QED BY <1>4, <1>6, <1>7, <1>8, <1>9, <1>10, <1>11 DEF Content, new, nw

\* The stored events after the worker has processed a line.
Kept(l, st) == IF l.text = "whole" /\ l.n \notin Range(st)
               THEN Append(st, l.n) ELSE st

\* Processing the line at the cursor keeps content and cursor in step when the
\* cursor moves behind the line, and forgets no stored event (process_record).
LEMMA ProcessLine ==
    ASSUME NEW ls \in Seq(Lines), NEW w \in Nat, NEW a \in Nat,
           NEW st \in Seq(1..MaxRecords), NEW wr \in SUBSET (1..a),
           w < Len(ls), Content(ls, w, st, a, wr),
           ls[w + 1].text \notin {"torn", "newer"}
    PROVE  /\ Content(ls, w + 1, Kept(ls[w + 1], st), a, wr)
           /\ Kept(ls[w + 1], st) \in Seq(1..MaxRecords)
           /\ ToSet(st) \subseteq ToSet(Kept(ls[w + 1], st))
<1> DEFINE new == Kept(ls[w + 1], st)
<1> DEFINE x == ls[w + 1].n
<1>1. w + 1 \in 1..Len(ls) /\ ls[w + 1] \in Lines /\ x \in 1..MaxRecords
      /\ x <= a /\ x \in Nat /\ Len(ls) \in Nat
  <2>1. w + 1 \in 1..Len(ls) /\ Len(ls) \in Nat
    OBVIOUS
  <2>2. ls[w + 1] \in Lines
    BY <2>1
  <2>3. x <= a
    BY <2>1 DEF Content, Numbered
  <2> QED BY <2>1, <2>2, <2>3, LineFields DEF Lines
<1>2. \A k \in 1..Len(st) : st[k] < x /\ st[k] \in Nat
  BY <1>1, InboxAssumption DEF Content
<1>3. \A k \in 1..Len(st) : st[k] # x
  BY <1>1, <1>2
<1>4. x \notin Range(st)
  BY <1>3 DEF Range
<1>5. /\ ls[w + 1].text = "whole" => new = Append(st, x)
      /\ ls[w + 1].text # "whole" => new = st
  BY <1>4 DEF Kept
<1> HIDE DEF x, new
<1>6. /\ new \in Seq(1..MaxRecords)
      /\ Len(st) \in Nat
      /\ \A k \in 1..Len(st) : k \in 1..Len(new) /\ new[k] = st[k]
      /\ \A k \in 1..Len(new) :
            k \in 1..Len(st) \/ (/\ ls[w + 1].text = "whole"
                                 /\ k = Len(st) + 1 /\ new[k] = x)
      /\ ls[w + 1].text = "whole" => Len(st) + 1 \in 1..Len(new)
                                     /\ new[Len(st) + 1] = x
  <2>1. CASE ls[w + 1].text = "whole"
    <3>1. /\ Append(st, x) \in Seq(1..MaxRecords) /\ Len(st) \in Nat
          /\ Len(Append(st, x)) = Len(st) + 1
          /\ Append(st, x)[Len(st) + 1] = x
          /\ \A k \in 1..Len(st) : Append(st, x)[k] = st[k]
      BY <1>1, AppendFacts
    <3>3. new = Append(st, x)
      BY <2>1, <1>5
    <3>4. /\ new \in Seq(1..MaxRecords) /\ Len(st) \in Nat
          /\ Len(new) = Len(st) + 1 /\ new[Len(st) + 1] = x
          /\ \A k \in 1..Len(st) : new[k] = st[k]
      BY <3>1, <3>3
    <3>5. /\ \A k \in 1..Len(st) : k \in 1..Len(new)
          /\ \A k \in 1..Len(new) : k \in 1..Len(st) \/ k = Len(st) + 1
          /\ Len(st) + 1 \in 1..Len(new)
      BY <3>4
    <3> QED BY <2>1, <3>4, <3>5
  <2>2. CASE ls[w + 1].text # "whole"
    BY <2>2, <1>5
  <2> QED BY <2>1, <2>2
<1>7. \A k \in 1..Len(new) : new[k] <= a
  BY <1>1, <1>6 DEF Content
<1>8. Ascending(new)
  <2> SUFFICES ASSUME NEW j \in 1..Len(new), NEW k \in 1..Len(new), j < k
               PROVE  new[j] < new[k]
    BY DEF Ascending
  <2>1. j \in 1..Len(st)
    BY <1>6
  <2>2. CASE k \in 1..Len(st)
    BY <2>1, <2>2, <1>6 DEF Content, Ascending
  <2>3. CASE k \notin 1..Len(st)
    BY <2>1, <2>3, <1>2, <1>6
  <2> QED BY <2>2, <2>3
<1>9. \A j \in 1..Len(ls) : j <= w + 1 => ls[j].text \notin {"torn", "newer"}
  BY <1>1 DEF Content
<1>10. \A k \in 1..Len(new), j \in 1..Len(ls) : j > w + 1 => new[k] < ls[j].n
  <2> SUFFICES ASSUME NEW k \in 1..Len(new), NEW j \in 1..Len(ls), j > w + 1
               PROVE  new[k] < ls[j].n
    OBVIOUS
  <2>1. CASE k \in 1..Len(st)
    BY <2>1, <1>6 DEF Content
  <2>2. CASE k \notin 1..Len(st)
    <3>1. new[k] = x
      BY <2>2, <1>6
    <3>2. x < ls[j].n
      BY <1>1 DEF Content, Numbered, x
    <3> QED BY <3>1, <3>2
  <2> QED BY <2>1, <2>2
<1>11. \A n \in wr : \/ \E k \in 1..Len(new) : new[k] = n
                     \/ \E j \in 1..Len(ls) : j > w + 1 /\ ls[j].n = n
  <2> SUFFICES ASSUME NEW n \in wr
               PROVE  \/ \E k \in 1..Len(new) : new[k] = n
                      \/ \E j \in 1..Len(ls) : j > w + 1 /\ ls[j].n = n
    OBVIOUS
  <2>1. CASE \E k \in 1..Len(st) : st[k] = n
    BY <2>1, <1>6
  <2>2. ASSUME NEW j \in 1..Len(ls), j > w, ls[j].n = n
        PROVE  \/ \E k \in 1..Len(new) : new[k] = n
               \/ \E i \in 1..Len(ls) : i > w + 1 /\ ls[i].n = n
    <3>1. CASE j = w + 1
      <4>1. ls[w + 1].text = "whole"
        BY <2>2, <3>1 DEF Content, Numbered, Complete
      <4> QED BY <2>2, <3>1, <4>1, <1>6 DEF x
    <3>2. CASE j # w + 1
      <4>1. j > w + 1
        BY <2>2, <3>2
      <4> QED BY <2>2, <4>1
    <3> QED BY <3>1, <3>2
  <2> QED BY <2>1, <2>2 DEF Content
<1>12. ToSet(st) \subseteq ToSet(new)
  BY <1>6 DEF ToSet
<1> QED BY <1>6, <1>7, <1>8, <1>9, <1>10, <1>11, <1>12 DEF Content, new

\* With the cursor at the end of the file every written event is stored, and
\* an empty file may take its place (rotate_segment).
LEMMA AllRead ==
    ASSUME NEW ls \in Seq(Lines), NEW a \in Nat, NEW st \in Seq(1..MaxRecords),
           NEW wr \in SUBSET (1..a), Content(ls, Len(ls), st, a, wr)
    PROVE  /\ wr \subseteq ToSet(st) /\ Content(<<>>, 0, st, a, wr)
           /\ \A j \in 1..Len(ls) : ls[j].text # "newer"
<1>1. \A n \in wr : \E k \in 1..Len(st) : st[k] = n
  <2>1. Len(ls) \in Nat
    OBVIOUS
  <2>2. \A j \in 1..Len(ls) : ~(j > Len(ls))
    BY <2>1
  <2> QED BY <2>2 DEF Content
<1>2. Len(<<>>) = 0 /\ 1..0 = {}
  OBVIOUS
<1>3. wr \subseteq ToSet(st)
  BY <1>1 DEF ToSet
<1>4. Numbered(<<>>, a, wr)
  BY <1>2 DEF Numbered
<1>5. Ascending(st) /\ \A k \in 1..Len(st) : st[k] <= a
  BY DEF Content
<1>6. \A j \in 1..Len(ls) : ls[j].text # "newer"
  <2>1. Len(ls) \in Nat
    OBVIOUS
  <2> QED BY <2>1 DEF Content
<1> QED BY <1>1, <1>2, <1>3, <1>4, <1>5, <1>6 DEF Content

-----------------------------------------------------------------------------
(* One lemma per action.                                                   *)

\* The types of the variables' parts.
LEMMA Shapes ==
    ASSUME InboxTypeOK
    PROVE  /\ db \in InboxCursor /\ cursor \in InboxCursor
           /\ db.offset \in Nat /\ generation \in Nat
           /\ db.gen \in Nat \cup {None}
           /\ inbox # None => /\ inbox \in Files /\ inbox.id \in Identities
                              /\ inbox.id # None
                              /\ inbox.lines \in Seq(Lines)
                              /\ Len(inbox.lines) \in Nat
           /\ quarantine # None => /\ quarantine \in Files
                                   /\ quarantine.id \in Identities
                                   /\ quarantine.id # None
           /\ journal # None => /\ journal \in MaintenanceJournal
                                /\ journal.gen \in Nat /\ journal.eof \in Nat
                                /\ journal.new \in Identities \cup {None}
                                /\ journal.old \in Identities
                                /\ journal.old # None
           /\ work # None => /\ work \in Works /\ work.line \in Lines
                             /\ work.next \in InboxCursor
           /\ stored \in Seq(1..MaxRecords)
           /\ appended \in Nat /\ written \in SUBSET (1..appended)
           /\ Text \in Seq(Lines)
<1>1. Text \in Seq(Lines)
  BY FileFields DEF InboxTypeOK, Text
<1> QED BY <1>1, CursorFields, FileFields, JournalFields,
        WorkFields, InboxAssumption DEF InboxTypeOK

(* Where reading goes on, in terms of the checkpointed cursor.             *)
Spot == IF inbox = None THEN 0
        ELSE IF db.id \in {None, inbox.id} THEN db.offset ELSE 0

\* Reading goes on at the checkpointed offset when the cursor is of this file
\* or of none, and from the start otherwise; it is never beyond the end.
LEMMA WhereIsSpot ==
    ASSUME InboxTypeOK, CursorInv
    PROVE  /\ Where = Spot /\ Where \in Nat /\ Where <= Len(Text)
           /\ journal = None /\ inbox # None =>
                CursorIn(db, inbox) = [gen |-> db.gen, id |-> inbox.id,
                                       offset |-> db.offset]
<1>1. CASE inbox = None
  BY <1>1 DEF Where, Spot, Text
<1>2. CASE inbox # None
  <2>1. db.offset \in Nat /\ Len(inbox.lines) \in Nat
    BY <1>2, Shapes
  <2>2. db.id \in {None, inbox.id} => db.offset <= Len(inbox.lines)
    <3>1. CASE journal = None
      BY <1>2, <3>1 DEF CursorInv, InPlace
    <3>2. CASE journal # None /\ journal.new = None
      BY <1>2, <2>1, <3>2, Shapes DEF CursorInv
    <3>3. CASE journal # None /\ journal.new # None
      BY <1>2, <2>1, <3>3, Shapes DEF CursorInv
    <3> QED BY <3>1, <3>2, <3>3
  <2>3. Misplaced(db, inbox) <=> db.id \notin {None, inbox.id}
    BY <2>1, <2>2 DEF Misplaced
  <2>4. journal = None => db.id \in {None, inbox.id}
    BY <1>2 DEF CursorInv, InPlace
  <2> QED BY <1>2, <2>1, <2>2, <2>3, <2>4 DEF Where, Spot, Text, CursorIn
<1> QED BY <1>1, <1>2

\* The cursor in memory is taken up at the checkpointed place.
LEMMA CursorIsLevel ==
    ASSUME InboxTypeOK, CursorInv, PhaseInv, journal = None,
           pc \notin {"down", "acked"}, inbox # None
    PROVE  /\ CursorIn(cursor, inbox) = [gen |-> db.gen, id |-> inbox.id,
                                         offset |-> db.offset]
           /\ CursorIn(db, inbox) = CursorIn(cursor, inbox)
<1>1. db.offset \in Nat /\ Len(inbox.lines) \in Nat
  BY Shapes
<1>2. InPlace
  BY DEF CursorInv
<1>3. /\ cursor.gen = db.gen /\ cursor.offset = db.offset
      /\ cursor.id \in {None, inbox.id}
  BY <1>2 DEF PhaseInv, InPlace
<1>4. ~Misplaced(cursor, inbox)
  BY <1>1, <1>2, <1>3 DEF Misplaced, InPlace
<1> QED BY <1>3, <1>4, WhereIsSpot DEF CursorIn

\* A step that touches neither the file, the database nor the helpers' lines
\* keeps the content.
LEMMA ContentStays ==
    ASSUME Inv, UNCHANGED <<inbox, db, stored, appended, written>>
    PROVE  ContentInv'
<1>1. Text' = Text /\ Where' = Where
  BY DEF Text, Where, CursorIn, Misplaced
<1> QED BY <1>1 DEF Inv, ContentInv

\* Start: the backlog is among the written events.
LEMMA StartKeeps ==
    ASSUME Inv, Start
    PROVE  Inv'
<1>1. /\ pc = "down" /\ pc' = "loop" /\ cursor' = db
      /\ backlog' = Records(inbox)
      /\ UNCHANGED <<inbox, quarantine, journal, locked, db, stored, work,
                     then, active, appended, written, generation, faults>>
  BY DEF Start, disk, base, helpers
<1>2. backlog' \subseteq written
  <2>1. ASSUME NEW n \in Records(inbox) PROVE n \in written
    <3>1. inbox # None /\ \E l \in Range(inbox.lines) :
                            l.text \in Complete /\ l.n = n
      BY <2>1 DEF Records
    <3>2. PICK j \in DOMAIN inbox.lines :
             inbox.lines[j].text \in Complete /\ inbox.lines[j].n = n
      BY <3>1 DEF Range
    <3>3. j \in 1..Len(inbox.lines)
      BY <3>1, <3>2, Shapes DEF Inv
    <3> QED BY <3>1, <3>2, <3>3 DEF Inv, ContentInv, Content, Numbered, Text
  <2> QED BY <1>1, <2>1
<1>3. InboxTypeOK'
  <2>1. backlog' \subseteq 1..MaxRecords
    BY <1>2, InboxAssumption DEF Inv, InboxTypeOK
  <2> QED BY <1>1, <2>1 DEF Inv, InboxTypeOK
<1>4. ContentInv'
  BY <1>1, ContentStays
<1>5. CursorInv'
  BY <1>1 DEF Inv, CursorInv, InPlace
<1>6. PhaseInv'
  BY <1>1 DEF Inv, PhaseInv, Guarded, Rotating
<1>7. CaughtUp'
  BY <1>1, <1>2 DEF Inv, CaughtUp, Rotating
<1> QED BY <1>3, <1>4, <1>5, <1>6, <1>7 DEF Inv

\* ReadNextRecord: the line handed over is the one behind the checkpoint.
LEMMA ReadKeeps ==
    ASSUME Inv, ReadNextRecord
    PROVE  Inv'
<1> DEFINE c == CursorIn(cursor, inbox)
<1>1. /\ pc = "loop" /\ journal = None /\ inbox # None /\ pc' = "work"
      /\ c.offset < Len(inbox.lines)
      /\ inbox.lines[c.offset + 1].text \notin {"torn", "newer"}
      /\ work' = [line |-> inbox.lines[c.offset + 1],
                  next |-> [c EXCEPT !.offset = c.offset + 1]]
      /\ UNCHANGED <<inbox, quarantine, journal, locked, db, stored, cursor,
                     then, active, backlog, appended, written, generation,
                     faults>>
  BY DEF ReadNextRecord, disk, base, helpers
<1>3. c = [gen |-> db.gen, id |-> inbox.id, offset |-> db.offset]
  BY <1>1, CursorIsLevel DEF Inv
<1>4. db.offset \in Nat /\ inbox.lines \in Seq(Lines) /\ inbox.id \in Identities
      /\ db.gen \in Nat \cup {None} /\ Len(inbox.lines) \in Nat
  BY <1>1, Shapes DEF Inv
<1> DEFINE nx == [gen |-> db.gen, id |-> inbox.id, offset |-> db.offset + 1]
<1>5. nx \in InboxCursor
  BY <1>4 DEF InboxCursor
<1>6. c.offset = db.offset /\ [c EXCEPT !.offset = c.offset + 1] = nx
  BY <1>3
<1> HIDE DEF c, nx
<1>7. db.offset < Len(inbox.lines)
      /\ inbox.lines[db.offset + 1].text \notin {"torn", "newer"}
      /\ work' = [line |-> inbox.lines[db.offset + 1], next |-> nx]
  BY <1>1, <1>6
<1>8. inbox.lines[db.offset + 1] \in Lines
  BY <1>4, <1>7
<1>9. work' \in Works /\ work'.line = inbox.lines[db.offset + 1]
      /\ work'.next = nx /\ work' # None
  BY <1>5, <1>7, <1>8, NoneAssumption DEF Works
<1>10. InboxTypeOK'
  BY <1>1, <1>9 DEF Inv, InboxTypeOK
<1>11. ContentInv'
  BY <1>1, ContentStays
<1>12. CursorInv'
  BY <1>1 DEF Inv, CursorInv, InPlace
<1>13. PhaseInv'
  BY <1>1, <1>7, <1>9 DEF Inv, PhaseInv, Guarded, Rotating, nx
<1>14. CaughtUp'
  BY <1>1 DEF Inv, CaughtUp, Rotating
<1> QED BY <1>10, <1>11, <1>12, <1>13, <1>14 DEF Inv

\* ReadUnsupported leaves the cut between stored and unread where it is.
LEMMA UnsupportedKeeps ==
    ASSUME Inv, ReadUnsupported
    PROVE  Inv'
<1> DEFINE c == CursorIn(cursor, inbox)
<1>1. /\ pc = "loop" /\ journal = None /\ inbox # None
      /\ cursor' = c /\ db' \in {db, c}
      /\ UNCHANGED <<inbox, quarantine, journal, locked, stored, pc, work,
                     then, active, backlog, appended, written, generation,
                     faults>>
  BY DEF ReadUnsupported, disk, helpers
<1>2. c = [gen |-> db.gen, id |-> inbox.id, offset |-> db.offset]
      /\ CursorIn(db, inbox) = c
  BY <1>1, CursorIsLevel DEF Inv
<1>3. /\ db.offset \in Nat /\ inbox.id \in Identities /\ inbox.id # None
      /\ db.gen \in Nat \cup {None} /\ Len(inbox.lines) \in Nat
      /\ db \in InboxCursor
  BY <1>1, Shapes DEF Inv
<1>4. c \in InboxCursor /\ c.gen = db.gen /\ c.id = inbox.id
      /\ c.offset = db.offset
  BY <1>2, <1>3 DEF InboxCursor
<1> HIDE DEF c
<1>5. InboxTypeOK'
  BY <1>1, <1>4 DEF Inv, InboxTypeOK
<1>6. InPlace
  BY <1>1 DEF Inv, CursorInv
<1>7. ContentInv'
  <2>1. ~Misplaced(db', inbox) /\ db'.offset = db.offset
    BY <1>1, <1>3, <1>4, <1>6 DEF Misplaced, InPlace
  <2>2. Where' = db.offset /\ Where = db.offset
    BY <1>1, <1>2, <1>4, <2>1 DEF Where, CursorIn
  <2>3. Text' = Text
    BY <1>1 DEF Text
  <2> QED BY <1>1, <2>2, <2>3 DEF Inv, ContentInv
<1>8. CursorInv'
  BY <1>1, <1>3, <1>4, <1>6 DEF Inv, CursorInv, InPlace
<1>9. PhaseInv'
  BY <1>1, <1>4 DEF Inv, PhaseInv, Guarded, Rotating
<1>10. CaughtUp'
  BY <1>1 DEF Inv, CaughtUp, Rotating
<1> QED BY <1>5, <1>7, <1>8, <1>9, <1>10 DEF Inv

\* ProcessRecord moves the cut between stored and unread by one line.
LEMMA ProcessKeeps ==
    ASSUME Inv, ProcessRecord
    PROVE  Inv'
<1>1. /\ pc = "work" /\ pc' = "acked" /\ db' = work.next
      /\ stored' = IF work.line.text = "whole" /\ work.line.n \notin Range(stored)
                   THEN Append(stored, work.line.n) ELSE stored
      /\ UNCHANGED <<inbox, quarantine, journal, locked, cursor, work, then,
                     active, backlog, appended, written, generation, faults>>
  BY DEF ProcessRecord, disk, helpers
<1>2. /\ journal = None /\ inbox # None /\ db.offset < Len(inbox.lines)
      /\ work # None /\ work.line = inbox.lines[db.offset + 1]
      /\ work.line.text \notin {"torn", "newer"}
      /\ work.next = [gen |-> db.gen, id |-> inbox.id,
                      offset |-> db.offset + 1]
  BY <1>1 DEF Inv, PhaseInv
<1>3. /\ db.offset \in Nat /\ inbox.lines \in Seq(Lines)
      /\ inbox.id \in Identities /\ inbox.id # None
      /\ db.gen \in Nat \cup {None} /\ Len(inbox.lines) \in Nat
      /\ work \in Works /\ work.next \in InboxCursor
      /\ stored \in Seq(1..MaxRecords)
      /\ appended \in Nat /\ written \in SUBSET (1..appended)
  BY <1>2, Shapes DEF Inv
<1>4. Text = inbox.lines /\ Where = db.offset
  BY <1>2, WhereIsSpot DEF Inv, Text, Where
<1>5. /\ Content(inbox.lines, db.offset + 1, stored', appended, written)
      /\ stored' \in Seq(1..MaxRecords)
      /\ ToSet(stored) \subseteq ToSet(stored')
  <2> DEFINE ls == inbox.lines
             w == db.offset
  <2>1. Content(ls, w, stored, appended, written)
        /\ ls[w + 1].text \notin {"torn", "newer"}
        /\ ls \in Seq(Lines) /\ w \in Nat /\ w < Len(ls)
    BY <1>2, <1>3, <1>4 DEF Inv, ContentInv
  <2>2. stored' = IF ls[w + 1].text = "whole" /\ ls[w + 1].n \notin Range(stored)
                  THEN Append(stored, ls[w + 1].n) ELSE stored
    BY <1>1, <1>2
  <2>3. stored' = Kept(ls[w + 1], stored)
    BY <2>2 DEF Kept
  <2> HIDE DEF ls, w
  <2>4. /\ Content(ls, w + 1, Kept(ls[w + 1], stored), appended, written)
        /\ Kept(ls[w + 1], stored) \in Seq(1..MaxRecords)
        /\ ToSet(stored) \subseteq ToSet(Kept(ls[w + 1], stored))
    BY <2>1, <1>3, ProcessLine
  <2> QED BY <2>3, <2>4 DEF ls, w
<1>6. /\ db' \in InboxCursor /\ db'.gen = db.gen /\ db'.id = inbox.id
      /\ db'.offset = db.offset + 1
  BY <1>1, <1>2, <1>3
<1>7. InboxTypeOK'
  BY <1>1, <1>5, <1>6 DEF Inv, InboxTypeOK
<1>8. ContentInv'
  <2>1. ~Misplaced(db', inbox)
    BY <1>2, <1>3, <1>6 DEF Misplaced
  <2>2. Text' = inbox.lines /\ Where' = db.offset + 1
    BY <1>1, <1>2, <1>6, <2>1 DEF Text, Where, CursorIn
  <2> QED BY <1>1, <1>5, <2>2 DEF ContentInv
<1>9. CursorInv'
  BY <1>1, <1>2, <1>3, <1>6 DEF Inv, CursorInv, InPlace
<1>10. PhaseInv'
  BY <1>1, <1>2 DEF Inv, PhaseInv, Guarded, Rotating
<1>11. CaughtUp'
  BY <1>1, <1>5 DEF Inv, CaughtUp, Rotating
<1> QED BY <1>7, <1>8, <1>9, <1>10, <1>11 DEF Inv

\* WhereIsSpot in the form that can be stated of the next state.
LEMMA SpotRule ==
    InboxTypeOK /\ CursorInv => Where = Spot
BY WhereIsSpot

\* AppendBatch: a new file cannot be taken for the one the cursor names, and
\* the line being processed does not change.
LEMMA AppendKeeps ==
    ASSUME Inv, AppendBatch
    PROVE  Inv'
<1>1. /\ ~locked /\ appended < MaxRecords /\ appended' = appended + 1
      /\ UNCHANGED <<quarantine, journal, locked, db, stored, pc, cursor, work,
                     then, active, backlog, generation, faults>>
  BY DEF AppendBatch, base, thread
<1>2. PICK t \in {"whole", "newer", "torn"} :
        /\ \/ /\ inbox = None
              /\ \E i \in FreeIdentities :
                   inbox' = [id |-> i, lines |-> <<[n |-> appended + 1,
                                                    text |-> t]>>]
           \/ /\ inbox # None
              /\ inbox' = [inbox EXCEPT !.lines =
                             Append(Ended(inbox.lines),
                                    [n |-> appended + 1, text |-> t])]
        /\ written' = IF t \in Complete THEN written \cup {appended + 1}
                      ELSE written
  BY DEF AppendBatch, Complete
<1>3. /\ appended \in Nat /\ written \in SUBSET (1..appended)
      /\ stored \in Seq(1..MaxRecords) /\ Text \in Seq(Lines)
      /\ appended + 1 <= MaxRecords /\ Where \in Nat /\ Where <= Len(Text)
      /\ Content(Text, Where, stored, appended, written)
      /\ MaxRecords \in Nat
  BY <1>1, Shapes, WhereIsSpot, InboxAssumption DEF Inv, ContentInv
<1> DEFINE nl == Longer(Text, appended, t)
<1>4. /\ Content(nl, Where, stored, appended', written')
      /\ nl \in Seq(Lines) /\ Len(nl) = Len(Text) + 1
      /\ \A j \in 1..Len(Text) : nl[j] = Text[j] \/ Text[j].text = "torn"
  <2>1. written' = More(written, appended, t)
    BY <1>2 DEF More
  <2>2. /\ Content(Longer(Text, appended, t), Where, stored, appended + 1,
                   More(written, appended, t))
        /\ Longer(Text, appended, t) \in Seq(Lines)
        /\ Len(Longer(Text, appended, t)) = Len(Text) + 1
        /\ \A j \in 1..Len(Text) :
             Longer(Text, appended, t)[j] = Text[j] \/ Text[j].text = "torn"
    BY <1>3, AppendLine
  <2> QED BY <1>1, <2>1, <2>2
<1>5. /\ inbox'.lines = nl /\ inbox' \in Files /\ inbox' # None
      /\ inbox = None => inbox'.id \in FreeIdentities
      /\ inbox # None => inbox'.id = inbox.id
  <2>1. CASE inbox = None
    <3>1. PICK i \in FreeIdentities :
            inbox' = [id |-> i, lines |-> <<[n |-> appended + 1, text |-> t]>>]
      BY <1>2, <2>1
    <3>2. nl = <<[n |-> appended + 1, text |-> t]>>
      BY <2>1 DEF Longer, Text, Ended
    <3>3. inbox' = [id |-> i, lines |-> nl] /\ i \in Identities
      BY <3>1, <3>2 DEF FreeIdentities
    <3> HIDE DEF nl
    <3>4. inbox' \in Files /\ inbox'.id = i /\ inbox'.lines = nl
      BY <3>3, <1>4 DEF Files
    <3> QED BY <2>1, <3>4, FileFields
  <2>2. CASE inbox # None
    <3>1. inbox' = [inbox EXCEPT !.lines = nl] /\ inbox \in Files
      BY <1>2, <2>2, Shapes DEF Longer, Text, Inv
    <3> HIDE DEF nl
    <3>2. inbox' \in Files /\ inbox'.id = inbox.id /\ inbox'.lines = nl
      BY <3>1, <1>4 DEF Files
    <3> QED BY <2>2, <3>2, FileFields
  <2> QED BY <2>1, <2>2
<1> HIDE DEF nl
<1>6. /\ inbox = None => Len(inbox'.lines) = 1
      /\ inbox # None => Len(inbox'.lines) = Len(inbox.lines) + 1
                         /\ Len(inbox.lines) \in Nat
  BY <1>4, <1>5, Shapes DEF Text, Inv
<1>7. InboxTypeOK'
  <2>1. appended' \in 0..MaxRecords /\ written' \subseteq 1..appended'
    BY <1>1, <1>2, <1>3
  <2> QED BY <1>1, <1>5, <2>1 DEF Inv, InboxTypeOK
<1>8. CursorInv'
  <2>1. inbox = None /\ quarantine # None => inbox'.id # quarantine.id
    BY <1>5 DEF FreeIdentities
  <2>2. CASE journal = None
    BY <1>1, <1>5, <1>6, <2>2, Shapes DEF Inv, CursorInv, InPlace
  <2>3. CASE journal # None /\ journal.new = None
    BY <1>1, <1>5, <1>6, <2>1, <2>3, Shapes DEF Inv, CursorInv, InPlace
  <2>4. CASE journal # None /\ journal.new # None
    BY <1>1, <1>5, <1>6, <2>1, <2>4, Shapes DEF Inv, CursorInv, InPlace
  <2> QED BY <2>2, <2>3, <2>4
<1>9. ContentInv'
  <2>1. Where' = Spot'
    <3>1. (InboxTypeOK /\ CursorInv => Where = Spot)'
      BY SpotRule, PTL
    <3> QED BY <3>1, <1>7, <1>8
  <2>2. Spot' = Spot
    <3>1. CASE inbox = None /\ journal = None
      <4>1. db.id = None /\ db.offset = 0
        BY <3>1 DEF Inv, CursorInv
      <4> QED BY <3>1, <4>1, <1>1, <1>5 DEF Spot
    <3>2. CASE inbox = None /\ journal # None
      <4>1. /\ journal.new = None /\ quarantine # None
            /\ db.id = quarantine.id /\ db.id # None
        BY <3>2, Shapes DEF Inv, CursorInv
      <4>2. inbox'.id # quarantine.id
        BY <3>2, <4>1, <1>5 DEF FreeIdentities
      <4> QED BY <3>2, <4>1, <4>2, <1>1, <1>5 DEF Spot
    <3>3. CASE inbox # None
      BY <3>3, <1>1, <1>5 DEF Spot
    <3> QED BY <3>1, <3>2, <3>3
  <2>3. Where = Spot
    BY SpotRule DEF Inv
  <2>4. Text' = nl
    BY <1>5 DEF Text
  <2> QED BY <1>1, <1>4, <2>1, <2>2, <2>3, <2>4 DEF ContentInv
<1>10. PhaseInv'
  <2>1. pc = "work" =>
          /\ db.offset < Len(inbox'.lines)
          /\ inbox'.lines[db.offset + 1] = inbox.lines[db.offset + 1]
          /\ inbox'.id = inbox.id
    <3> SUFFICES ASSUME pc = "work"
                 PROVE  /\ db.offset < Len(inbox'.lines)
                        /\ inbox'.lines[db.offset + 1] = inbox.lines[db.offset + 1]
                        /\ inbox'.id = inbox.id
      OBVIOUS
    <3>1. inbox # None /\ db.offset < Len(inbox.lines)
          /\ inbox.lines[db.offset + 1].text \notin {"torn", "newer"}
      BY DEF Inv, PhaseInv
    <3>2. db.offset \in Nat /\ db.offset + 1 \in 1..Len(inbox.lines)
      BY <3>1, <1>6, Shapes DEF Inv
    <3> QED BY <3>1, <3>2, <1>4, <1>5, <1>6 DEF Text
  <2>2. pc \notin Guarded
    BY <1>1 DEF Inv, PhaseInv
  <2> QED BY <1>1, <1>5, <2>1, <2>2 DEF Inv, PhaseInv, Guarded
<1>11. CaughtUp'
  <2>1. written \subseteq written'
    BY <1>2
  <2> QED BY <1>1, <2>1 DEF Inv, CaughtUp
<1> QED BY <1>7, <1>8, <1>9, <1>10, <1>11 DEF Inv

\* Acknowledge brings the cursor in memory up to the checkpoint.
LEMMA AcknowledgeKeeps ==
    ASSUME Inv, Acknowledge
    PROVE  Inv'
<1>1. /\ pc = "acked" /\ pc' = "loop" /\ cursor' = work.next /\ work' = None
      /\ UNCHANGED <<inbox, quarantine, journal, locked, db, stored, then,
                     active, backlog, appended, written, generation, faults>>
  BY DEF Acknowledge, disk, base, helpers
<1>2. journal = None /\ cursor' = db /\ db \in InboxCursor
  BY <1>1, Shapes DEF Inv, PhaseInv
<1>3. InboxTypeOK'
  BY <1>1, <1>2 DEF Inv, InboxTypeOK
<1>4. ContentInv'
  BY <1>1, ContentStays
<1>5. CursorInv'
  BY <1>1 DEF Inv, CursorInv, InPlace
<1>6. PhaseInv'
  BY <1>1, <1>2 DEF Inv, PhaseInv, Guarded, Rotating
<1>7. CaughtUp'
  BY <1>1 DEF Inv, CaughtUp, Rotating
<1> QED BY <1>3, <1>4, <1>5, <1>6, <1>7 DEF Inv

\* ProcessFails leaves the checkpoint and the cursor where they were.
LEMMA ProcessFailsKeeps ==
    ASSUME Inv, ProcessFails
    PROVE  Inv'
<1>1. /\ pc = "work" /\ pc' = "loop" /\ work' = None
      /\ faults < MaxFaults /\ faults' = faults + 1
      /\ UNCHANGED <<inbox, quarantine, journal, locked, db, stored, cursor,
                     then, active, backlog, appended, written, generation>>
  BY DEF ProcessFails, disk, base, helpers
<1>2. journal = None
  BY <1>1 DEF Inv, PhaseInv
<1>3. InboxTypeOK'
  BY <1>1, InboxAssumption DEF Inv, InboxTypeOK
<1>4. ContentInv'
  BY <1>1, ContentStays
<1>5. CursorInv'
  BY <1>1 DEF Inv, CursorInv, InPlace
<1>6. PhaseInv'
  BY <1>1, <1>2 DEF Inv, PhaseInv, Guarded, Rotating
<1>7. CaughtUp'
  BY <1>1 DEF Inv, CaughtUp, Rotating
<1> QED BY <1>3, <1>4, <1>5, <1>6, <1>7 DEF Inv

\* ReachEof: at the end of the file everything written is stored.
LEMMA ReachEofKeeps ==
    ASSUME Inv, ReachEof
    PROVE  Inv'
<1>1. /\ pc = "loop" /\ pc' = "eof" /\ journal = None
      /\ inbox # None => CursorIn(cursor, inbox).offset = Len(inbox.lines)
      /\ UNCHANGED <<inbox, quarantine, journal, locked, db, stored, cursor,
                     work, then, active, backlog, appended, written,
                     generation, faults>>
  BY DEF ReachEof, disk, base, helpers
<1>2. inbox # None => CursorIn(db, inbox) = CursorIn(cursor, inbox)
  BY <1>1, CursorIsLevel DEF Inv
<1>3. backlog \subseteq ToSet(stored)
  <2>1. Where = Len(Text)
    BY <1>1, <1>2 DEF Where, Text
  <2>2. /\ Text \in Seq(Lines) /\ appended \in Nat
        /\ stored \in Seq(1..MaxRecords) /\ written \in SUBSET (1..appended)
    BY Shapes DEF Inv
  <2>3. Content(Text, Len(Text), stored, appended, written)
    BY <2>1 DEF Inv, ContentInv
  <2>4. written \subseteq ToSet(stored)
    BY <2>2, <2>3, AllRead
  <2> QED BY <2>4 DEF Inv, CaughtUp
<1>4. InboxTypeOK'
  BY <1>1 DEF Inv, InboxTypeOK
<1>5. ContentInv'
  BY <1>1, ContentStays
<1>6. CursorInv'
  BY <1>1 DEF Inv, CursorInv, InPlace
<1>7. PhaseInv'
  BY <1>1, <1>2 DEF Inv, PhaseInv, Guarded, Rotating
<1>8. CaughtUp'
  BY <1>1, <1>3 DEF Inv, CaughtUp, Rotating
<1> QED BY <1>4, <1>5, <1>6, <1>7, <1>8 DEF Inv

\* RotateSegment journals a segment whose end is the checkpoint.
LEMMA RotateKeeps ==
    ASSUME Inv, RotateSegment
    PROVE  Inv'
<1>1. /\ pc = "eof" /\ cursor.offset > 0 /\ ~locked /\ AtEof
      /\ generation' = generation + 1 /\ locked' = TRUE /\ then' = "eof"
      /\ journal' = [gen |-> generation + 1, new |-> None, old |-> inbox.id,
                     eof |-> cursor.offset]
      /\ pc' = "rename"
      /\ UNCHANGED <<inbox, quarantine, db, stored, cursor, work, active,
                     backlog, appended, written, faults>>
  BY DEF RotateSegment, base, helpers
<1>2. /\ journal = None /\ cursor.offset = db.offset
      /\ inbox # None /\ quarantine = None
      /\ InPlace /\ Len(inbox.lines) = db.offset /\ db.offset > 0
      /\ db.id = None => db.offset = 0
  BY <1>1 DEF Inv, PhaseInv, CursorInv, AtEof
<1>3. /\ db.offset \in Nat /\ inbox.id \in Identities /\ generation \in Nat
      /\ db.gen \in Nat \cup {None} /\ inbox.id # None
  BY <1>2, Shapes DEF Inv
<1>4. db.id = inbox.id
  BY <1>2, <1>3 DEF InPlace
<1>5. /\ journal' \in MaintenanceJournal /\ journal' # None
      /\ journal'.gen = generation + 1 /\ journal'.new = None
      /\ journal'.old = inbox.id /\ journal'.eof = db.offset
  <2>1. journal' \in MaintenanceJournal
    BY <1>1, <1>2, <1>3 DEF MaintenanceJournal
  <2> QED BY <1>1, <1>2, <2>1, JournalFields
<1>6. InboxTypeOK'
  BY <1>1, <1>3, <1>5 DEF Inv, InboxTypeOK, Rotating
<1>7. ContentInv'
  BY <1>1, ContentStays
<1>8. CursorInv'
  <2>1. db.gen # None => db.gen <= generation /\ db.gen \in Nat
    BY <1>3 DEF Inv, CursorInv
  <2>2. db.gen # generation + 1 /\ (db.gen # None => db.gen <= generation + 1)
    BY <1>3, <2>1, InboxAssumption
  <2> QED BY <1>1, <1>2, <1>3, <1>4, <1>5, <2>2 DEF Inv, CursorInv
<1>9. PhaseInv'
  BY <1>1, <1>2, <1>5 DEF Inv, PhaseInv, Guarded, Rotating
<1>10. CaughtUp'
  BY <1>1 DEF Inv, CaughtUp
<1> QED BY <1>6, <1>7, <1>8, <1>9, <1>10 DEF Inv

\* LeaveSegment activates the finalizer at the end of the file.
LEMMA LeaveKeeps ==
    ASSUME Inv, LeaveSegment
    PROVE  Inv'
<1>1. /\ pc = "eof" /\ pc' = "loop" /\ active' = TRUE
      /\ UNCHANGED <<inbox, quarantine, journal, locked, db, stored, cursor,
                     work, then, backlog, appended, written, generation,
                     faults>>
  BY DEF LeaveSegment, disk, base, helpers
<1>2. InboxTypeOK'
  BY <1>1 DEF Inv, InboxTypeOK
<1>3. ContentInv'
  BY <1>1, ContentStays
<1>4. CursorInv'
  BY <1>1 DEF Inv, CursorInv, InPlace
<1>5. PhaseInv'
  BY <1>1 DEF Inv, PhaseInv, Guarded, Rotating
<1>6. CaughtUp'
  BY <1>1 DEF Inv, CaughtUp
<1> QED BY <1>2, <1>3, <1>4, <1>5, <1>6 DEF Inv

\* Rename takes away a file that has been read to its end.
LEMMA RenameKeeps ==
    ASSUME Inv, Rename
    PROVE  Inv'
<1>1. /\ pc = "rename" /\ pc' = "create" /\ quarantine' = inbox /\ inbox' = None
      /\ UNCHANGED <<journal, locked, db, stored, cursor, work, then, active,
                     backlog, appended, written, generation, faults>>
  BY DEF Rename, base, helpers
<1>2. /\ journal # None /\ journal.new = None /\ quarantine = None
      /\ Len(inbox.lines) = journal.eof
  BY <1>1 DEF Inv, PhaseInv, Rotating
<1>3. /\ inbox # None /\ inbox.id = journal.old
      /\ db.id = inbox.id /\ db.offset = Len(inbox.lines)
      /\ db.gen # generation /\ db.id = journal.old /\ db.offset = journal.eof
      /\ journal.gen = generation
  BY <1>2 DEF Inv, CursorInv
<1>4. Content(<<>>, 0, stored, appended, written)
  <2>1. Where = Len(Text)
    BY <1>3, SpotRule DEF Inv, Spot, Text
  <2>2. /\ Text \in Seq(Lines) /\ appended \in Nat
        /\ stored \in Seq(1..MaxRecords) /\ written \in SUBSET (1..appended)
    BY Shapes DEF Inv
  <2>3. Content(Text, Len(Text), stored, appended, written)
    BY <2>1 DEF Inv, ContentInv
  <2> QED BY <2>2, <2>3, AllRead
<1>5. InboxTypeOK'
  BY <1>1 DEF Inv, InboxTypeOK, Rotating
<1>6. ContentInv'
  BY <1>1, <1>4 DEF ContentInv, Text, Where
<1>7. CursorInv'
  BY <1>1, <1>2, <1>3 DEF Inv, CursorInv
<1>8. PhaseInv'
  BY <1>1, <1>2 DEF Inv, PhaseInv, Guarded, Rotating
<1>9. CaughtUp'
  BY <1>1 DEF Inv, CaughtUp, Rotating
<1> QED BY <1>5, <1>6, <1>7, <1>8, <1>9 DEF Inv

\* CreateNewInbox: the new identity is not the one the cursor names.
LEMMA CreateKeeps ==
    ASSUME Inv, CreateNewInbox
    PROVE  Inv'
<1>1. /\ pc = "create" /\ pc' = "identify"
      /\ UNCHANGED <<quarantine, journal, locked, db, stored, cursor, work,
                     then, active, backlog, appended, written, generation,
                     faults>>
  BY DEF CreateNewInbox, base, helpers
<1>2. PICK i \in FreeIdentities : inbox' = [id |-> i, lines |-> <<>>]
  BY DEF CreateNewInbox
<1>3. journal # None /\ inbox = None
  BY <1>1 DEF Inv, PhaseInv, Rotating
<1>4. /\ journal.new = None /\ quarantine # None /\ db.id = quarantine.id
      /\ quarantine.id # None
  BY <1>3, Shapes DEF Inv, CursorInv
<1>5. /\ inbox' \in Files /\ inbox' # None /\ inbox'.id = i
      /\ inbox'.lines = <<>> /\ i # quarantine.id
  <2>1. i \in Identities /\ i # quarantine.id
    BY <1>4 DEF FreeIdentities
  <2>2. inbox' \in Files
    BY <1>2, <2>1 DEF Files
  <2> QED BY <1>2, <2>1, <2>2, FileFields
<1>6. InboxTypeOK'
  BY <1>1, <1>5 DEF Inv, InboxTypeOK, Rotating
<1>7. CursorInv'
  BY <1>1, <1>3, <1>4, <1>5 DEF Inv, CursorInv
<1>8. ContentInv'
  <2>1. (InboxTypeOK /\ CursorInv => Where = Spot)'
    BY SpotRule, PTL
  <2>2. Where' = 0
    BY <2>1, <1>1, <1>4, <1>5, <1>6, <1>7 DEF Spot
  <2>3. Text' = Text /\ Where = 0
    BY <1>3, <1>5 DEF Text, Where
  <2> QED BY <1>1, <2>2, <2>3 DEF Inv, ContentInv
<1>9. PhaseInv'
  BY <1>1, <1>3, <1>4, <1>5 DEF Inv, PhaseInv, Guarded, Rotating
<1>10. CaughtUp'
  BY <1>1 DEF Inv, CaughtUp, Rotating
<1> QED BY <1>6, <1>7, <1>8, <1>9, <1>10 DEF Inv

\* Identify journals the new file while the cursor still names the old one.
LEMMA IdentifyKeeps ==
    ASSUME Inv, Identify
    PROVE  Inv'
<1>1. /\ pc = "identify" /\ pc' = "checkpoint" /\ locked' = FALSE
      /\ journal' = [journal EXCEPT !.new = inbox.id]
      /\ UNCHANGED <<inbox, quarantine, db, stored, cursor, work, then, active,
                     backlog, appended, written, generation, faults>>
  BY DEF Identify, base, helpers
<1>2. journal # None /\ journal.new = None /\ quarantine # None /\ inbox # None
  BY <1>1 DEF Inv, PhaseInv, Rotating
<1>3. /\ db.gen # generation /\ db.id = journal.old
      /\ quarantine.id = journal.old /\ inbox.id # quarantine.id
      /\ journal.gen = generation
  BY <1>2 DEF Inv, CursorInv
<1>4. /\ journal \in MaintenanceJournal /\ inbox.id \in Identities
      /\ inbox.id # None
  BY <1>2, Shapes DEF Inv
<1>5. /\ journal' \in MaintenanceJournal /\ journal' # None
      /\ journal'.new = inbox.id /\ journal'.gen = journal.gen
      /\ journal'.old = journal.old /\ journal'.eof = journal.eof
  <2>1. journal' \in MaintenanceJournal
    BY <1>1, <1>4 DEF MaintenanceJournal
  <2>2. /\ journal'.new = inbox.id /\ journal'.gen = journal.gen
        /\ journal'.old = journal.old /\ journal'.eof = journal.eof
    BY <1>1, <1>4 DEF MaintenanceJournal
  <2> QED BY <2>1, <2>2, JournalFields
<1>6. InboxTypeOK'
  BY <1>1, <1>5 DEF Inv, InboxTypeOK, Rotating
<1>7. ContentInv'
  BY <1>1, ContentStays
<1>8. CursorInv'
  BY <1>1, <1>2, <1>3, <1>4, <1>5 DEF Inv, CursorInv
<1>9. PhaseInv'
  BY <1>1, <1>2, <1>4, <1>5 DEF Inv, PhaseInv, Guarded, Rotating
<1>10. CaughtUp'
  BY <1>1 DEF Inv, CaughtUp, Rotating
<1> QED BY <1>6, <1>7, <1>8, <1>9, <1>10 DEF Inv

\* Checkpoint moves the cursor to the start of the new file, once.
LEMMA CheckpointKeeps ==
    ASSUME Inv, Checkpoint
    PROVE  Inv'
<1>1. /\ pc = "checkpoint" /\ pc' = "finish"
      /\ db' = IF db.gen = journal.gen THEN db
               ELSE [gen |-> journal.gen, id |-> journal.new, offset |-> 0]
      /\ UNCHANGED <<inbox, quarantine, journal, locked, stored, cursor, work,
                     then, active, backlog, appended, written, generation,
                     faults>>
  BY DEF Checkpoint, disk, helpers
<1>2. journal # None /\ journal.new # None
  BY <1>1 DEF Inv, PhaseInv, Rotating
<1>3. /\ journal.gen = generation /\ inbox # None /\ inbox.id = journal.new
      /\ quarantine # None => inbox.id # quarantine.id
  BY <1>2 DEF Inv, CursorInv
<1>4. generation \in Nat /\ journal.new \in Identities /\ db \in InboxCursor
  BY <1>2, Shapes DEF Inv
<1>5. CASE db.gen = generation
  <2>1. db' = db
    BY <1>1, <1>3, <1>5
  <2>2. InboxTypeOK'
    BY <1>1, <2>1 DEF Inv, InboxTypeOK, Rotating
  <2>3. ContentInv'
    BY <1>1, <2>1, ContentStays
  <2>4. CursorInv'
    BY <1>1, <2>1 DEF Inv, CursorInv, InPlace
  <2>5. PhaseInv'
    BY <1>1, <1>2, <1>5, <2>1 DEF Inv, PhaseInv, Guarded, Rotating
  <2>6. CaughtUp'
    BY <1>1 DEF Inv, CaughtUp, Rotating
  <2> QED BY <2>2, <2>3, <2>4, <2>5, <2>6 DEF Inv
<1>6. CASE db.gen # generation
  <2>1. /\ db' = [gen |-> generation, id |-> journal.new, offset |-> 0]
        /\ db'.gen = generation /\ db'.id = journal.new /\ db'.offset = 0
    BY <1>1, <1>3, <1>6
  <2>2. db' \in InboxCursor
    BY <1>4, <2>1 DEF InboxCursor
  <2>3. InboxTypeOK'
    BY <1>1, <2>2 DEF Inv, InboxTypeOK, Rotating
  <2>4. CursorInv'
    BY <1>1, <1>2, <1>3, <1>4, <2>1, InboxAssumption DEF Inv, CursorInv
  <2>5. ContentInv'
    <3>1. (InboxTypeOK /\ CursorInv => Where = Spot)'
      BY SpotRule, PTL
    <3>2. Where' = 0
      BY <3>1, <1>1, <2>1, <2>3, <2>4 DEF Spot
    <3>3. db.id # None /\ db.id # inbox.id
      BY <1>2, <1>3, <1>6, Shapes DEF Inv, CursorInv
    <3>4. Where = 0
      BY <3>3, SpotRule DEF Inv, Spot
    <3>5. Text' = Text
      BY <1>1 DEF Text
    <3> QED BY <1>1, <3>2, <3>4, <3>5 DEF Inv, ContentInv
  <2>6. PhaseInv'
    BY <1>1, <1>2, <2>1 DEF Inv, PhaseInv, Guarded, Rotating
  <2>7. CaughtUp'
    BY <1>1 DEF Inv, CaughtUp, Rotating
  <2> QED BY <2>3, <2>4, <2>5, <2>6, <2>7 DEF Inv
<1> QED BY <1>5, <1>6

\* EraseQuarantine: the cursor no longer names the erased segment.
LEMMA EraseKeeps ==
    ASSUME Inv, EraseQuarantine
    PROVE  Inv'
<1>1. /\ pc = "finish" /\ pc' = "unlink" /\ locked' = TRUE /\ quarantine' = None
      /\ UNCHANGED <<inbox, journal, db, stored, cursor, work, then, active,
                     backlog, appended, written, generation, faults>>
  BY DEF EraseQuarantine, base, helpers
<1>2. journal # None /\ journal.new # None /\ db.gen = generation
  BY <1>1 DEF Inv, PhaseInv, Rotating
<1>3. InboxTypeOK'
  BY <1>1 DEF Inv, InboxTypeOK, Rotating
<1>4. ContentInv'
  BY <1>1, ContentStays
<1>5. CursorInv'
  BY <1>1, <1>2 DEF Inv, CursorInv
<1>6. PhaseInv'
  BY <1>1, <1>2 DEF Inv, PhaseInv, Guarded, Rotating
<1>7. CaughtUp'
  BY <1>1 DEF Inv, CaughtUp, Rotating
<1> QED BY <1>3, <1>4, <1>5, <1>6, <1>7 DEF Inv

\* RemoveJournal leaves the cursor in place in the new file.
LEMMA RemoveJournalKeeps ==
    ASSUME Inv, RemoveJournal
    PROVE  Inv'
<1>1. /\ pc = "unlink" /\ pc' = "loop" /\ locked' = FALSE /\ journal' = None
      /\ cursor' = db /\ active' = (active \/ then = "eof")
      /\ UNCHANGED <<inbox, quarantine, db, stored, work, then, backlog,
                     appended, written, generation, faults>>
  BY DEF RemoveJournal, base, helpers
<1>2. /\ journal # None /\ journal.new # None /\ db.gen = generation
      /\ quarantine = None
  BY <1>1 DEF Inv, PhaseInv, Rotating
<1>3. /\ inbox # None /\ db.id = inbox.id /\ db.offset = 0
      /\ Len(inbox.lines) \in Nat
  BY <1>2, Shapes DEF Inv, CursorInv
<1>4. InboxTypeOK'
  BY <1>1 DEF Inv, InboxTypeOK
<1>5. ContentInv'
  BY <1>1, ContentStays
<1>6. CursorInv'
  BY <1>1, <1>2, <1>3 DEF Inv, CursorInv, InPlace
<1>7. PhaseInv'
  BY <1>1, <1>2 DEF Inv, PhaseInv, Guarded, Rotating
<1>8. CaughtUp'
  BY <1>1 DEF Inv, CaughtUp, Rotating
<1> QED BY <1>4, <1>5, <1>6, <1>7, <1>8 DEF Inv

\* ResumeRotation goes on at a step whose conditions hold.
LEMMA ResumeKeeps ==
    ASSUME Inv, ResumeRotation
    PROVE  Inv'
<1>1. /\ pc = "loop" /\ journal # None /\ ~locked /\ ResumeAt \in Rotating
      /\ pc' = ResumeAt /\ locked' = (ResumeAt # "checkpoint")
      /\ then' = "loop"
      /\ UNCHANGED <<inbox, quarantine, journal, db, stored, cursor, work,
                     active, backlog, appended, written, generation, faults>>
  BY DEF ResumeRotation, base, helpers
<1>2. /\ ResumeAt \in {"rename", "create", "checkpoint", "identify"}
      /\ ResumeAt = "rename" => /\ journal.new = None /\ quarantine = None
                                /\ Len(inbox.lines) = journal.eof
      /\ ResumeAt = "create" => inbox = None
      /\ ResumeAt = "checkpoint" => journal.new # None
      /\ ResumeAt = "identify" =>
           journal.new = None /\ quarantine # None /\ inbox # None
  <2>1. CASE journal.new = None /\ quarantine = None
    <3>1. inbox # None /\ Len(inbox.lines) \in Nat /\ journal.eof \in Nat
      BY <1>1, <2>1, Shapes DEF Inv, CursorInv
    <3> QED BY <1>1, <2>1, <3>1 DEF ResumeAt, Rotating
  <2>2. CASE journal.new = None /\ quarantine # None
    <3>1. inbox # None => inbox.id # None
      BY Shapes DEF Inv
    <3> QED BY <1>1, <2>2, <3>1 DEF ResumeAt, Rotating
  <2>3. CASE journal.new # None
    <3>1. inbox # None /\ inbox.id = journal.new
      BY <1>1, <2>3 DEF Inv, CursorInv
    <3> QED BY <2>3, <3>1 DEF ResumeAt
  <2> QED BY <2>1, <2>2, <2>3
<1>3. InboxTypeOK'
  BY <1>1, <1>2 DEF Inv, InboxTypeOK, Rotating
<1>4. ContentInv'
  BY <1>1, ContentStays
<1>5. CursorInv'
  BY <1>1 DEF Inv, CursorInv, InPlace
<1>6. PhaseInv'
  BY <1>1, <1>2 DEF Inv, PhaseInv, Guarded, Rotating
<1>7. CaughtUp'
  BY <1>1, <1>2 DEF Inv, CaughtUp
<1> QED BY <1>3, <1>4, <1>5, <1>6, <1>7 DEF Inv

\* AbandonRotation: the journalled end is still within the grown file.
LEMMA AbandonKeeps ==
    ASSUME Inv, AbandonRotation
    PROVE  Inv'
<1>1. /\ pc = "loop" /\ journal # None /\ ~locked /\ ResumeAt = "abandon"
      /\ journal' = None /\ cursor' = db
      /\ UNCHANGED <<inbox, quarantine, locked, db, stored, pc, work, then,
                     active, backlog, appended, written, generation, faults>>
  BY DEF AbandonRotation, base, helpers
<1>2. /\ journal.new = None /\ quarantine = None /\ inbox # None
      /\ Len(inbox.lines) > journal.eof /\ inbox.id = journal.old
  BY <1>1 DEF ResumeAt
<1>3. db.id = inbox.id /\ db.offset = journal.eof
      /\ Len(inbox.lines) >= journal.eof
  BY <1>1, <1>2 DEF Inv, CursorInv
<1>4. db.offset <= Len(inbox.lines) /\ db \in InboxCursor
  BY <1>1, <1>2, <1>3, Shapes DEF Inv
<1>5. InboxTypeOK'
  BY <1>1, <1>4 DEF Inv, InboxTypeOK
<1>6. ContentInv'
  BY <1>1, ContentStays
<1>7. CursorInv'
  BY <1>1, <1>2, <1>3, <1>4 DEF Inv, CursorInv, InPlace
<1>8. PhaseInv'
  BY <1>1 DEF Inv, PhaseInv, Guarded, Rotating
<1>9. CaughtUp'
  BY <1>1 DEF Inv, CaughtUp
<1> QED BY <1>5, <1>6, <1>7, <1>8, <1>9 DEF Inv

\* RotationFails releases the lock and leaves the journal.
LEMMA RotationFailsKeeps ==
    ASSUME Inv, RotationFails
    PROVE  Inv'
<1>1. /\ pc \in Rotating /\ pc' = "loop" /\ locked' = FALSE
      /\ faults < MaxFaults /\ faults' = faults + 1
      /\ active' = (active \/ then = "eof")
      /\ UNCHANGED <<inbox, quarantine, journal, db, stored, cursor, work, then,
                     backlog, appended, written, generation>>
  BY DEF RotationFails, base, helpers
<1>2. journal # None
  BY <1>1 DEF Inv, PhaseInv
<1>3. InboxTypeOK'
  <2>1. faults' \in 0..MaxFaults
    BY <1>1, InboxAssumption DEF Inv, InboxTypeOK
  <2>2. locked' \in BOOLEAN /\ active' \in BOOLEAN
    BY <1>1 DEF Inv, InboxTypeOK
  <2> QED BY <1>1, <2>1, <2>2 DEF Inv, InboxTypeOK
<1>4. ContentInv'
  BY <1>1, ContentStays
<1>5. CursorInv'
  BY <1>1 DEF Inv, CursorInv, InPlace
<1>6. PhaseInv'
  BY <1>1, <1>2 DEF Inv, PhaseInv, Guarded, Rotating
<1>7. CaughtUp'
  BY <1>1 DEF Inv, CaughtUp
<1> QED BY <1>3, <1>4, <1>5, <1>6, <1>7 DEF Inv

\* Crash loses only what the source thread held in memory.
LEMMA CrashKeeps ==
    ASSUME Inv, Crash
    PROVE  Inv'
<1>1. /\ pc' = "down" /\ locked' = FALSE /\ work' = None /\ active' = FALSE
      /\ faults < MaxFaults /\ faults' = faults + 1
      /\ UNCHANGED <<inbox, quarantine, journal, db, stored, cursor, then,
                     backlog, appended, written, generation>>
  BY DEF Crash, base, helpers
<1>2. InboxTypeOK'
  <2>1. faults' \in 0..MaxFaults
    BY <1>1, InboxAssumption DEF Inv, InboxTypeOK
  <2>2. locked' \in BOOLEAN /\ active' \in BOOLEAN
    BY <1>1 DEF Inv, InboxTypeOK
  <2> QED BY <1>1, <2>1, <2>2 DEF Inv, InboxTypeOK
<1>3. ContentInv'
  BY <1>1, ContentStays
<1>4. CursorInv'
  BY <1>1 DEF Inv, CursorInv, InPlace
<1>5. PhaseInv'
  BY <1>1 DEF PhaseInv, Guarded, Rotating
<1>6. CaughtUp'
  BY <1>1 DEF Inv, CaughtUp, Rotating
<1> QED BY <1>2, <1>3, <1>4, <1>5, <1>6 DEF Inv

\* A step that changes nothing keeps the invariant.
LEMMA StutterKeeps ==
    ASSUME Inv, UNCHANGED vars
    PROVE  Inv'
<1>1. UNCHANGED <<inbox, quarantine, journal, locked, db, stored, pc, cursor,
                  work, then, active, backlog, appended, written, generation,
                  faults>>
  BY DEF vars, disk, base, thread, helpers
<1>2. InboxTypeOK'
  BY <1>1 DEF Inv, InboxTypeOK
<1>3. ContentInv'
  BY <1>1, ContentStays
<1>4. CursorInv' /\ PhaseInv' /\ CaughtUp'
  BY <1>1 DEF Inv, CursorInv, InPlace, PhaseInv, CaughtUp
<1> QED BY <1>2, <1>3, <1>4 DEF Inv

-----------------------------------------------------------------------------
(* The theorems.                                                           *)

\* The initial states satisfy the invariant.
LEMMA InitHolds ==
    ASSUME Init
    PROVE  Inv
<1>1. InboxTypeOK
  <2>1. Origin \in InboxCursor
    BY DEF Origin, InboxCursor
  <2>2. <<>> \in Seq(1..MaxRecords) /\ 0 \in 0..MaxRecords /\ 0 \in 0..MaxFaults
    BY InboxAssumption
  <2> QED BY <2>1, <2>2 DEF Init, InboxTypeOK
<1>2. ContentInv
  <2>1. Text = <<>> /\ Where = 0
    BY DEF Init, Text, Where
  <2>2. Content(<<>>, 0, <<>>, 0, {})
    BY DEF Content, Numbered, Ascending
  <2> QED BY <2>1, <2>2 DEF Init, ContentInv
<1>3. CursorInv
  BY DEF Init, CursorInv, Origin
<1>4. PhaseInv
  BY DEF Init, PhaseInv, Guarded, Rotating
<1>5. CaughtUp
  BY DEF Init, CaughtUp, Rotating
<1> QED BY <1>1, <1>2, <1>3, <1>4, <1>5 DEF Inv

\* The invariant holds throughout: every step of the helpers, the source thread
\* and the worker, failures and crashes included, preserves it.
THEOREM Invariance == Spec => []Inv
<1>1. Inv /\ [Next]_vars => Inv'
  BY AppendKeeps, StartKeeps, ReadKeeps, UnsupportedKeeps, ProcessKeeps,
     AcknowledgeKeeps,
     ProcessFailsKeeps, ReachEofKeeps, RotateKeeps, LeaveKeeps, RenameKeeps,
     CreateKeeps, IdentifyKeeps, CheckpointKeeps, EraseKeeps,
     RemoveJournalKeeps, ResumeKeeps, AbandonKeeps, RotationFailsKeeps,
     CrashKeeps, StutterKeeps
     DEF Next, Step
<1> QED BY <1>1, InitHolds, PTL DEF Spec

\* Type correctness of the event inbox.
THEOREM InboxTypeCorrect == Spec => []InboxTypeOK
<1>1. Inv => InboxTypeOK
  BY DEF Inv
<1> QED BY <1>1, Invariance, PTL

\* No completely written event is lost: it is stored, or it lies behind the
\* checkpointed cursor in the file that the next reader opens, whichever step
\* of a rotation was interrupted (rotate_segment, resume_rotation_locked).
THEOREM NothingIsLost == Spec => []NoRecordLost
<1>1. ASSUME Inv PROVE NoRecordLost
  <2> SUFFICES ASSUME NEW n \in written
               PROVE  n \in ToSet(stored) \/ n \in Unread
    BY DEF NoRecordLost
  <2>1. \/ \E k \in 1..Len(stored) : stored[k] = n
        \/ \E j \in 1..Len(Text) : j > Where /\ Text[j].n = n
    BY <1>1 DEF Inv, ContentInv, Content
  <2>2. CASE \E k \in 1..Len(stored) : stored[k] = n
    <3>1. stored \in Seq(1..MaxRecords)
      BY <1>1, Shapes DEF Inv
    <3> QED BY <2>2, <3>1 DEF ToSet
  <2>3. ASSUME NEW j \in 1..Len(Text), j > Where, Text[j].n = n
        PROVE  n \in Unread
    <3>1. inbox # None
      <4>1. inbox = None => Len(Text) = 0
        BY DEF Text
      <4> QED BY <4>1
    <3>2. inbox.lines \in Seq(Lines)
      BY <1>1, <3>1, Shapes DEF Inv
    <3>3. Text = inbox.lines /\ Where = CursorIn(db, inbox).offset
      BY <3>1 DEF Text, Where
    <3>4. j \in DOMAIN inbox.lines /\ j > CursorIn(db, inbox).offset
          /\ inbox.lines[j].n = n
      BY <2>3, <3>2, <3>3
    <3> QED BY <3>1, <3>4 DEF Unread
  <2> QED BY <2>1, <2>2, <2>3
<1>2. Inv => NoRecordLost
  BY <1>1
<1> QED BY <1>2, Invariance, PTL

\* Events are stored in the order they were written, and a line handed to the
\* worker is newer than everything stored (process_record, run_inbox_source).
THEOREM EventsAreReadInOrder == Spec => []ReadInOrder
<1>1. ASSUME Inv PROVE ReadInOrder
  <2>1. DOMAIN stored = 1..Len(stored)
    BY <1>1, Shapes DEF Inv
  <2>2. \A j, k \in DOMAIN stored : j < k => stored[j] < stored[k]
    BY <1>1, <2>1 DEF Inv, ContentInv, Content, Ascending
  <2>3. ASSUME pc = "work", NEW k \in DOMAIN stored
        PROVE  stored[k] < work.line.n
    <3>1. /\ journal = None /\ inbox # None /\ db.offset < Len(inbox.lines)
          /\ work.line = inbox.lines[db.offset + 1]
      BY <1>1, <2>3 DEF Inv, PhaseInv
    <3>2. db.offset \in Nat /\ Len(inbox.lines) \in Nat
      BY <1>1, <3>1, Shapes DEF Inv
    <3>3. Text = inbox.lines /\ Where = db.offset
      BY <1>1, <3>1, WhereIsSpot DEF Inv, Text, Where
    <3>4. /\ db.offset + 1 \in 1..Len(Text) /\ db.offset + 1 > Where
          /\ k \in 1..Len(stored)
      BY <2>1, <3>1, <3>2, <3>3
    <3>5. stored[k] < Text[db.offset + 1].n
      BY <1>1, <3>4 DEF Inv, ContentInv, Content
    <3> QED BY <3>1, <3>3, <3>5
  <2> QED BY <2>2, <2>3 DEF ReadInOrder
<1>2. Inv => ReadInOrder
  BY <1>1
<1> QED BY <1>2, Invariance, PTL

\* The finalizer is active only when the events that waited at the start are
\* stored (on_caught_up).
THEOREM ActivationIsCaughtUp == Spec => []ActivatedCaughtUp
<1>1. Inv => ActivatedCaughtUp
  BY DEF Inv, CaughtUp, ActivatedCaughtUp
<1> QED BY <1>1, Invariance, PTL

-----------------------------------------------------------------------------
(* The inbox is a queue.  Under the invariant the events that wait in the  *)
(* file are the written ones that are not stored, whatever file and cursor *)
(* are in place; so only the helpers and the worker move the queue.        *)

\* The waiting events in terms of the content.
LEMMA WaitingLines ==
    Inv => \A n : n \in Waiting <=>
             \E j \in 1..Len(Text) :
                j > Where /\ Text[j].text \in Complete /\ Text[j].n = n
<1> SUFFICES ASSUME Inv, NEW n
             PROVE  n \in Waiting <=>
                      \E j \in 1..Len(Text) :
                        j > Where /\ Text[j].text \in Complete /\ Text[j].n = n
  OBVIOUS
<1>1. CASE inbox = None
  <2>1. Text = <<>> /\ Waiting = {}
    BY <1>1 DEF Text, Waiting
  <2>2. Len(Text) = 0
    BY <2>1
  <2> QED BY <2>1, <2>2
<1>2. CASE inbox # None
  <2>1. /\ Text = inbox.lines /\ Where = CursorIn(db, inbox).offset
        /\ DOMAIN inbox.lines = 1..Len(Text)
    BY <1>2, Shapes DEF Inv, Text, Where
  <2> QED BY <1>2, <2>1 DEF Waiting
<1> QED BY <1>1, <1>2

\* The elements of the stored sequence.
LEMMA StoredSet ==
    Inv => \A n : n \in ToSet(stored) <=> \E k \in 1..Len(stored) : stored[k] = n
<1>1. ASSUME Inv PROVE DOMAIN stored = 1..Len(stored)
  BY <1>1, Shapes DEF Inv
<1> QED BY <1>1 DEF ToSet

\* What waits is what was written and is not stored.
LEMMA WaitingIsUnstored == Inv => Waiting = written \ ToSet(stored)
<1> SUFFICES ASSUME Inv, NEW n
             PROVE  n \in Waiting <=> n \in written /\ n \notin ToSet(stored)
  OBVIOUS
<1>1. Content(Text, Where, stored, appended, written)
  BY DEF Inv, ContentInv
<1>2. /\ stored \in Seq(1..MaxRecords) /\ Text \in Seq(Lines)
  BY Shapes DEF Inv
<1>3. /\ \A k \in 1..Len(stored) : stored[k] \in Nat
      /\ \A j \in 1..Len(Text) : Text[j].n \in Nat
  <2>1. /\ \A k \in 1..Len(stored) : stored[k] \in 1..MaxRecords
        /\ \A j \in 1..Len(Text) : Text[j] \in Lines
    BY <1>2, ElementsIn
  <2> QED BY <2>1, LineFields, InboxAssumption
<1>4. ASSUME NEW j \in 1..Len(Text), j > Where, Text[j].text \in Complete,
             Text[j].n = n
      PROVE  n \in written /\ n \notin ToSet(stored)
  <2>1. n \in written
    BY <1>1, <1>4 DEF Content, Numbered
  <2>2. \A k \in 1..Len(stored) : stored[k] < n
    BY <1>1, <1>4 DEF Content
  <2> QED BY <1>3, <1>4, <2>1, <2>2, StoredSet
<1>5. ASSUME n \in written, n \notin ToSet(stored)
      PROVE  \E j \in 1..Len(Text) :
               j > Where /\ Text[j].text \in Complete /\ Text[j].n = n
  <2>1. PICK j \in 1..Len(Text) : j > Where /\ Text[j].n = n
    BY <1>1, <1>5, StoredSet DEF Content
  <2> QED BY <1>1, <1>5, <2>1 DEF Content, Numbered
<1> QED BY <1>4, <1>5, WaitingLines

\* The events of a newer release in terms of the content.
LEMMA NewerLines ==
    InboxTypeOK => \A n : n \in Newer <=>
             \E j \in 1..Len(Text) : Text[j].text = "newer" /\ Text[j].n = n
<1> SUFFICES ASSUME InboxTypeOK, NEW n
             PROVE  n \in Newer <=>
               \E j \in 1..Len(Text) : Text[j].text = "newer" /\ Text[j].n = n
  OBVIOUS
<1>1. CASE inbox = None
  <2>1. Text = <<>> /\ Newer = {}
    BY <1>1 DEF Text, Newer
  <2>2. Len(Text) = 0
    BY <2>1
  <2> QED BY <2>1, <2>2
<1>2. CASE inbox # None
  <2>1. Text = inbox.lines /\ DOMAIN inbox.lines = 1..Len(Text)
    BY <1>2, Shapes DEF Text
  <2>2. n \in Newer <=> \E l \in Range(Text) : l.text = "newer" /\ l.n = n
    BY <1>2, <2>1 DEF Newer
  <2> QED BY <2>1, <2>2 DEF Range
<1> QED BY <1>1, <1>2

\* A helper's append adds its event to those of a newer release, or none.
LEMMA AppendSeals ==
    ASSUME Inv, Inv', AppendBatch
    PROVE  \/ Newer' = Newer
           \/ /\ Newer' = Newer \cup {appended + 1}
              /\ written' = written \cup {appended + 1}
<1>1. PICK t \in {"whole", "newer", "torn"} :
        /\ Text' = Longer(Text, appended, t)
        /\ written' = More(written, appended, t)
  <2>1. PICK t \in {"whole", "newer", "torn"} :
        /\ \/ /\ inbox = None
              /\ \E i \in FreeIdentities :
                   inbox' = [id |-> i, lines |-> <<[n |-> appended + 1,
                                                    text |-> t]>>]
           \/ /\ inbox # None
              /\ inbox' = [inbox EXCEPT !.lines =
                             Append(Ended(inbox.lines),
                                    [n |-> appended + 1, text |-> t])]
        /\ written' = IF t \in Complete THEN written \cup {appended + 1}
                      ELSE written
    BY DEF AppendBatch, Complete
  <2>2. written' = More(written, appended, t)
    BY <2>1 DEF More
  <2>3. CASE inbox = None
    <3>1. PICK i \in FreeIdentities :
            inbox' = [id |-> i, lines |-> <<[n |-> appended + 1, text |-> t]>>]
      BY <2>1, <2>3
    <3>2. Longer(Text, appended, t) = <<[n |-> appended + 1, text |-> t]>>
      BY <2>3 DEF Longer, Text, Ended
    <3>3. i # None /\ i \in Identities
      BY InboxAssumption DEF FreeIdentities
    <3>4. inbox' # None
      <4>1. [n |-> appended + 1, text |-> t] \in Lines
        BY Shapes, InboxAssumption DEF Inv, AppendBatch, Lines, Complete
      <4>2. inbox' \in Files
        BY <3>1, <3>3, <4>1 DEF Files
      <4> QED BY <4>2, NoneAssumption
    <3>5. Text' = inbox'.lines
      BY <3>4 DEF Text
    <3> QED BY <2>2, <3>1, <3>2, <3>5
  <2>4. CASE inbox # None
    <3>1. inbox' = [inbox EXCEPT !.lines = Longer(Text, appended, t)]
          /\ inbox \in Files
      BY <2>1, <2>4, Shapes DEF Longer, Text, Inv
    <3> DEFINE nl == Longer(Text, appended, t)
    <3>2. inbox'.lines = nl
      BY <3>1 DEF Files
    <3>3. inbox' # None
      <4>1. Text' = <<>> => Len(Text') = 0
        OBVIOUS
      <4>2. nl \in Seq(Lines)
        <5>1. /\ appended \in Nat /\ Text \in Seq(Lines)
              /\ appended + 1 <= MaxRecords
          BY Shapes, InboxAssumption DEF Inv, InboxTypeOK, AppendBatch
        <5>2. [n |-> appended + 1, text |-> t] \in Lines
          BY <5>1, InboxAssumption DEF Lines, Complete
        <5>3. Ended(Text) \in Seq(Lines)
          BY <5>1, EndedFacts
        <5> QED BY <5>2, <5>3, AppendFacts DEF Longer
      <4> HIDE DEF nl
      <4>3. inbox' \in Files
        BY <3>1, <4>2 DEF Files, nl
      <4> QED BY <4>3, NoneAssumption
    <3> QED BY <2>2, <3>2, <3>3 DEF Text
  <2> QED BY <2>3, <2>4
<1>2. /\ appended \in Nat /\ Text \in Seq(Lines) /\ appended + 1 <= MaxRecords
      /\ Len(Text) \in Nat
  BY Shapes, InboxAssumption DEF Inv, InboxTypeOK, AppendBatch
<1> DEFINE line == [n |-> appended + 1, text |-> t]
           e == Ended(Text)
<1>3. line \in Lines /\ line.n = appended + 1 /\ line.text = t
  BY <1>2, InboxAssumption DEF Lines, Complete
<1>4. /\ e \in Seq(Lines) /\ Len(e) = Len(Text)
      /\ \A j \in 1..Len(Text) :
           /\ e[j].n = Text[j].n
           /\ e[j].text = "newer" <=> Text[j].text = "newer"
  BY <1>2, EndedFacts
<1> HIDE DEF line, e
<1>5. /\ Len(Text') = Len(Text) + 1 /\ Text'[Len(Text) + 1] = line
      /\ \A j \in 1..Len(Text) : Text'[j] = e[j]
  <2>1. Text' = Append(e, line)
    BY <1>1 DEF Longer, line, e
  <2> QED BY <1>3, <1>4, <2>1, AppendFacts
<1>6. \A n : n \in Newer' <=>
        \E j \in 1..Len(Text') : Text'[j].text = "newer" /\ Text'[j].n = n
  <2>1. InboxTypeOK' => (\A n : n \in Newer <=>
          \E j \in 1..Len(Text) : Text[j].text = "newer" /\ Text[j].n = n)'
    BY NewerLines, PTL
  <2> QED BY <2>1 DEF Inv
<1>7. ASSUME NEW n
      PROVE  n \in Newer' <=> n \in Newer \/ (t = "newer" /\ n = appended + 1)
  <2>1. n \in Newer <=>
          \E j \in 1..Len(Text) : Text[j].text = "newer" /\ Text[j].n = n
    BY NewerLines DEF Inv
  <2>2. \A j \in 1..Len(Text) : Text'[j].n = Text[j].n
          /\ (Text'[j].text = "newer" <=> Text[j].text = "newer")
    BY <1>4, <1>5
  <2>3. \A j : j \in 1..Len(Text') <=> j \in 1..Len(Text) \/ j = Len(Text) + 1
    BY <1>2, <1>5
  <2> QED BY <1>3, <1>5, <1>6, <2>1, <2>2, <2>3
<1>8. CASE t = "newer"
  <2>1. Newer' = Newer \cup {appended + 1}
    BY <1>7, <1>8
  <2> QED BY <1>1, <1>8, <2>1 DEF More, Complete
<1>9. CASE t # "newer"
  BY <1>7, <1>9
<1> QED BY <1>8, <1>9

\* Apart from the helpers no step changes what is of a newer release: the
\* segment that a rotation takes away has none, for the source stops in front
\* of the first.
LEMMA NewerStays ==
    ASSUME Inv, Inv', [Next]_vars, ~AppendBatch
    PROVE  Newer' = Newer
<1>1. CASE Rename
  <2>1. pc = "rename" /\ inbox' = None
    BY <1>1 DEF Rename
  <2>2. Newer' = {}
    BY <2>1 DEF Newer
  <2>3. /\ journal # None /\ journal.new = None /\ quarantine = None
        /\ Len(inbox.lines) = journal.eof
    BY <2>1 DEF Inv, PhaseInv, Rotating
  <2>4. /\ inbox # None /\ db.id = inbox.id /\ db.offset = Len(inbox.lines)
    BY <2>3 DEF Inv, CursorInv
  <2>5. Where = Len(Text)
    BY <2>4, SpotRule DEF Inv, Spot, Text
  <2>6. /\ Content(Text, Len(Text), stored, appended, written)
        /\ Text \in Seq(Lines) /\ appended \in Nat
        /\ stored \in Seq(1..MaxRecords) /\ written \in SUBSET (1..appended)
    BY <2>5, Shapes DEF Inv, ContentInv
  <2>7. \A j \in 1..Len(Text) : Text[j].text # "newer"
    BY <2>6, AllRead
  <2>8. Newer = {}
    BY <2>7, NewerLines DEF Inv
  <2> QED BY <2>2, <2>8
<1>2. CASE CreateNewInbox
  <2>1. inbox = None
    BY <1>2 DEF CreateNewInbox, Inv, PhaseInv
  <2>2. inbox'.lines = <<>>
    BY <1>2 DEF CreateNewInbox
  <2>3. Range(<<>>) = {}
    BY DEF Range
  <2> QED BY <2>1, <2>2, <2>3 DEF Newer
<1>3. CASE ~Rename /\ ~CreateNewInbox
  <2>1. inbox' = inbox
    BY <1>3 DEF Next, Step, Start, ReadNextRecord, ReadUnsupported,
       ProcessRecord, Acknowledge, ReachEof, RotateSegment, LeaveSegment,
       Identify, Checkpoint, EraseQuarantine, RemoveJournal, ResumeRotation,
       AbandonRotation, ProcessFails, RotationFails, Crash, vars, disk
  <2> QED BY <2>1 DEF Newer
<1> QED BY <1>1, <1>2, <1>3

\* A helper that writes its line to the end adds the newest event.
LEMMA AppendWrites ==
    ASSUME Inv, Inv', AppendBatch
    PROVE  [Log!LogNext]_Log!logVars
<1>1. /\ appended < MaxRecords /\ stored' = stored
      /\ written' \in {written, written \cup {appended + 1}}
  BY DEF AppendBatch, base
<1>2. /\ appended \in Nat /\ written \in SUBSET (1..appended)
      /\ MaxRecords \in Nat
  BY Shapes, InboxAssumption DEF Inv
<1>3. Waiting = written \ ToSet(stored) /\ Waiting' = written' \ ToSet(stored')
  <2>1. Inv' => (Waiting = written \ ToSet(stored))'
    BY WaitingIsUnstored, PTL
  <2> QED BY <2>1, WaitingIsUnstored
<1>4. CASE written' = written
  <2>1. appended + 1 \notin written
    BY <1>2
  <2>2. Newer' = Newer
    BY <1>4, <2>1, AppendSeals
  <2> QED BY <1>1, <1>3, <1>4, <2>2 DEF Log!logVars
<1>5. CASE written' = written \cup {appended + 1}
  <2>1. appended + 1 \in 1..MaxRecords /\ \A m \in written : m < appended + 1
    BY <1>1, <1>2
  <2>2. appended + 1 \notin ToSet(stored)
    <3>1. stored \in Seq(1..MaxRecords)
      BY Shapes DEF Inv
    <3>2. \A k \in 1..Len(stored) : stored[k] <= appended /\ stored[k] \in Nat
      BY <1>2, <3>1, ElementsIn DEF Inv, ContentInv, Content
    <3> QED BY <1>2, <3>2, StoredSet
  <2>3. Waiting' = Waiting \cup {appended + 1}
    BY <1>1, <1>3, <1>5, <2>2
  <2>4. Log!WriteEvent(appended + 1)
    BY <1>1, <1>5, <2>1, <2>3, AppendSeals DEF Log!WriteEvent
  <2> QED BY <2>1, <2>4 DEF Log!LogNext
<1> QED BY <1>1, <1>4, <1>5

\* The worker stores the event that waits longest, or passes over a line that
\* holds none.
LEMMA ProcessStores ==
    ASSUME Inv, Inv', ProcessRecord, Newer' = Newer
    PROVE  [Log!LogNext]_Log!logVars
<1> DEFINE x == work.line.n
           w == db.offset
<1>1. /\ pc = "work" /\ written' = written
      /\ stored' = IF work.line.text = "whole" /\ x \notin Range(stored)
                   THEN Append(stored, x) ELSE stored
  BY DEF ProcessRecord, helpers
<1>2. /\ journal = None /\ inbox # None /\ w < Len(inbox.lines)
      /\ work.line = inbox.lines[w + 1]
  BY <1>1 DEF Inv, PhaseInv
<1>3. Text = inbox.lines /\ Where = w /\ w \in Nat
  BY <1>2, Shapes, WhereIsSpot DEF Inv, Text, Where
<1>4. Waiting = written \ ToSet(stored) /\ Waiting' = written' \ ToSet(stored')
  <2>1. Inv' => (Waiting = written \ ToSet(stored))'
    BY WaitingIsUnstored, PTL
  <2> QED BY <2>1, WaitingIsUnstored
<1>5. CASE stored' = stored
  BY <1>1, <1>4, <1>5 DEF Log!logVars
<1>6. CASE stored' # stored
  <2>1. work.line.text = "whole" /\ stored' = Append(stored, x)
    BY <1>1, <1>6
  <2>2. /\ stored \in Seq(1..MaxRecords) /\ Text \in Seq(Lines)
        /\ MaxRecords \in Nat /\ appended \in Nat
        /\ w + 1 \in 1..Len(Text) /\ Len(Text) \in Nat
    BY <1>2, <1>3, Shapes, InboxAssumption DEF Inv
  <2>3. /\ Text[w + 1] = work.line
        /\ \A j \in 1..Len(Text) : Text[j] \in Lines /\ Text[j].n \in Nat
    BY <1>2, <1>3, <2>2, ElementsIn, LineFields
  <2>4. x \in Waiting /\ x \in 1..MaxRecords
    BY <1>3, <2>1, <2>2, <2>3, WaitingLines DEF Lines, Complete
  <2>9. x \notin Newer
    <3> SUFFICES ASSUME NEW j \in 1..Len(Text), Text[j].text = "newer",
                        Text[j].n = x
                 PROVE  FALSE
      BY NewerLines DEF Inv
    <3>1. j < w + 1 => Text[j].n < Text[w + 1].n
      BY <2>2 DEF Inv, ContentInv, Content, Numbered
    <3>2. j > w + 1 => Text[w + 1].n < Text[j].n
      BY <2>2 DEF Inv, ContentInv, Content, Numbered
    <3>3. /\ Text[w + 1].n \in Nat /\ Text[j].n \in Nat /\ Text[w + 1].n = x
          /\ Text[w + 1].text = "whole"
      BY <2>1, <2>2, <2>3
    <3>4. j = w + 1
      BY <1>3, <2>2, <3>1, <3>2, <3>3
    <3> QED BY <3>3, <3>4
  <2>5. ASSUME NEW m \in Waiting PROVE x <= m
    <3>1. PICK j \in 1..Len(Text) : j > Where /\ Text[j].n = m
      BY WaitingLines
    <3>2. j = w + 1 \/ w + 1 < j
      BY <1>3, <2>2, <3>1
    <3>3. w + 1 < j => Text[w + 1].n < Text[j].n
      BY <2>2 DEF Inv, ContentInv, Content, Numbered
    <3>4. CASE j = w + 1
      BY <2>2, <2>3, <3>1, <3>4
    <3>5. CASE w + 1 < j
      <4>1. Text[w + 1].n < Text[j].n /\ Text[w + 1].n \in Nat /\ Text[j].n \in Nat
        BY <2>2, <2>3, <3>3, <3>5
      <4> QED BY <2>3, <3>1, <4>1
    <3> QED BY <3>2, <3>4, <3>5
  <2>6. ToSet(stored') = ToSet(stored) \cup {x}
    <3> SUFFICES ASSUME NEW n
                 PROVE  n \in ToSet(stored') <=> n \in ToSet(stored) \/ n = x
      OBVIOUS
    <3>1. /\ n \in ToSet(stored) <=> \E k \in 1..Len(stored) : stored[k] = n
          /\ n \in ToSet(stored') <=> \E k \in 1..Len(stored') : stored'[k] = n
      <4>1. DOMAIN stored = 1..Len(stored) /\ DOMAIN stored' = 1..Len(stored')
        BY <2>1, <2>2, <2>4, AppendFacts
      <4> QED BY <4>1 DEF ToSet
    <3>2. /\ Len(stored) \in Nat /\ Len(stored') = Len(stored) + 1
          /\ stored'[Len(stored) + 1] = x
          /\ \A j \in 1..Len(stored) : stored'[j] = stored[j]
      BY <2>1, <2>2, <2>4, AppendFacts
    <3> HIDE DEF x
    <3> QED BY <3>1, <3>2
  <2>7. Waiting' = Waiting \ {x}
    BY <1>1, <1>4, <2>6
  <2>8. Log!StoreEvent(x)
    BY <1>1, <2>1, <2>4, <2>5, <2>7, <2>9 DEF Log!StoreEvent
  <2> QED BY <2>4, <2>8 DEF Log!LogNext
<1> QED BY <1>5, <1>6

\* Every other step leaves the queue alone, also those that rename, create,
\* erase and recover the files behind it.
LEMMA OthersStutter ==
    ASSUME Inv, Inv', UNCHANGED <<written, stored>>, Newer' = Newer
    PROVE  UNCHANGED Log!logVars
<1>1. Inv' => (Waiting = written \ ToSet(stored))'
  BY WaitingIsUnstored, PTL
<1> QED BY <1>1, WaitingIsUnstored DEF Log!logVars

\* The inbox implements a queue: whatever happens to its files, a step makes one
\* new event wait, or stores the one that waits longest, or neither; an event
\* of a newer release is neither stored nor passed over.
THEOREM InboxImplementsLog == Spec => Log!LogSpec
<1>1. Init => Log!LogInit
  BY DEF Init, Waiting, Newer, Log!LogInit
<1>2. Inv /\ Inv' /\ [Next]_vars => [Log!LogNext]_Log!logVars
  <2> SUFFICES ASSUME Inv, Inv', [Next]_vars PROVE [Log!LogNext]_Log!logVars
    OBVIOUS
  <2>1. CASE AppendBatch
    BY <2>1, AppendWrites
  <2>2. CASE ProcessRecord
    <3>1. ~AppendBatch
      BY <2>2, InboxAssumption DEF ProcessRecord, AppendBatch, Inv, InboxTypeOK,
         helpers
    <3> QED BY <2>2, <3>1, NewerStays, ProcessStores
  <2>3. CASE ~AppendBatch /\ ~ProcessRecord
    <3>1. UNCHANGED <<written, stored>>
      BY <2>3 DEF Next, Step, Start, ReadNextRecord, ReadUnsupported,
         Acknowledge, ReachEof, RotateSegment, LeaveSegment, Rename,
         CreateNewInbox, Identify,
         Checkpoint, EraseQuarantine, RemoveJournal, ResumeRotation,
         AbandonRotation, ProcessFails, RotationFails, Crash, vars, base,
         helpers
    <3> QED BY <2>3, <3>1, NewerStays, OthersStutter
  <2> QED BY <2>1, <2>2, <2>3
<1> QED BY <1>1, <1>2, Invariance, PTL DEF Spec, Log!LogSpec

=============================================================================
