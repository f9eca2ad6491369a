------------------------ MODULE ResultReceiptsProofs ------------------------
(***************************************************************************)
(* Proofs about a published result, on the server alone (ResultPages) and  *)
(* together with its owner (ResultReceipts), for every number of notices   *)
(* and requests, every retention and lifetime and every clock lag.         *)
(*                                                                         *)
(* The server: the projection is exact before and after every statement,   *)
(* because only the trigger, a resend and retention write it and retention *)
(* copies what is there already; the clock reading of a retention round is *)
(* never ahead of the clock, so what it finds expired is.                  *)
(*                                                                         *)
(* The owner: everything the desktop holds (its row, a refresh in flight,  *)
(* a reply in flight) is an earlier answer of the server, and answers only *)
(* move forward, so any two of them are ordered.  At most one resend is    *)
(* registered and not served: it is the one in the row, it is about the    *)
(* notice that is current, and until the row forgets it no receipt names a *)
(* notice but the one it is about, an older one or the one it creates.     *)
(***************************************************************************)
EXTENDS ResultReceipts, TLAPS

-----------------------------------------------------------------------------
(* The invariant of the server.                                            *)

PageTypes == /\ now \in Nat
             /\ res \in ResultType
             /\ notice \in [Notices -> NoticeType]
             /\ resends \in [Requests -> Notices \cup {None}]
             /\ exposed \in SUBSET Notices
             /\ now <= MaxTime

(* Nothing exists before the publication.                                  *)
Unpublished == ~Published => \A n \in Notices : notice[n].status = "absent"

(* A published result names its first and its current notice.              *)
RowsNamed == Published => res.initial \in Notices /\ res.current \in Notices

(* The projected status is the current notice's, or its last one.          *)
ProjInv == Published =>
    IF Stored(res.current) THEN res.status = notice[res.current].status
                           ELSE res.status \in Terminal

(* Until the page expires, the first notice and the body are there.        *)
LiveInv == Published /\ now < res.page_expires_at =>
               Stored(res.initial) /\ res.body

PagesInv == /\ PageTypes
            /\ Unpublished
            /\ RowsNamed
            /\ ProjInv
            /\ LiveInv
            /\ RevokedLinkStays

-----------------------------------------------------------------------------

(* How the sets of statuses lie to each other.                             *)
LEMMA StatusFacts ==
    /\ "absent" \notin Status /\ "deleted" \notin Status
    /\ "pending_channel" \in Status /\ "cancelled" \in Status
    /\ "pending_channel" \notin Terminal
    /\ "cancelled" \in Terminal
    /\ Terminal \subseteq Status /\ Waiting \subseteq Status
    /\ Waiting \cap Terminal = {}
BY DEF Status, Waiting, Terminal

(* A clock reading a transaction carries is never ahead of the clock.      *)
LEMMA ReadingsAreNat ==
    ASSUME now \in Nat, NEW at \in Readings
    PROVE  at \in Nat /\ at <= now
BY DEF Readings

(* The larger of two timestamps.                                           *)
LEMMA MaxOfFacts ==
    ASSUME NEW a \in Nat, NEW b \in Nat
    PROVE  MaxOf(a, b) \in Nat /\ MaxOf(a, b) >= a /\ MaxOf(a, b) >= b
BY DEF MaxOf

(* The columns of the result's row.                                        *)
LEMMA ResultFields ==
    ASSUME NEW r \in ResultType
    PROVE  /\ r.accepted_at \in Nat \cup {NoTime}
           /\ r.updated_at \in Nat /\ r.page_expires_at \in Nat
           /\ r.revoked \in BOOLEAN /\ r.body \in BOOLEAN
           /\ r.initial \in Notices \cup {None}
           /\ r.current \in Notices \cup {None}
           /\ r.status \in Status
BY DEF ResultType

(* The columns of a notice.                                                *)
LEMMA NoticeFields ==
    ASSUME NEW r \in NoticeType
    PROVE  /\ r.status \in Status \cup {"absent", "deleted"}
           /\ r.expires_at \in Nat /\ r.updated_at \in Nat
           /\ r.resolved \in BOOLEAN /\ r.replaces \in Notices \cup {None}
BY DEF NoticeType

(* What the trigger writes: nothing for a notice that is not current,      *)
(* otherwise its status under a larger version, and never another column.  *)
LEMMA ProjectedFacts ==
    ASSUME NEW row \in ResultType, NEW n \in Notices, NEW s \in Status,
           NEW at \in Nat, NEW p, p = Projected(row, n, s, at)
    PROVE  /\ p \in ResultType
           /\ p.accepted_at = row.accepted_at
           /\ p.page_expires_at = row.page_expires_at
           /\ p.revoked = row.revoked /\ p.body = row.body
           /\ p.initial = row.initial /\ p.current = row.current
           /\ IF row.current = n
                THEN p.status = s /\ p.updated_at > row.updated_at
                ELSE p = row
<1> DEFINE u == IF at > row.updated_at THEN at ELSE row.updated_at + 1
<1>1. u \in Nat /\ u > row.updated_at
  BY ResultFields
<1> HIDE DEF u
<1>2. Projected(row, n, s, at) =
        IF row.current # n THEN row
        ELSE [row EXCEPT !.status = s, !.updated_at = u]
  BY DEF Projected, u, ResultType
<1> QED BY <1>1, <1>2 DEF ResultType

-----------------------------------------------------------------------------

(* The step creates no notice.                                             *)
NoneCreated == \A m \in Notices :
    notice'[m].status = "absent" <=> notice[m].status = "absent"

(* publish_once establishes what the invariant says of a published result. *)
LEMMA PublishKeeps ==
    ASSUME PagesInv, NEW at \in Readings, NEW n \in Notices,
           NEW e \in 0..(MaxTime + PageTTL), Publish(n, at, e), now' = now
    PROVE  PagesInv'
<1> USE PagesAssumption
<1>1. at \in Nat /\ at <= now /\ now \in Nat
  BY ReadingsAreNat DEF PagesInv, PageTypes
<1>2. e \in Nat /\ at + PageTTL \in Nat /\ e > at
  BY <1>1 DEF Publish
<1>3. NewNotice(e, at, None) \in NoticeType
  BY <1>1, <1>2, StatusFacts DEF NewNotice, NoticeType
<1>4. notice' = [notice EXCEPT ![n] = NewNotice(e, at, None)]
      /\ notice' \in [Notices -> NoticeType]
  BY <1>3 DEF Publish, PagesInv, PageTypes
<1>5. res' \in ResultType /\ res'.accepted_at = at /\ res'.updated_at = at
      /\ res'.revoked = FALSE /\ res'.body = TRUE /\ res'.initial = n
      /\ res'.current = n /\ res'.status = "pending_channel"
  BY <1>1, <1>2, StatusFacts DEF Publish, ResultType
<1>6. notice'[n].status = "pending_channel"
  BY <1>4 DEF NewNotice, PagesInv, PageTypes
<1>7. Published' /\ Stored(n)'
  BY <1>1, <1>5, <1>6 DEF Published, NoTime, Stored
<1>8. PageTypes'
  BY <1>4, <1>5 DEF Publish, PagesInv, PageTypes
<1>9. Unpublished' /\ RowsNamed' /\ ProjInv' /\ LiveInv' /\ RevokedLinkStays'
  BY <1>5, <1>6, <1>7 DEF Unpublished, RowsNamed, ProjInv, LiveInv, RevokedLinkStays
<1> QED BY <1>8, <1>9 DEF PagesInv

(* resend keeps the invariant and replaces the current notice under a      *)
(* larger version.                                                         *)
LEMMA ResendKeeps ==
    ASSUME PagesInv, NEW at \in Readings, NEW q \in Requests,
           NEW n \in Notices, Resend(q, n, at), now' = now
    PROVE  /\ PagesInv'
           /\ res'.updated_at > res.updated_at
           /\ res'.current = n /\ res'.accepted_at = res.accepted_at
           /\ res'.page_expires_at = res.page_expires_at
           /\ res'.revoked = res.revoked /\ res'.body = res.body
           /\ Published /\ Published' /\ Fresh(n) /\ resends[q] = None
           /\ resends' = [resends EXCEPT ![q] = n]
           /\ notice'[n].status # "absent"
           /\ notice'[n].replaces = res.current
           /\ \A m \in Notices \ {n} : notice'[m] = notice[m]
<1> USE PagesAssumption
<1>1. at \in Nat /\ at <= now /\ now \in Nat /\ res \in ResultType
      /\ notice \in [Notices -> NoticeType]
  BY ReadingsAreNat DEF PagesInv, PageTypes
<1> DEFINE u == IF res.updated_at >= at THEN res.updated_at + 1 ELSE at
<1>2. u \in Nat /\ u > res.updated_at
  BY <1>1, ResultFields
<1> HIDE DEF u
<1>3. res' = [res EXCEPT !.current = n, !.status = "pending_channel",
                         !.updated_at = u]
  BY <1>1 DEF Resend, u, ResultType
<1>4. res' \in ResultType /\ res'.accepted_at = res.accepted_at
      /\ res'.updated_at = u /\ res'.page_expires_at = res.page_expires_at
      /\ res'.revoked = res.revoked /\ res'.body = res.body
      /\ res'.initial = res.initial /\ res'.current = n
      /\ res'.status = "pending_channel"
  BY <1>1, <1>2, <1>3, StatusFacts DEF ResultType
<1> DEFINE new == NewNotice(res.page_expires_at, at, res.current)
<1>5. new \in NoticeType /\ new.status = "pending_channel"
      /\ new.resolved = FALSE /\ new.replaces = res.current
  BY <1>1, ResultFields, StatusFacts DEF NewNotice, NoticeType
<1>6. notice' = [notice EXCEPT ![n] = new]
  BY DEF Resend
<1> HIDE DEF new
<1>7. notice' \in [Notices -> NoticeType]
      /\ notice'[n] = new
      /\ \A m \in Notices : m # n => notice'[m] = notice[m]
  BY <1>1, <1>5, <1>6
<1>8. PageTypes'
  BY <1>1, <1>4, <1>7 DEF Resend, PagesInv, PageTypes
<1>9. Published /\ Published' /\ Stored(res.initial) /\ res.initial \in Notices
  BY <1>4 DEF Resend, Published, PagesInv, RowsNamed
<1>10. Stored(res.initial)'
  BY <1>4, <1>5, <1>7, <1>9 DEF Stored
<1>11. LiveInv' /\ RowsNamed' /\ Unpublished'
  BY <1>4, <1>9, <1>10 DEF LiveInv, PagesInv, Published, RowsNamed, Unpublished
<1>12. ProjInv'
  BY <1>4, <1>5, <1>7 DEF ProjInv, Stored
<1>13. RevokedLinkStays'
  BY <1>4 DEF RevokedLinkStays, Resend, ResendAllowed
<1>14. Fresh(n) /\ resends[q] = None /\ resends' = [resends EXCEPT ![q] = n]
  BY DEF Resend, ResendAllowed
<1>15. notice'[n].status # "absent" /\ notice'[n].replaces = res.current
       /\ \A m \in Notices \ {n} : notice'[m] = notice[m]
  BY <1>5, <1>7
<1> QED BY <1>2, <1>4, <1>8, <1>9, <1>11, <1>12, <1>13, <1>14, <1>15
        DEF PagesInv

(* The row of a notice that a revocation cuts off.                         *)
LEMMA CancelledFacts ==
    ASSUME NEW r \in NoticeType, NEW at \in Nat
    PROVE  /\ CancelledNotice(r, at) \in NoticeType
           /\ CancelledNotice(r, at).status = "cancelled"
           /\ CancelledNotice(r, at).resolved = r.resolved
           /\ CancelledNotice(r, at).replaces = r.replaces
           /\ CancelledNotice(r, at).updated_at \in Nat
<1>1. r.updated_at + 1 \in Nat
  BY DEF NoticeType
<1>2. MaxOf(r.updated_at + 1, at) \in Nat
  BY <1>1, MaxOfFacts
<1> QED BY <1>2, StatusFacts DEF CancelledNotice, NoticeType

(* A revocation keeps the invariant, raises the version if it changes the  *)
(* row, and undoes nothing terminal.                                       *)
LEMMA RevokeKeeps ==
    ASSUME PagesInv, NEW at \in Readings, Revoke(at), now' = now
    PROVE  /\ PagesInv'
           /\ res'.updated_at >= res.updated_at
           /\ res'.current = res.current
           /\ res'.accepted_at = res.accepted_at
           /\ res'.page_expires_at = res.page_expires_at
           /\ res'.revoked
           /\ res'.body = res.body
           /\ \/ res' = res
              \/ res'.updated_at > res.updated_at
           /\ \A n \in Notices : notice'[n].replaces = notice[n].replaces
           /\ NoneCreated
           /\ res.status \in Terminal => res'.status \in Terminal
           /\ resends' = resends
<1> USE PagesAssumption
<1>1. at \in Nat /\ at <= now /\ now \in Nat /\ res \in ResultType
      /\ notice \in [Notices -> NoticeType] /\ exposed \in SUBSET Notices
  BY ReadingsAreNat DEF PagesInv, PageTypes
<1>2. Published /\ res.current \in Notices /\ res.initial \in Notices
  BY DEF Revoke, PagesInv, RowsNamed
<1> DEFINE stamped == IF res.revoked THEN res
                      ELSE [res EXCEPT !.revoked = TRUE,
                                       !.updated_at = MaxOf(res.updated_at + 1, at)]
           cut == {n \in Notices : notice[n].status \in Waiting}
<1>3. MaxOf(res.updated_at + 1, at) \in Nat
      /\ MaxOf(res.updated_at + 1, at) > res.updated_at
  <2>1. res.updated_at + 1 \in Nat /\ res.updated_at \in Nat
    BY <1>1, ResultFields
  <2>2. MaxOf(res.updated_at + 1, at) \in Nat
        /\ MaxOf(res.updated_at + 1, at) >= res.updated_at + 1
    BY <2>1, <1>1, MaxOfFacts
  <2> QED BY <2>1, <2>2
<1>4. /\ stamped \in ResultType /\ stamped.revoked
      /\ stamped.accepted_at = res.accepted_at
      /\ stamped.page_expires_at = res.page_expires_at
      /\ stamped.body = res.body /\ stamped.initial = res.initial
      /\ stamped.current = res.current /\ stamped.status = res.status
      /\ stamped = res \/ stamped.updated_at > res.updated_at
  <2>1. CASE res.revoked
    BY <2>1, <1>1 DEF ResultType
  <2>2. CASE ~res.revoked
    BY <2>2, <1>1, <1>3 DEF ResultType
  <2> QED BY <2>1, <2>2
<1>5. notice' = [n \in Notices |-> IF n \in cut THEN CancelledNotice(notice[n], at)
                                   ELSE notice[n]]
  BY DEF Revoke
<1>6. res' = IF res.current \in cut
               THEN Projected(stamped, res.current, "cancelled",
                              notice'[res.current].updated_at)
               ELSE stamped
  BY <1>1 DEF Revoke, ResultType
<1> HIDE DEF stamped
<1>7. notice' \in [Notices -> NoticeType]
  BY <1>1, <1>5, CancelledFacts
<1>8. \A n \in Notices : /\ notice'[n].resolved = notice[n].resolved
                         /\ notice'[n].replaces = notice[n].replaces
                         /\ Stored(n)' <=> Stored(n)
                         /\ n \in cut => notice'[n].status = "cancelled"
                         /\ n \notin cut => notice'[n] = notice[n]
                         /\ n \in cut => Stored(n)
  BY <1>1, <1>5, CancelledFacts, StatusFacts DEF Stored
<1>9. notice'[res.current].updated_at \in Nat
  BY <1>2, <1>7, NoticeFields
<1>10. /\ res' \in ResultType
       /\ res'.accepted_at = res.accepted_at
       /\ res'.page_expires_at = res.page_expires_at
       /\ res'.revoked /\ res'.body = res.body
       /\ res'.initial = res.initial /\ res'.current = res.current
       /\ res.current \in cut => res'.status = "cancelled" /\ res'.updated_at > stamped.updated_at
       /\ res.current \notin cut => res' = stamped
  <2>1. CASE res.current \in cut
    <3> DEFINE u == notice'[res.current].updated_at
               c == "cancelled"
               old == res.current
    <3>1. res' = Projected(stamped, old, c, u)
      BY <2>1, <1>6
    <3>2. stamped.current = old /\ c \in Status /\ stamped \in ResultType
          /\ old \in Notices /\ u \in Nat
      BY <1>2, <1>4, <1>9, StatusFacts
    <3> HIDE DEF u, c, old
    <3>3. /\ res' \in ResultType
          /\ res'.accepted_at = stamped.accepted_at
          /\ res'.page_expires_at = stamped.page_expires_at
          /\ res'.revoked = stamped.revoked /\ res'.body = stamped.body
          /\ res'.initial = stamped.initial /\ res'.current = stamped.current
          /\ res'.status = c /\ res'.updated_at > stamped.updated_at
      BY <3>1, <3>2, ProjectedFacts
    <3> QED BY <2>1, <3>3, <1>4 DEF c
  <2>2. CASE res.current \notin cut
    BY <2>2, <1>4, <1>6
  <2> QED BY <2>1, <2>2
<1> HIDE DEF cut
<1>11. res' = res \/ res'.updated_at > res.updated_at
  BY <1>1, <1>4, <1>10, ResultFields
<1>12. PageTypes'
  <2>1. exposed' \in SUBSET Notices
    BY <1>1 DEF Revoke
  <2> QED BY <2>1, <1>1, <1>7, <1>10 DEF Revoke, PagesInv, PageTypes
<1>13. Published' /\ RowsNamed' /\ Unpublished'
  BY <1>2, <1>10 DEF Published, RowsNamed, Unpublished
<1>14. LiveInv'
  BY <1>2, <1>8, <1>10 DEF LiveInv, PagesInv, Published
<1>15. ProjInv'
  <2>1. CASE res.current \in cut
    BY <2>1, <1>2, <1>8, <1>10 DEF ProjInv
  <2>2. CASE res.current \notin cut
    <3>1. res'.status = res.status
      BY <2>2, <1>4, <1>10
    <3> QED BY <2>2, <3>1, <1>2, <1>8, <1>10 DEF ProjInv, PagesInv
  <2> QED BY <2>1, <2>2
<1>16. RevokedLinkStays'
  BY <1>8 DEF RevokedLinkStays, Revoke, PagesInv
<1>17. res'.updated_at >= res.updated_at
  BY <1>11, <1>10, <1>1, ResultFields
<1>18. NoneCreated
  BY <1>8 DEF NoneCreated, Stored
<1>19. res.status \in Terminal => res'.status \in Terminal
  BY <1>4, <1>10, StatusFacts
<1>20. resends' = resends
  BY DEF Revoke
<1> QED BY <1>18, <1>19, <1>20, <1>8, <1>10, <1>11, <1>12, <1>13, <1>14, <1>15, <1>16, <1>17 DEF PagesInv

(* A link decrypted for sending changes nothing the owner can see.         *)
LEMMA ResolveKeeps ==
    ASSUME PagesInv, NEW at \in Readings, NEW n \in Notices, Resolve(n, at),
           now' = now
    PROVE  PagesInv' /\ res' = res
           /\ \A m \in Notices : notice'[m].replaces = notice[m].replaces
           /\ NoneCreated /\ resends' = resends
<1>1. notice \in [Notices -> NoticeType]
  BY DEF PagesInv, PageTypes
<1>2. notice' = [notice EXCEPT ![n] = [notice[n] EXCEPT !.resolved = TRUE]]
      /\ res' = res
  BY DEF Resolve
<1>3. notice' \in [Notices -> NoticeType]
      /\ \A m \in Notices : /\ notice'[m].status = notice[m].status
                            /\ notice'[m].replaces = notice[m].replaces
  BY <1>1, <1>2 DEF NoticeType
<1>4. PageTypes'
  BY <1>3 DEF PageTypes, PagesInv, Resolve
<1>5. Unpublished' /\ RowsNamed' /\ ProjInv' /\ LiveInv'
  BY <1>2, <1>3 DEF PagesInv, Unpublished, RowsNamed, ProjInv, LiveInv,
     Published, Stored
<1>6. RevokedLinkStays'
  BY <1>2 DEF RevokedLinkStays, Resolve, LinkAvailable
<1>7. NoneCreated /\ resends' = resends
  BY <1>3 DEF NoneCreated, Resolve
<1> QED BY <1>2, <1>3, <1>4, <1>5, <1>6, <1>7 DEF PagesInv

(* A statement of the outbox keeps the invariant; it changes the result    *)
(* only through the trigger, and only while the notice is not terminal.    *)
LEMMA AdvanceKeeps ==
    ASSUME PagesInv, NEW at \in Readings, NEW n \in Notices,
           NEW s \in Status, Advance(n, s, at), now' = now
    PROVE  /\ PagesInv'
           /\ res' = res \/ /\ res'.updated_at > res.updated_at
                            /\ n = res.current
                            /\ res'.current = res.current
                            /\ res'.accepted_at = res.accepted_at
                            /\ res'.page_expires_at = res.page_expires_at
                            /\ res'.revoked = res.revoked
                            /\ res'.body = res.body
           /\ \A m \in Notices : notice'[m].replaces = notice[m].replaces
           /\ NoneCreated /\ resends' = resends
           /\ res' = res \/ res.status \notin Terminal
<1>1. notice \in [Notices -> NoticeType] /\ at \in Nat /\ at <= now
      /\ res \in ResultType
  BY ReadingsAreNat DEF PagesInv, PageTypes
<1>2. notice' = [notice EXCEPT ![n] =
                   [notice[n] EXCEPT !.status = s, !.updated_at = at,
                                     !.resolved = FALSE]]
      /\ res' = Projected(res, n, s, at) /\ Stored(n)
  BY <1>1 DEF Advance
<1>3. /\ notice' \in [Notices -> NoticeType]
      /\ notice'[n].status = s
      /\ notice'[n].resolved = FALSE
      /\ \A m \in Notices : m # n => notice'[m] = notice[m]
      /\ \A m \in Notices : notice'[m].replaces = notice[m].replaces
  BY <1>1, <1>2 DEF NoticeType
<1>4. /\ res' \in ResultType
      /\ res'.accepted_at = res.accepted_at
      /\ res'.page_expires_at = res.page_expires_at
      /\ res'.revoked = res.revoked /\ res'.body = res.body
      /\ res'.initial = res.initial /\ res'.current = res.current
      /\ res.current = n => res'.status = s /\ res'.updated_at > res.updated_at
      /\ res.current # n => res' = res
  BY <1>1, <1>2, ProjectedFacts
<1>5. \A m \in Notices : Stored(m)' <=> Stored(m)
  BY <1>2, <1>3, StatusFacts DEF Stored
<1>6. PageTypes'
  BY <1>3, <1>4 DEF PageTypes, PagesInv, Advance
<1>7. Published
  BY <1>2 DEF Stored, PagesInv, Unpublished
<1>8. Published' /\ Unpublished' /\ RowsNamed' /\ LiveInv'
  BY <1>4, <1>5, <1>7 DEF PagesInv, Unpublished, RowsNamed, LiveInv,
     Published
<1>9. ProjInv'
  <2>1. res.current \in Notices
    BY <1>7 DEF PagesInv, RowsNamed
  <2>2. CASE res.current = n
    BY <2>2, <1>2, <1>3, <1>4, <1>5 DEF ProjInv
  <2>3. CASE res.current # n
    BY <2>1, <2>3, <1>3, <1>4, <1>5, <1>7 DEF ProjInv, PagesInv
  <2> QED BY <2>2, <2>3
<1>10. RevokedLinkStays'
  <2>1. \A m \in Notices : notice'[m].resolved => notice[m].resolved
    BY <1>3
  <2> QED BY <2>1, <1>4 DEF RevokedLinkStays, Advance, PagesInv
<1>11. NoneCreated /\ resends' = resends
  <2>1. notice[n].status # "absent" /\ s # "absent"
    BY <1>2, StatusFacts DEF Stored
  <2> QED BY <2>1, <1>3 DEF NoneCreated, Advance
<1>12. notice[n].status \notin Terminal
  <2>1. /\ s # notice[n].status
        /\ \/ Life!can_transition_to(notice[n].status, s)
           \/ Life!Released(notice[n].status, s)
    BY DEF Advance
  <2> QED BY <2>1 DEF Life!can_transition_to, Life!Released,
             Life!is_terminal, Terminal
<1>13. res.current = n => res.status \notin Terminal
  BY <1>2, <1>7, <1>12 DEF PagesInv, ProjInv
<1> QED BY <1>3, <1>4, <1>6, <1>8, <1>9, <1>10, <1>11, <1>13 DEF PagesInv

(* Retention takes a body only when its page has expired.                  *)
LEMMA PurgeKeeps ==
    ASSUME PagesInv, NEW at \in Readings, PurgeBody(at), now' = now
    PROVE  /\ PagesInv'
           /\ res'.updated_at >= res.updated_at
           /\ res'.current = res.current /\ res'.status = res.status
           /\ res'.revoked = res.revoked
           /\ res'.accepted_at = res.accepted_at
           /\ res'.page_expires_at = res.page_expires_at
           /\ res.page_expires_at <= now
           /\ notice' = notice /\ resends' = resends
           /\ ~res'.body
<1>1. at \in Nat /\ at <= now /\ res \in ResultType /\ now \in Nat
  BY ReadingsAreNat DEF PagesInv, PageTypes
<1>2. MaxOf(res.updated_at, at) \in Nat
      /\ MaxOf(res.updated_at, at) >= res.updated_at
  BY <1>1, ResultFields, MaxOfFacts
<1>3. /\ res' \in ResultType
      /\ res'.accepted_at = res.accepted_at
      /\ res'.page_expires_at = res.page_expires_at
      /\ res'.revoked = res.revoked
      /\ res'.initial = res.initial /\ res'.current = res.current
      /\ res'.status = res.status
      /\ res'.updated_at >= res.updated_at
  BY <1>1, <1>2 DEF PurgeBody, ResultType
<1>4. res.page_expires_at <= now
  BY <1>1, ResultFields DEF PurgeBody, PurgeDue
<1>5. notice' = notice /\ exposed' = exposed /\ resends' = resends
  BY DEF PurgeBody
<1>6. PageTypes'
  BY <1>3, <1>5 DEF PageTypes, PagesInv
<1>7. Unpublished' /\ RowsNamed' /\ ProjInv' /\ RevokedLinkStays'
  BY <1>3, <1>5 DEF PagesInv, Unpublished, RowsNamed, ProjInv,
     Published, Stored, RevokedLinkStays
<1>8. LiveInv'
  BY <1>1, <1>3, <1>4, ResultFields DEF LiveInv
<1>9. ~res'.body
  BY <1>1 DEF PurgeBody, ResultType
<1> QED BY <1>9, <1>3, <1>4, <1>5, <1>6, <1>7, <1>8 DEF PagesInv

(* Retention deletes notices only when the page has expired, and what it   *)
(* copies back is what the row says already.                               *)
LEMMA DeleteKeeps ==
    ASSUME PagesInv, NEW at \in Readings, NEW S \in SUBSET Notices,
           NEW copied \in BOOLEAN, DeleteNotices(S, copied, at), now' = now
    PROVE  /\ PagesInv'
           /\ res'.updated_at >= res.updated_at
           /\ res'.current = res.current /\ res'.status = res.status
           /\ res'.revoked = res.revoked /\ res'.body = res.body
           /\ res'.accepted_at = res.accepted_at
           /\ res'.page_expires_at = res.page_expires_at
           /\ res.page_expires_at <= now
           /\ res.status \in Terminal \/ res' = res
           /\ \A m \in Notices : notice'[m].replaces = notice[m].replaces
           /\ NoneCreated /\ resends' = resends
<1>1. at \in Nat /\ at <= now /\ res \in ResultType /\ now \in Nat
      /\ notice \in [Notices -> NoticeType]
  BY ReadingsAreNat DEF PagesInv, PageTypes
<1>2. /\ S \subseteq Deletable(at)
      /\ copied => res.current \in Deletable(at)
      /\ res.current \in S => copied
      /\ res' = CopiedBack(copied, at)
      /\ resends' = resends /\ exposed' = exposed
  BY DEF DeleteNotices
<1>3. notice' = [n \in Notices |->
                    IF n \in S
                      THEN [NoNotice EXCEPT !.status = "deleted",
                                            !.replaces = notice[n].replaces]
                      ELSE notice[n]]
  BY DEF DeleteNotices
<1>4. \E n \in Notices : n \in Deletable(at)
  <2>1. S # {} \/ copied
    BY DEF DeleteNotices
  <2> QED BY <1>2, <2>1 DEF Deletable
<1>5. res.page_expires_at <= now
  BY <1>1, <1>4, ResultFields DEF Deletable
<1>6. Published /\ res.current \in Notices
  <2>1. \E n \in Notices : notice[n].status # "absent"
    BY <1>4, StatusFacts DEF Deletable
  <2> QED BY <2>1 DEF PagesInv, Unpublished, RowsNamed
<1>7. copied => res.status = notice[res.current].status
                /\ res.status \in Terminal
  <2>1. \A n \in Deletable(at) : notice[n].status \in Terminal /\ Stored(n)
    BY StatusFacts DEF Deletable, Stored
  <2> QED BY <1>2, <1>6, <2>1 DEF PagesInv, ProjInv
<1>8. MaxOf(res.updated_at, at) \in Nat
      /\ MaxOf(res.updated_at, at) >= res.updated_at
  BY <1>1, ResultFields, MaxOfFacts
<1>9. /\ res' \in ResultType
      /\ res'.accepted_at = res.accepted_at
      /\ res'.page_expires_at = res.page_expires_at
      /\ res'.revoked = res.revoked /\ res'.body = res.body
      /\ res'.initial = res.initial /\ res'.current = res.current
      /\ res'.status = res.status
      /\ res'.updated_at >= res.updated_at
      /\ ~copied => res' = res
  <2>1. CASE copied
    BY <2>1, <1>1, <1>2, <1>7, <1>8 DEF CopiedBack, ResultType
  <2>2. CASE ~copied
    BY <2>2, <1>1, <1>2, ResultFields DEF CopiedBack
  <2> QED BY <2>1, <2>2
<1>10. /\ notice' \in [Notices -> NoticeType]
       /\ \A m \in Notices : notice'[m].replaces = notice[m].replaces
       /\ \A m \in Notices \ S : notice'[m] = notice[m]
       /\ \A m \in S : ~notice'[m].resolved /\ notice'[m].status = "deleted"
  BY <1>1, <1>3 DEF NoNotice, NoticeType
<1>11. PageTypes'
  BY <1>2, <1>9, <1>10 DEF PageTypes, PagesInv
<1>12. Published' /\ RowsNamed' /\ Unpublished'
  BY <1>6, <1>9 DEF PagesInv, Published, RowsNamed, Unpublished
<1>13. LiveInv'
  BY <1>1, <1>5, <1>9, ResultFields DEF LiveInv
<1>14. ProjInv'
  <2>1. CASE res.current \in S
    BY <2>1, <1>2, <1>7, <1>9, <1>10 DEF ProjInv, Stored
  <2>2. CASE res.current \notin S
    BY <2>2, <1>6, <1>9, <1>10 DEF ProjInv, Stored, PagesInv
  <2> QED BY <2>1, <2>2
<1>15. RevokedLinkStays'
  BY <1>2, <1>9, <1>10 DEF RevokedLinkStays, PagesInv
<1>16. NoneCreated
  <2>1. \A m \in S : notice[m].status # "absent"
    BY <1>2, StatusFacts DEF Deletable
  <2> QED BY <2>1, <1>10 DEF NoneCreated
<1> QED BY <1>16, <1>2, <1>5, <1>7, <1>9, <1>10, <1>11, <1>12, <1>13, <1>14, <1>15 DEF PagesInv

(* Time passing ends the obligation to keep a page, nothing else.          *)
LEMMA TickKeeps ==
    ASSUME PagesInv, Tick
    PROVE  PagesInv'
<1> USE PagesAssumption
<1>1. UNCHANGED <<res, notice, resends, exposed>> /\ now' = now + 1
      /\ now < MaxTime
  BY DEF Tick, serverVars
<1>2. PageTypes'
  BY <1>1 DEF PagesInv, PageTypes
<1>3. LiveInv'
  <2>1. now \in Nat /\ res.page_expires_at \in Nat
    BY ResultFields DEF PagesInv, PageTypes
  <2>2. now' < res'.page_expires_at => now < res.page_expires_at
    BY <1>1, <2>1
  <2>3. Published' = Published /\ Stored(res.initial)' = Stored(res.initial)
    BY <1>1 DEF Published, Stored
  <2> QED BY <1>1, <2>2, <2>3 DEF LiveInv, PagesInv
<1> QED BY <1>1, <1>2, <1>3 DEF PagesInv, Unpublished, RowsNamed, ProjInv,
        RevokedLinkStays, Published, Stored

(* What becomes of the device leaves the result alone.                     *)
DeviceStep == (\E on \in BOOLEAN : SetDeviceEnabled(on)) \/ RevokeDevice

LEMMA DeviceKeeps ==
    ASSUME PagesInv, DeviceStep, now' = now
    PROVE  PagesInv'
<1>1. UNCHANGED <<now, res, notice, resends, exposed>>
  BY DEF DeviceStep, SetDeviceEnabled, RevokeDevice
<1> QED BY <1>1 DEF PagesInv, PageTypes, Unpublished, RowsNamed, ProjInv,
        LiveInv, RevokedLinkStays, Published, Stored

(* Every step of the server keeps the invariant.                           *)
LEMMA PagesStep ==
    ASSUME PagesInv, [Next]_vars
    PROVE  PagesInv'
<1>1. CASE UNCHANGED vars
  BY <1>1 DEF vars, serverVars, PagesInv, PageTypes, Unpublished, RowsNamed,
     ProjInv, LiveInv, RevokedLinkStays, Published, Stored
<1>2. CASE Next
  BY <1>2, PublishKeeps, ResendKeeps, RevokeKeeps, ResolveKeeps,
     AdvanceKeeps, PurgeKeeps, DeleteKeeps, TickKeeps, DeviceKeeps
     DEF Next, Background, DeviceStep
<1> QED BY <1>1, <1>2

(* The invariant holds before anything is published.                       *)
LEMMA PagesStart == Init => PagesInv
<1> USE PagesAssumption
<1> SUFFICES ASSUME Init PROVE PagesInv
  OBVIOUS
<1>1. res \in ResultType
  BY StatusFacts DEF Init, ResultType
<1>2. NoNotice \in NoticeType
  BY DEF NoNotice, NoticeType
<1>3. PageTypes
  BY <1>1, <1>2 DEF Init, PageTypes
<1>4. ~Published
  BY DEF Published, Init
<1> QED BY <1>3, <1>4 DEF PagesInv, Unpublished, RowsNamed, ProjInv, LiveInv,
     RevokedLinkStays, Init, NoNotice

(* The invariant of the result pages holds in every state.                 *)
THEOREM PagesInvariance == Spec => []PagesInv
BY PagesStart, PagesStep, PTL DEF Spec

(* The invariant is stronger than the properties of ResultPages.           *)
LEMMA PagesImply ==
    ASSUME PagesInv
    PROVE  ProjectionExact /\ LivePageKept /\ RevokedLinkStays
<1> USE PagesAssumption
<1>2. ProjectionExact
  BY DEF PagesInv, ProjInv, RowsNamed, ProjectionExact
<1>3. LivePageKept
  BY DEF PagesInv, LiveInv, LivePageKept, Readable
<1> QED BY <1>2, <1>3 DEF PagesInv

(* The row of the result and its notices always have their types, whatever *)
(* retention copies back and the trigger projects.                         *)
THEOREM PagesTypeCorrect == Spec => []PagesTypeOK
<1> DEFINE DeviceTyped == device \in {"enabled", "disabled", "revoked"}
<1>1. Init => DeviceTyped
  BY DEF Init
<1>2. DeviceTyped /\ [Next]_vars => DeviceTyped'
  <2> SUFFICES ASSUME DeviceTyped, [Next]_vars PROVE DeviceTyped'
    OBVIOUS
  <2>1. CASE DeviceStep
    BY <2>1 DEF DeviceStep, SetDeviceEnabled, RevokeDevice
  <2>2. ASSUME NEW at, Background(at) PROVE device' = device
    BY <2>2 DEF Background, Resolve, Advance, PurgeBody, DeleteNotices
  <2>3. CASE Tick \/ UNCHANGED vars
    BY <2>3 DEF Tick, vars, serverVars
  <2> QED BY <2>1, <2>2, <2>3
             DEF Next, DeviceStep, Publish, Resend, Revoke
<1>3. PagesInv /\ DeviceTyped => PagesTypeOK
  BY PagesAssumption DEF PagesInv, PageTypes, PagesTypeOK
<1> QED BY <1>1, <1>2, <1>3, PagesInvariance, PTL DEF Spec

(* results.notification_status is the status of the current notice, or the *)
(* terminal one it had when retention deleted it: no statement of the      *)
(* worker, a revocation, a resend or retention ever leaves the projection  *)
(* behind (the trigger notification_outbox_current_result_status).         *)
THEOREM ProjectionIsExact == Spec => []ProjectionExact
BY PagesInvariance, PagesImply, PTL

(* Until its page expires, the body and the first notice of a result stay, *)
(* however old the clock reading of a retention round is (retention.rs),   *)
(* so that the page can be read whenever it is not revoked and its owner's *)
(* device is enabled (public_body).                                        *)
THEOREM LivePagesAreKept == Spec => []LivePageKept
BY PagesInvariance, PagesImply, PTL

(* After a revocation no link is decrypted that was not already in the     *)
(* channel's hands (protected_result_link_body).                           *)
THEOREM RevokedLinksStay == Spec => []RevokedLinkStays
BY PagesInvariance, PagesImply, PTL

(* VersionAdvances, of one step.                                           *)
Advances == Published =>
         /\ res'.updated_at >= res.updated_at
         /\ <<res'.current, res'.status, res'.revoked>>
              # <<res.current, res.status, res.revoked>>
            => res'.updated_at > res.updated_at

(* Every step raises the version with what the owner can see.              *)
LEMMA StepAdvances ==
    ASSUME PagesInv, [Next]_vars
    PROVE  [Advances]_vars
<1> SUFFICES ASSUME Next PROVE Advances
  OBVIOUS
<1>0. res.updated_at \in Nat /\ res'.updated_at \in Nat
  BY PagesStep, ResultFields DEF PagesInv, PageTypes
<1>1. ASSUME NEW at \in Readings, NEW n \in Notices,
             NEW e \in 0..(MaxTime + PageTTL), Publish(n, at, e), now' = now
      PROVE  Advances
  BY <1>1 DEF Advances, Publish
<1>2. ASSUME NEW at \in Readings, NEW q \in Requests, NEW n \in Notices,
             Resend(q, n, at), now' = now
      PROVE  Advances
  BY <1>0, <1>2, ResendKeeps DEF Advances
<1>3. ASSUME NEW at \in Readings, Revoke(at), now' = now
      PROVE  Advances
  BY <1>0, <1>3, RevokeKeeps DEF Advances
<1>4. ASSUME NEW at \in Readings, Background(at), now' = now
      PROVE  Advances
  BY <1>0, <1>4, ResolveKeeps, AdvanceKeeps, PurgeKeeps, DeleteKeeps
     DEF Advances, Background
<1>5. ASSUME Tick PROVE Advances
  BY <1>0, <1>5 DEF Tick, serverVars, Advances
<1>6. ASSUME DeviceStep PROVE Advances
  BY <1>0, <1>6 DEF DeviceStep, SetDeviceEnabled, RevokeDevice, Advances
<1> QED BY <1>1, <1>2, <1>3, <1>4, <1>5, <1>6 DEF Next, DeviceStep

(* The version of a result never falls, and rises with every change of its *)
(* notice, status or revocation, with any number of notices and clock      *)
(* readings out of order.                                                  *)
THEOREM VersionsAdvance == Spec => VersionAdvances
<1>1. [][Next]_vars /\ []PagesInv => [][Advances]_vars
  BY StepAdvances, PTL
<1> QED BY <1>1, PagesInvariance, PTL DEF Spec, VersionAdvances, Advances

-----------------------------------------------------------------------------

(* What the server would answer a request of the owner now.                *)
Answer == Receipt(now)

(* The receipts the desktop holds, stored or in flight.                    *)
Held == ({desk.receipt, fetched}
           \cup (IF action = None THEN {} ELSE {action.reply})) \ {None}

(* y may be a later answer than x: the frozen facts agree, the version and *)
(* the notice do not go back, and what was terminal still is.              *)
Before(x, y) ==
    /\ x.accepted_at = y.accepted_at
    /\ x.page_expires_at = y.page_expires_at
    /\ x.updated_at <= y.updated_at
    /\ x.notification_id <= y.notification_id
    /\ is_terminal_page(x.page_state) => is_terminal_page(y.page_state)
    /\ /\ x.notification_id = y.notification_id
       /\ x.notification_status \in Terminal
       => y.notification_status \in Terminal

(* Notices are created in the order of their ids.                          *)
CreatedInOrder ==
    /\ \A m, n \in Notices :
          m < n /\ notice[n].status # "absent" => notice[m].status # "absent"
    /\ Published => notice[res.current].status # "absent"
    /\ \A q \in Requests :
          resends[q] # None => notice[resends[q]].status # "absent"

DeskType ==
    [receipt : ReceiptType \cup {None}, resend : Requests \cup {None},
     from : Notices \cup {None}, revoke : BOOLEAN]

DeskTypes ==
    /\ desk \in DeskType
    /\ action \in ActType \cup {None}
    /\ fetched \in ReceiptType \cup {None}
    /\ intent \in [Requests -> Notices \cup {None}]

(* Receipts in hand are earlier answers, and ordered among themselves.     *)
OrderInv ==
    /\ \A x \in Held : Published /\ Before(x, Answer)
    /\ \A x, y \in Held : Before(x, y) \/ Before(y, x)

(* Before the first receipt there is no wish of the user.                  *)
NothingYet ==
    desk.receipt = None =>
        /\ desk.resend = None /\ action = None
        /\ \A q \in Requests : intent[q] = None
        /\ fetched # None => fetched.notification_id = res.current

(* A registered request that is not served is the one in the row, and is   *)
(* about the current notice; no request is served unregistered.            *)
OneOpen ==
    \A q \in Requests :
        /\ intent[q] # None /\ resends[q] = None =>
             q = desk.resend /\ res.current = intent[q]
        /\ resends[q] # None => intent[q] # None

(* Without a pending resend the row names the current notice.              *)
Settled ==
    desk.resend = None =>
        /\ desk.from = None
        /\ desk.receipt # None => desk.receipt.notification_id = res.current

(* With one, the row names the notice it is about or the one it created,   *)
(* and no other newer notice is known to the desktop.                      *)
Pending ==
    desk.resend # None =>
        /\ desk.from # None /\ desk.from = intent[desk.resend]
        /\ desk.receipt.notification_id \in {desk.from, res.current}
        /\ \A x \in Held :
             x.notification_id <= desk.from \/ x.notification_id = res.current
        /\ resends[desk.resend] # None => desk.from < res.current

(* A resend in progress is the pending one unless a refresh completed it,  *)
(* and its reply names the current notice.                                 *)
ActionInv ==
    action # None =>
      /\ desk.receipt # None
      /\ action.kind = "resend" =>
        /\ action.request \in Requests
        /\ intent[action.request] # None
        /\ desk.resend \in {action.request, None}
        /\ action.reply # None =>
             /\ resends[action.request] # None
             /\ action.reply.notification_id = res.current

ReceiptsInv ==
    /\ PagesInv /\ DeskTypes /\ CreatedInOrder /\ OrderInv
    /\ NothingYet /\ OneOpen /\ Settled /\ Pending /\ ActionInv
    /\ NewerNeverRefused /\ ResendReplacesSeen

-----------------------------------------------------------------------------

(* The fields of a receipt.                                                *)
LEMMA ReceiptFields ==
    ASSUME NEW x \in ReceiptType
    PROVE  /\ x.accepted_at \in Nat /\ x.page_expires_at \in Nat
           /\ x.updated_at \in Nat /\ x.page_state \in PageStates
           /\ x.notification_id \in Notices /\ x.notification_id \in Nat
           /\ x.notification_status \in Status
           /\ x # None
BY PagesAssumption, NoneAssumption DEF ReceiptType

(* The order of receipts is transitive.                                    *)
LEMMA BeforeTransitive ==
    ASSUME NEW x \in ReceiptType, NEW y \in ReceiptType, NEW z \in ReceiptType,
           Before(x, y), Before(y, z)
    PROVE  Before(x, z)
<1>1. /\ x.updated_at \in Nat /\ y.updated_at \in Nat /\ z.updated_at \in Nat
      /\ x.notification_id \in Nat /\ y.notification_id \in Nat
      /\ z.notification_id \in Nat
  BY ReceiptFields
<1>2. x.updated_at <= z.updated_at /\ x.notification_id <= z.notification_id
  BY <1>1 DEF Before
<1>3. x.notification_id = z.notification_id =>
        x.notification_id = y.notification_id
  BY <1>1 DEF Before
<1> QED BY <1>2, <1>3 DEF Before

(* The order of receipts is reflexive.                                     *)
LEMMA BeforeReflexive ==
    ASSUME NEW x \in ReceiptType
    PROVE  Before(x, x)
BY ReceiptFields DEF Before

(* The receipts the desktop holds are receipts.                            *)
LEMMA HeldTyped ==
    ASSUME DeskTypes
    PROVE  /\ Held \subseteq ReceiptType
           /\ desk.receipt # None => desk.receipt \in Held
           /\ fetched # None => fetched \in Held
           /\ action # None /\ action.reply # None => action.reply \in Held
<1>1. desk.receipt \in ReceiptType \cup {None}
  BY DEF DeskTypes, DeskType
<1>2. action # None => action.reply \in ReceiptType \cup {None}
  BY DEF DeskTypes, ActType
<1> QED BY <1>1, <1>2 DEF Held, DeskTypes

(* The fields of the server's answer.                                      *)
AnswerFits ==
    /\ Answer \in ReceiptType
    /\ Answer.accepted_at = res.accepted_at
    /\ Answer.page_expires_at = res.page_expires_at
    /\ Answer.notification_id = res.current
    /\ Answer.notification_status = res.status
    /\ is_terminal_page(Answer.page_state) <=>
         (res.revoked \/ now >= res.page_expires_at \/ ~res.body)
    /\ Answer.updated_at = IF now >= res.page_expires_at
         THEN MaxOf(res.updated_at, res.page_expires_at)
         ELSE res.updated_at

(* What the server would answer now, in terms of the result's row.         *)
LEMMA AnswerFacts ==
    ASSUME PagesInv, Published
    PROVE  AnswerFits
<1>1. res \in ResultType /\ now \in Nat /\ res.current \in Notices
  BY DEF PagesInv, PageTypes, RowsNamed
<1>2. res.accepted_at \in Nat
  BY <1>1, ResultFields DEF Published
<1>3. CurrentStatus = res.status
  BY DEF CurrentStatus, PagesInv, ProjInv
<1> DEFINE u == IF now >= res.page_expires_at
                  THEN MaxOf(res.updated_at, res.page_expires_at)
                  ELSE res.updated_at
<1>4. u \in Nat
  <2>1. MaxOf(res.updated_at, res.page_expires_at) \in Nat
    BY <1>1, ResultFields, MaxOfFacts
  <2> QED BY <1>1, <2>1, ResultFields
<1>5. PageState(now) \in PageStates
  BY DEF PageState, PageStates
<1>6. is_terminal_page(PageState(now)) <=>
        res.revoked \/ now >= res.page_expires_at \/ ~res.body
  BY DEF PageState, is_terminal_page
<1>7. Answer = [accepted_at |-> res.accepted_at,
                page_expires_at |-> res.page_expires_at,
                updated_at |-> u,
                page_state |-> PageState(now),
                notification_id |-> res.current,
                notification_status |-> res.status]
  BY <1>3 DEF Answer, Receipt
<1> HIDE DEF u
<1>8. /\ Answer \in ReceiptType
      /\ Answer.accepted_at = res.accepted_at
      /\ Answer.page_expires_at = res.page_expires_at
      /\ Answer.notification_id = res.current
      /\ Answer.notification_status = res.status
      /\ Answer.page_state = PageState(now)
      /\ Answer.updated_at = u
  BY <1>1, <1>2, <1>4, <1>5, <1>7, ResultFields DEF ReceiptType
<1> QED BY <1>6, <1>8 DEF u, AnswerFits

(* What a step may do to the server's answer.                              *)
Forward ==
    /\ now' >= now
    /\ res'.accepted_at = res.accepted_at
    /\ res'.page_expires_at = res.page_expires_at
    /\ res'.updated_at >= res.updated_at
    /\ res.revoked => res'.revoked
    /\ ~res.body => ~res'.body
    /\ \/ res'.current > res.current
       \/ /\ res'.current = res.current
          /\ res.status \in Terminal => res'.status \in Terminal

(* A step forward of the server moves its answer forward.                  *)
LEMMA AnswersMoveForward ==
    ASSUME PagesInv, PagesInv', Published, Forward
    PROVE  /\ Published' /\ Before(Answer, Answer')
           /\ Answer \in ReceiptType /\ Answer' \in ReceiptType
<1>1. Published'
  BY DEF Published, Forward
<1>2. /\ res \in ResultType /\ now \in Nat /\ res.current \in Notices
      /\ res' \in ResultType /\ now' \in Nat /\ res'.current \in Notices
  BY <1>1 DEF PagesInv, PageTypes, RowsNamed
<1>3. /\ res.updated_at \in Nat /\ res.page_expires_at \in Nat
      /\ res'.updated_at \in Nat /\ res.current \in Nat /\ res'.current \in Nat
  BY <1>2, ResultFields, PagesAssumption
<1>4. AnswerFits /\ AnswerFits'
  <2>1. (PagesInv /\ Published => AnswerFits)'
    BY AnswerFacts, PTL
  <2> QED BY <1>1, <2>1, AnswerFacts
<1>5. Answer.updated_at <= Answer'.updated_at
  BY <1>2, <1>3, <1>4 DEF AnswerFits, Forward, MaxOf
<1>6. is_terminal_page(Answer.page_state) => is_terminal_page(Answer'.page_state)
  <2>1. now >= res.page_expires_at => now' >= res'.page_expires_at
    BY <1>2, <1>3 DEF Forward
  <2> QED BY <2>1, <1>4 DEF AnswerFits, Forward
<1>7. Answer.notification_id <= Answer'.notification_id
      /\ (Answer.notification_id = Answer'.notification_id
          => res'.current = res.current)
  BY <1>3, <1>4 DEF AnswerFits, Forward
<1>8. res'.current = res.current =>
         (res.status \in Terminal => res'.status \in Terminal)
  BY <1>3 DEF Forward
<1> QED BY <1>1, <1>4, <1>5, <1>6, <1>7, <1>8 DEF AnswerFits, Before, Forward

(* The receipts in hand stay behind the server's answer.                   *)
LEMMA OrderKept ==
    ASSUME PagesInv, PagesInv', DeskTypes, OrderInv,
           Published => Forward, UNCHANGED deskVars
    PROVE  OrderInv'
<1>1. Held' = Held
  BY DEF deskVars, Held
<1>2. ASSUME NEW x \in Held PROVE Published' /\ Before(x, Answer')
  <2>1. Published /\ Before(x, Answer) /\ x \in ReceiptType
    BY HeldTyped DEF OrderInv
  <2> QED BY <2>1, AnswersMoveForward, BeforeTransitive
<1>3. \A x, y \in Held' : Before(x, y) \/ Before(y, x)
  BY <1>1 DEF OrderInv
<1> QED BY <1>1, <1>2, <1>3 DEF OrderInv, Before, is_terminal_page, Terminal

(* A step of the server that neither creates nor replaces a notice.        *)
Quiet == /\ Forward
         /\ res'.current = res.current
         /\ resends' = resends
         /\ NoneCreated
         /\ \A m \in Notices : notice'[m].replaces = notice[m].replaces

(* A revocation and the background work are such steps.                    *)
LEMMA QuietSteps ==
    ASSUME PagesInv, NEW at \in Readings, Revoke(at) \/ Background(at),
           now' = now
    PROVE  PagesInv' /\ Quiet
<1>0. res.updated_at \in Nat /\ now \in Nat /\ res \in ResultType
  BY ResultFields DEF PagesInv, PageTypes
<1>1. CASE Revoke(at)
  BY <1>0, <1>1, RevokeKeeps DEF Quiet, Forward
<1>2. ASSUME NEW n \in Notices, Resolve(n, at) PROVE PagesInv' /\ Quiet
  BY <1>0, <1>2, ResolveKeeps DEF Quiet, Forward
<1>3. ASSUME NEW n \in Notices, NEW s \in Status, Advance(n, s, at)
      PROVE PagesInv' /\ Quiet
  <2>1. PagesInv' /\ res'.updated_at \in Nat
    BY <1>3, AdvanceKeeps, ResultFields DEF PagesInv, PageTypes
  <2> QED BY <1>0, <1>3, <2>1, AdvanceKeeps DEF Quiet, Forward
<1>4. ASSUME PurgeBody(at) PROVE PagesInv' /\ Quiet
  BY <1>0, <1>4, PurgeKeeps DEF Quiet, Forward, NoneCreated
<1>5. ASSUME NEW S \in SUBSET Notices, NEW copied \in BOOLEAN,
             DeleteNotices(S, copied, at)
      PROVE  PagesInv' /\ Quiet
  BY <1>0, <1>5, DeleteKeeps DEF Quiet, Forward
<1> QED BY <1>1, <1>2, <1>3, <1>4, <1>5 DEF Background

(* So is the passing of time.                                              *)
LEMMA QuietTick ==
    ASSUME PagesInv, Tick
    PROVE  PagesInv' /\ Quiet
<1>0. res.updated_at \in Nat /\ now \in Nat /\ res \in ResultType
  BY ResultFields DEF PagesInv, PageTypes
<1> QED BY <1>0, TickKeeps DEF Tick, serverVars, Quiet, Forward, NoneCreated

(* A quiet step of the server keeps the invariant of the composition.      *)
LEMMA QuietKeeps ==
    ASSUME ReceiptsInv, PagesInv', Quiet, UNCHANGED deskVars
    PROVE  ReceiptsInv'
<1>1. OrderInv'
  BY OrderKept DEF ReceiptsInv, Quiet
<1>2. Held' = Held /\ desk' = desk /\ action' = action /\ fetched' = fetched
      /\ intent' = intent /\ refusals' = refusals
      /\ res'.current = res.current /\ resends' = resends
      /\ Published' = Published
  BY DEF deskVars, Held, Quiet, Forward, Published
<1>3. DeskTypes' /\ NothingYet' /\ OneOpen' /\ Settled' /\ ActionInv'
      /\ NewerNeverRefused'
  BY <1>2 DEF ReceiptsInv, DeskTypes, NothingYet, OneOpen, Settled, ActionInv,
     NewerNeverRefused
<1>4. Pending'
  BY <1>2 DEF ReceiptsInv, Pending
<1>5. PagesInv /\ resends \in [Requests -> Notices \cup {None}]
      /\ (Published => res.current \in Notices)
  BY DEF ReceiptsInv, PagesInv, PageTypes, RowsNamed
<1>6. CreatedInOrder'
  BY <1>2, <1>5 DEF ReceiptsInv, CreatedInOrder, Quiet, NoneCreated
<1>7. ResendReplacesSeen'
  BY <1>2, <1>5 DEF ReceiptsInv, ResendReplacesSeen, Quiet
<1> QED BY <1>1, <1>3, <1>4, <1>6, <1>7 DEF ReceiptsInv

(* The publication happens before the desktop holds anything.              *)
LEMMA PublishKeepsAll ==
    ASSUME ReceiptsInv, NEW at \in Readings, NEW n \in Notices,
           NEW e \in 0..(MaxTime + PageTTL), Publish(n, at, e),
           UNCHANGED <<now, deskVars>>
    PROVE  ReceiptsInv'
<1>1. PagesInv'
  BY PublishKeeps DEF ReceiptsInv
<1>2. ~Published
  BY DEF Publish
<1>3. Held = {} /\ Held' = Held /\ desk' = desk /\ action' = action
      /\ fetched' = fetched /\ intent' = intent /\ refusals' = refusals
      /\ resends' = resends
  BY <1>2 DEF ReceiptsInv, OrderInv, Publish, deskVars, Held
<1>4. desk.receipt = None /\ fetched = None
  BY <1>3, HeldTyped DEF ReceiptsInv
<1>5. DeskTypes' /\ OrderInv' /\ NewerNeverRefused'
  BY <1>3 DEF ReceiptsInv, DeskTypes, OrderInv, NewerNeverRefused
<1>6. desk.resend = None /\ desk.from = None /\ action = None
      /\ \A q \in Requests : intent[q] = None
  BY <1>4 DEF ReceiptsInv, NothingYet, Settled
<1>7. NothingYet' /\ OneOpen' /\ Settled' /\ Pending' /\ ActionInv'
  BY <1>3, <1>4, <1>6 DEF ReceiptsInv, NothingYet, OneOpen, Settled, Pending,
     ActionInv
<1>8. /\ \A m \in Notices : notice[m].status = "absent"
      /\ notice \in [Notices -> NoticeType]
      /\ resends \in [Requests -> Notices \cup {None}]
  BY <1>2 DEF ReceiptsInv, PagesInv, Unpublished, PageTypes
<1>9. \A q \in Requests : resends[q] = None
  BY <1>8, PagesAssumption DEF ReceiptsInv, CreatedInOrder
<1>10. CreatedInOrder'
  <2>1. /\ notice'[n].status # "absent" /\ res'.current = n
        /\ \A m \in Notices \ {n} : notice'[m].status = "absent"
        /\ \A m \in Notices : ~(m < n)
    BY <1>8 DEF Publish, NewNotice, Fresh
  <2> QED BY <2>1, <1>3, <1>9 DEF CreatedInOrder
<1>11. ResendReplacesSeen'
  BY <1>3, <1>9 DEF ResendReplacesSeen
<1> QED BY <1>1, <1>5, <1>7, <1>10, <1>11 DEF ReceiptsInv

(* The one open request is served: it replaces the notice the user saw,    *)
(* and no receipt in hand names the new one yet.                           *)
LEMMA ServeResendKeepsAll ==
    ASSUME ReceiptsInv, NEW at \in Readings, NEW q \in Requests,
           NEW n \in Notices, ServeResend(q, n, at)
    PROVE  ReceiptsInv'
<1>0. intent[q] # None /\ Resend(q, n, at) /\ now' = now /\ UNCHANGED deskVars
      /\ PagesInv
  BY DEF ServeResend, ReceiptsInv
<1>1. /\ PagesInv'
      /\ res'.updated_at > res.updated_at
      /\ res'.current = n /\ res'.accepted_at = res.accepted_at
      /\ res'.page_expires_at = res.page_expires_at
      /\ res'.revoked = res.revoked /\ res'.body = res.body
      /\ Published /\ Published' /\ Fresh(n) /\ resends[q] = None
      /\ resends' = [resends EXCEPT ![q] = n]
      /\ notice'[n].status # "absent"
      /\ notice'[n].replaces = res.current
      /\ \A m \in Notices \ {n} : notice'[m] = notice[m]
  BY <1>0, ResendKeeps
<1>2. /\ res.current \in Notices /\ Notices \subseteq Nat /\ None \notin Notices
      /\ resends \in [Requests -> Notices \cup {None}]
      /\ res.updated_at \in Nat /\ res'.updated_at \in Nat /\ now \in Nat
      /\ DeskTypes /\ intent \in [Requests -> Notices \cup {None}]
  BY <1>0, <1>1, PagesAssumption, ResultFields
     DEF ReceiptsInv, PagesInv, PageTypes, RowsNamed, DeskTypes
<1>3. res.current < n
  <2>1. notice[n].status = "absent" /\ notice[res.current].status # "absent"
    BY <1>1 DEF Fresh, ReceiptsInv, CreatedInOrder
  <2>2. ~(n < res.current)
    BY <1>2, <2>1 DEF ReceiptsInv, CreatedInOrder
  <2>3. n # res.current
    BY <2>1
  <2>4. n \in Nat /\ res.current \in Nat
    BY <1>2
  <2> QED BY <2>2, <2>3, <2>4
<1>4. Forward
  BY <1>0, <1>1, <1>2, <1>3 DEF Forward
<1>5. OrderInv'
  BY <1>0, <1>1, <1>4, OrderKept DEF ReceiptsInv
<1>6. Held' = Held /\ desk' = desk /\ action' = action /\ fetched' = fetched
      /\ intent' = intent /\ refusals' = refusals
  BY <1>0 DEF deskVars, Held
<1>7. q = desk.resend /\ res.current = intent[q]
  BY <1>0, <1>1 DEF ReceiptsInv, OneOpen
<1>8. desk.resend # None /\ desk.receipt # None /\ desk.from = res.current
      /\ desk.receipt \in Held
  BY <1>2, <1>7, NoneAssumption, HeldTyped DEF ReceiptsInv, NothingYet, Pending
<1>9. \A x \in Held : x.notification_id <= res.current
  <2>1. Answer.notification_id = res.current
    BY <1>0, <1>1, AnswerFacts DEF AnswerFits
  <2> QED BY <2>1 DEF ReceiptsInv, OrderInv, Before
<1>10. DeskTypes' /\ NewerNeverRefused'
  BY <1>6 DEF ReceiptsInv, DeskTypes, NewerNeverRefused
<1>11. NothingYet' /\ Settled'
  BY <1>6, <1>8 DEF NothingYet, Settled
<1>12. resends'[q] = n /\ \A p \in Requests \ {q} : resends'[p] = resends[p]
  BY <1>1, <1>2
<1>13. OneOpen'
  BY <1>2, <1>6, <1>7, <1>12 DEF ReceiptsInv, OneOpen
<1>14. Pending'
  <2>1. desk.receipt.notification_id = desk.from
    BY <1>8 DEF ReceiptsInv, Pending
  <2> QED BY <2>1, <1>1, <1>3, <1>6, <1>7, <1>8, <1>9, <1>12
          DEF ReceiptsInv, Pending
<1>15. ActionInv'
  <2>1. action # None /\ action.kind = "resend" =>
          action.request = q /\ action.reply = None
    BY <1>1, <1>7, <1>8 DEF ReceiptsInv, ActionInv
  <2> QED BY <2>1, <1>6 DEF ReceiptsInv, ActionInv
<1>16. \A p \in Requests \ {q} : resends[p] # None =>
          resends[p] \in Notices \ {n}
  BY <1>1, <1>2 DEF ReceiptsInv, CreatedInOrder, Fresh
<1>17. CreatedInOrder'
  <2>1. \A m \in Notices : m < n => notice[m].status # "absent"
    BY <1>1 DEF Fresh
  <2>2. \A m, k \in Notices : m < k /\ notice'[k].status # "absent" =>
           notice'[m].status # "absent"
    BY <1>1, <2>1 DEF ReceiptsInv, CreatedInOrder
  <2>3. \A p \in Requests : resends'[p] # None =>
           notice'[resends'[p]].status # "absent"
    BY <1>1, <1>12, <1>16 DEF ReceiptsInv, CreatedInOrder
  <2> QED BY <2>2, <2>3, <1>1 DEF CreatedInOrder
<1>18. ResendReplacesSeen'
  <2>1. ASSUME NEW p \in Requests, resends'[p] # None
        PROVE  notice'[resends'[p]].replaces = intent'[p]
    <3>1. CASE p = q
      BY <3>1, <1>1, <1>6, <1>7, <1>12
    <3>2. CASE p # q
      BY <3>2, <2>1, <1>1, <1>6, <1>12, <1>16
         DEF ReceiptsInv, ResendReplacesSeen
    <3> QED BY <3>1, <3>2
  <2> QED BY <2>1 DEF ResendReplacesSeen
<1> QED BY <1>1, <1>5, <1>10, <1>11, <1>13, <1>14, <1>15, <1>17, <1>18
        DEF ReceiptsInv

-----------------------------------------------------------------------------

(* A step of the desktop leaves the server's part of the invariant alone.  *)
LEMMA ServerStays ==
    ASSUME ReceiptsInv, UNCHANGED <<now, serverVars>>
    PROVE  /\ PagesInv' /\ CreatedInOrder' /\ Answer' = Answer
           /\ Published' = Published
           /\ res' = res /\ resends' = resends /\ notice' = notice
<1>1. UNCHANGED <<now, res, notice, resends, exposed>>
  BY DEF serverVars
<1>2. PagesInv'
  BY <1>1, PagesStep DEF vars, serverVars, ReceiptsInv
<1>3. CreatedInOrder'
  BY <1>1 DEF ReceiptsInv, CreatedInOrder, Published
<1>4. Answer' = Answer /\ Published' = Published
  BY <1>1 DEF Answer, Receipt, Published, PageState, CurrentStatus, Stored
<1> QED BY <1>1, <1>2, <1>3, <1>4

(* A receipt fetched now is after all the others in hand.                  *)
LEMMA OrderExtended ==
    ASSUME ReceiptsInv, UNCHANGED <<now, serverVars>>, DeskTypes',
           \/ Held' \subseteq Held
           \/ Published /\ Held' \subseteq Held \cup {Answer}
    PROVE  OrderInv'
<1>1. Answer' = Answer /\ Published' = Published
  BY ServerStays
<1>2. CASE Held' \subseteq Held
  BY <1>1, <1>2 DEF ReceiptsInv, OrderInv
<1>3. CASE Published /\ Held' \subseteq Held \cup {Answer}
  <2>1. Answer \in ReceiptType /\ Before(Answer, Answer)
    BY <1>3, AnswerFacts, BeforeReflexive DEF AnswerFits, ReceiptsInv
  <2>2. \A x \in Held \cup {Answer} : Before(x, Answer)
    BY <2>1 DEF ReceiptsInv, OrderInv
  <2>3. \A x, y \in Held \cup {Answer} : Before(x, y) \/ Before(y, x)
    BY <2>2 DEF ReceiptsInv, OrderInv
  <2>4. \A x \in Held' : Published' /\ Before(x, Answer)
    BY <1>1, <1>3, <2>2
  <2>5. \A x, y \in Held' : Before(x, y) \/ Before(y, x)
    BY <1>3, <2>3
  <2> QED BY <1>1, <2>4, <2>5 DEF OrderInv
<1> QED BY <1>2, <1>3

(* A step that leaves the desktop's row and the wishes of the user alone.  *)
LEMMA RowStays ==
    ASSUME ReceiptsInv, UNCHANGED <<now, serverVars, desk, intent, refusals>>,
           DeskTypes', OrderInv', ActionInv', NothingYet', Pending'
    PROVE  ReceiptsInv'
<1>1. res' = res /\ resends' = resends /\ notice' = notice
      /\ PagesInv' /\ CreatedInOrder'
  BY ServerStays
<1>2. OneOpen' /\ Settled' /\ NewerNeverRefused' /\ ResendReplacesSeen'
  BY <1>1 DEF ReceiptsInv, OneOpen, Settled, NewerNeverRefused,
     ResendReplacesSeen
<1> QED BY <1>1, <1>2 DEF ReceiptsInv

(* A refresh is answered.                                                  *)
LEMMA FetchKeeps ==
    ASSUME ReceiptsInv, Fetch
    PROVE  ReceiptsInv'
<1>1. fetched' = Answer /\ Published
      /\ UNCHANGED <<now, serverVars, desk, action, intent, refusals>>
  BY DEF Fetch, Answer
<1>2. AnswerFits
  BY <1>1, AnswerFacts DEF ReceiptsInv
<1>3. DeskTypes'
  BY <1>1, <1>2 DEF ReceiptsInv, DeskTypes, AnswerFits
<1>4. Held' \subseteq Held \cup {Answer}
  BY <1>1 DEF Held
<1>5. OrderInv'
  BY <1>1, <1>3, <1>4, OrderExtended
<1>6. res' = res /\ resends' = resends
  BY <1>1, ServerStays
<1>7. ActionInv' /\ NothingYet'
  BY <1>1, <1>2, <1>6 DEF ReceiptsInv, ActionInv, NothingYet, AnswerFits
<1>8. Pending'
  BY <1>1, <1>2, <1>4, <1>6 DEF ReceiptsInv, Pending, AnswerFits
<1> QED BY <1>1, <1>3, <1>5, <1>7, <1>8, RowStays

(* The answer to a refresh is lost.                                        *)
LEMMA LoseFetchedKeeps ==
    ASSUME ReceiptsInv, LoseFetched
    PROVE  ReceiptsInv'
<1>1. fetched' = None
      /\ UNCHANGED <<now, serverVars, desk, action, intent, refusals>>
  BY DEF LoseFetched
<1>2. DeskTypes'
  BY <1>1 DEF ReceiptsInv, DeskTypes
<1>3. Held' \subseteq Held
  BY <1>1 DEF Held
<1>4. OrderInv'
  BY <1>1, <1>2, <1>3, OrderExtended
<1>5. res' = res /\ resends' = resends
  BY <1>1, ServerStays
<1>6. ActionInv' /\ NothingYet' /\ Pending'
  BY <1>1, <1>3, <1>5 DEF ReceiptsInv, ActionInv, NothingYet, Pending
<1> QED BY <1>1, <1>2, <1>4, <1>6, RowStays

(* The answer to an action is lost, or its caller gives up.                *)
LEMMA LoseActionKeeps ==
    ASSUME ReceiptsInv, LoseAction
    PROVE  ReceiptsInv'
<1>1. action' = None
      /\ UNCHANGED <<now, serverVars, desk, fetched, intent, refusals>>
  BY DEF LoseAction
<1>2. DeskTypes'
  BY <1>1 DEF ReceiptsInv, DeskTypes
<1>3. Held' \subseteq Held
  BY <1>1 DEF Held
<1>4. OrderInv'
  BY <1>1, <1>2, <1>3, OrderExtended
<1>5. res' = res /\ resends' = resends
  BY <1>1, ServerStays
<1>6. ActionInv' /\ NothingYet' /\ Pending'
  BY <1>1, <1>3, <1>5 DEF ReceiptsInv, ActionInv, NothingYet, Pending
<1> QED BY <1>1, <1>2, <1>4, <1>6, RowStays

(* An action is answered; the reply to a resend names the new notice.      *)
LEMMA AnswerActionKeeps ==
    ASSUME ReceiptsInv, AnswerAction
    PROVE  ReceiptsInv'
<1>1. action # None /\ action' = [action EXCEPT !.reply = Answer]
      /\ UNCHANGED <<now, serverVars, desk, fetched, intent, refusals>>
      /\ (action.kind = "resend" => resends[action.request] # None)
  BY DEF AnswerAction, Answer
<1>2. desk.receipt # None /\ desk.receipt \in Held /\ action \in ActType
  BY <1>1, HeldTyped DEF ReceiptsInv, ActionInv, DeskTypes
<1>3. Published
  BY <1>2 DEF ReceiptsInv, OrderInv
<1>4. AnswerFits
  BY <1>3, AnswerFacts DEF ReceiptsInv
<1>5. action' \in ActType /\ action'.kind = action.kind
      /\ action'.request = action.request /\ action'.reply = Answer
  BY <1>1, <1>2, <1>4 DEF ActType, AnswerFits
<1>6. DeskTypes'
  BY <1>1, <1>5 DEF ReceiptsInv, DeskTypes
<1>7. Held' \subseteq Held \cup {Answer}
  BY <1>1, <1>5 DEF Held
<1>8. OrderInv'
  BY <1>1, <1>3, <1>6, <1>7, OrderExtended
<1>9. res' = res /\ resends' = resends
  BY <1>1, ServerStays
<1>10. NothingYet' /\ ActionInv'
  BY <1>1, <1>2, <1>4, <1>5, <1>9 DEF ReceiptsInv, ActionInv, NothingYet,
     AnswerFits
<1>11. Pending'
  BY <1>1, <1>4, <1>7, <1>9 DEF ReceiptsInv, Pending, AnswerFits
<1> QED BY <1>1, <1>6, <1>8, <1>10, <1>11, RowStays

(* A revocation is registered.                                             *)
LEMMA RegisterRevokeKeeps ==
    ASSUME ReceiptsInv, RegisterRevoke
    PROVE  ReceiptsInv'
<1>1. action = None /\ desk.receipt # None
      /\ desk' = [desk EXCEPT !.revoke = TRUE]
      /\ action' = Act("revoke", None)
      /\ UNCHANGED <<now, serverVars, fetched, intent, refusals>>
  BY DEF RegisterRevoke
<1>2. action' \in ActType /\ action'.kind = "revoke" /\ action'.reply = None
      /\ action' # None
  BY <1>1, NoneAssumption DEF Act, ActType
<1>3. desk' \in DeskType /\ desk'.receipt = desk.receipt
      /\ desk'.resend = desk.resend /\ desk'.from = desk.from
  BY <1>1 DEF ReceiptsInv, DeskTypes, DeskType
<1>4. DeskTypes'
  BY <1>1, <1>2, <1>3 DEF ReceiptsInv, DeskTypes
<1>5. Held' \subseteq Held
  BY <1>1, <1>2, <1>3 DEF Held
<1>6. OrderInv'
  BY <1>1, <1>4, <1>5, OrderExtended
<1>7. res' = res /\ resends' = resends /\ notice' = notice
      /\ PagesInv' /\ CreatedInOrder'
  BY <1>1, ServerStays
<1>8. NothingYet' /\ ActionInv' /\ Pending' /\ Settled' /\ OneOpen'
  BY <1>1, <1>2, <1>3, <1>5, <1>7 DEF ReceiptsInv, NothingYet, ActionInv,
     Pending, Settled, OneOpen
<1>9. NewerNeverRefused' /\ ResendReplacesSeen'
  BY <1>1, <1>7 DEF ReceiptsInv, NewerNeverRefused, ResendReplacesSeen
<1> QED BY <1>4, <1>6, <1>7, <1>8, <1>9 DEF ReceiptsInv

(* A resend is registered: either the pending one again, or a new one      *)
(* about the notice that is current on the server.                         *)
LEMMA RegisterResendKeeps ==
    ASSUME ReceiptsInv, NEW q \in Requests, RegisterResend(q)
    PROVE  ReceiptsInv'
<1> DEFINE c == PendingOr(q)
           seen == desk.receipt.notification_id
<1>1. action = None /\ desk.receipt # None
      /\ (intent[c] = None \/ c = desk.resend)
      /\ desk' = [desk EXCEPT !.resend = c,
                              !.from = IF desk.from # None THEN desk.from ELSE seen]
      /\ intent' = [intent EXCEPT ![c] =
                      IF intent[c] # None THEN intent[c] ELSE seen]
      /\ action' = Act("resend", c)
      /\ UNCHANGED <<now, serverVars, fetched, refusals>>
  BY DEF RegisterResend, ReceiptsInv, DeskTypes, DeskType
<1>2. desk \in DeskType /\ intent \in [Requests -> Notices \cup {None}]
      /\ desk.receipt \in Held /\ desk.receipt \in ReceiptType
      /\ seen \in Notices /\ None \notin Notices /\ None \notin Requests
  BY <1>1, HeldTyped, ReceiptFields, PagesAssumption, NoneAssumption
     DEF ReceiptsInv, DeskTypes
<1>3. c \in Requests /\ (desk.resend # None => c = desk.resend)
      /\ (desk.resend = None => c = q)
  BY <1>2 DEF PendingOr, DeskType
<1>4. /\ desk.resend = None => desk.from = None /\ seen = res.current
                               /\ intent[c] = None
      /\ desk.resend # None => desk.from # None /\ desk.from = intent[c]
  BY <1>1, <1>2, <1>3 DEF ReceiptsInv, Settled, Pending
<1> HIDE DEF c, seen
<1> DEFINE f == IF desk.from # None THEN desk.from ELSE seen
<1>5. f \in Notices
  BY <1>2 DEF DeskType
<1>6. intent' = [intent EXCEPT ![c] = f]
  BY <1>1, <1>2, <1>3, <1>4
<1>7. desk' = [desk EXCEPT !.resend = c, !.from = f]
  BY <1>1
<1>8. desk.resend = None => f = res.current
  BY <1>4
<1>9. desk.resend # None => f = desk.from /\ c = desk.resend /\ intent[c] = f
  BY <1>3, <1>4
<1> HIDE DEF f
<1>10. desk' \in DeskType /\ desk'.receipt = desk.receipt
       /\ desk'.resend = c /\ desk'.from = f
  BY <1>2, <1>3, <1>5, <1>7 DEF DeskType
<1>11. intent' \in [Requests -> Notices \cup {None}] /\ intent'[c] = f
       /\ \A p \in Requests \ {c} : intent'[p] = intent[p]
  BY <1>2, <1>3, <1>5, <1>6
<1>12. action' \in ActType /\ action'.kind = "resend" /\ action'.reply = None
       /\ action' # None /\ action'.request = c
  BY <1>1, <1>3, NoneAssumption DEF Act, ActType
<1>13. DeskTypes'
  BY <1>1, <1>10, <1>11, <1>12 DEF ReceiptsInv, DeskTypes
<1>14. Held' \subseteq Held
  BY <1>1, <1>10, <1>12 DEF Held
<1>15. OrderInv'
  BY <1>1, <1>13, <1>14, OrderExtended
<1>16. res' = res /\ resends' = resends /\ notice' = notice
       /\ PagesInv' /\ CreatedInOrder' /\ Published
  BY <1>1, <1>2, ServerStays DEF ReceiptsInv, OrderInv
<1>17. c # None /\ f # None
  BY <1>2, <1>3, <1>5
<1>18. NothingYet' /\ Settled'
  BY <1>1, <1>10, <1>17 DEF NothingYet, Settled
<1>19. ActionInv'
  BY <1>1, <1>3, <1>10, <1>11, <1>12, <1>17 DEF ActionInv
<1>20. OneOpen'
  <2>1. desk.resend = None => \A p \in Requests :
           intent[p] # None => resends[p] # None
    BY <1>2 DEF ReceiptsInv, OneOpen
  <2>2. CASE desk.resend = None
    BY <2>1, <2>2, <1>4, <1>8, <1>10, <1>11, <1>16, <1>17
       DEF ReceiptsInv, OneOpen
  <2>3. CASE desk.resend # None
    BY <2>3, <1>9, <1>10, <1>11, <1>16, <1>17 DEF ReceiptsInv, OneOpen
  <2> QED BY <2>2, <2>3
<1>21. Pending'
  <2>1. CASE desk.resend = None
    <3>1. resends[c] = None
      BY <2>1, <1>3, <1>4 DEF ReceiptsInv, OneOpen
    <3>2. \A x \in Held : x.notification_id <= f
      <4>1. Answer.notification_id = f
        BY <2>1, <1>8, <1>16, AnswerFacts DEF AnswerFits, ReceiptsInv
      <4> QED BY <4>1 DEF ReceiptsInv, OrderInv, Before
    <3>3. desk.receipt.notification_id = f
      BY <2>1, <1>4, <1>8 DEF seen
    <3> QED BY <3>1, <3>2, <3>3, <1>10, <1>11, <1>14, <1>16, <1>17 DEF Pending
  <2>2. CASE desk.resend # None
    BY <2>2, <1>9, <1>10, <1>11, <1>14, <1>16, <1>17 DEF ReceiptsInv, Pending
  <2> QED BY <2>1, <2>2
<1>22. NewerNeverRefused'
  BY <1>1 DEF ReceiptsInv, NewerNeverRefused
<1>23. ResendReplacesSeen'
  <2>1. \A p \in Requests : resends[p] # None => intent'[p] = intent[p]
    BY <1>4, <1>9, <1>11 DEF ReceiptsInv, OneOpen
  <2> QED BY <2>1, <1>16 DEF ReceiptsInv, ResendReplacesSeen
<1> QED BY <1>13, <1>15, <1>16, <1>18, <1>19, <1>20, <1>21, <1>22, <1>23
        DEF ReceiptsInv

-----------------------------------------------------------------------------

(* What the checks of apply_inner come to, for a receipt in hand.          *)
Verdicts(r, v) ==
    /\ v = "applied" => \/ desk.receipt = None
                        \/ r.updated_at > desk.receipt.updated_at
    /\ v = "already_applied" =>
         /\ desk.receipt # None
         /\ r.notification_id = desk.receipt.notification_id
    /\ desk.receipt = None \/ r.updated_at > desk.receipt.updated_at
         => v = "applied"

(* Of two receipts the one with the larger version is the later, and if it *)
(* names another notice the pending resend explains that.                  *)
LEMMA NewerIsLater ==
    ASSUME ReceiptsInv, NEW r \in Held, desk.receipt # None,
           r.updated_at > desk.receipt.updated_at
    PROVE  /\ Before(desk.receipt, r)
           /\ r.notification_id # desk.receipt.notification_id => Explained
<1>1. desk.receipt \in Held /\ r \in ReceiptType /\ desk.receipt \in ReceiptType
  BY HeldTyped DEF ReceiptsInv
<1>2. r.updated_at \in Nat /\ desk.receipt.updated_at \in Nat
      /\ r.notification_id \in Nat /\ desk.receipt.notification_id \in Nat
  BY <1>1, ReceiptFields
<1>3. Before(desk.receipt, r)
  <2>1. ~(r.updated_at <= desk.receipt.updated_at)
    BY <1>2
  <2>2. ~Before(r, desk.receipt)
    BY <2>1 DEF Before
  <2> QED BY <1>1, <2>2 DEF ReceiptsInv, OrderInv
<1>4. Published /\ AnswerFits
  BY AnswerFacts DEF ReceiptsInv, OrderInv
<1>5. r.notification_id <= res.current /\ res.current \in Nat
  BY <1>4, PagesAssumption DEF ReceiptsInv, OrderInv, Before, AnswerFits,
     PagesInv, RowsNamed
<1>6. ASSUME r.notification_id # desk.receipt.notification_id
      PROVE  Explained
  <2>1. desk.receipt.notification_id < res.current
    BY <1>2, <1>3, <1>5, <1>6 DEF Before
  <2>2. desk.receipt.notification_id # res.current
    BY <1>2, <1>5, <2>1
  <2> QED BY <2>2 DEF ReceiptsInv, Settled, Pending, Explained
<1> QED BY <1>3, <1>6

(* The checks of apply_inner let every newer receipt through.              *)
LEMMA VerdictFacts ==
    ASSUME ReceiptsInv, NEW r \in Held, NEW kind,
           kind = "resend" => /\ action # None /\ action.kind = "resend"
                              /\ action.reply = r
    PROVE  Verdicts(r, Verdict(r, kind))
<1>1. r \in ReceiptType /\ r # None
  BY HeldTyped, NoneAssumption DEF ReceiptsInv
<1>2. CASE desk.receipt = None
  BY <1>2 DEF Verdict, Verdicts
<1>3. CASE desk.receipt # None
  <2> DEFINE old == desk.receipt
             other == old.notification_id # r.notification_id
             replace == kind = "resend" \/ Explained
  <2>1. old \in ReceiptType /\ old.updated_at \in Nat /\ r.updated_at \in Nat
    BY <1>1, <1>3, HeldTyped, ReceiptFields DEF ReceiptsInv
  <2>2. ASSUME r.updated_at > old.updated_at
        PROVE  Verdict(r, kind) = "applied"
    <3>1. Before(old, r) /\ (other => Explained)
      BY <1>3, <2>2, NewerIsLater
    <3>2. ~(r.updated_at < old.updated_at)
      BY <2>1, <2>2
    <3>3. ~(kind = "resend" /\ desk.resend # None
            /\ desk.from = r.notification_id)
      <4> SUFFICES ASSUME kind = "resend", desk.resend # None
                   PROVE  desk.from # r.notification_id
        OBVIOUS
      <4>1. desk.resend = action.request /\ r.notification_id = res.current
            /\ resends[action.request] # None
        BY <1>1 DEF ReceiptsInv, ActionInv
      <4>2. desk.from < res.current
        BY <4>1 DEF ReceiptsInv, Pending
      <4>3. res.current \in Nat /\ desk.from \in Nat
        <5>1. Published
          BY DEF ReceiptsInv, OrderInv
        <5>2. desk.from \in Notices
          BY DEF ReceiptsInv, Pending, DeskTypes, DeskType
        <5> QED BY <5>1, <5>2, PagesAssumption DEF ReceiptsInv, PagesInv, RowsNamed
      <4> QED BY <4>1, <4>2, <4>3
    <3>4. ~(other /\ ~replace)
      BY <3>1
    <3>5. <<old.accepted_at, old.page_expires_at>>
            = <<r.accepted_at, r.page_expires_at>>
      BY <3>1 DEF Before
    <3>6. ~(is_terminal_page(old.page_state) /\ r.page_state = "available")
      BY <3>1 DEF Before, is_terminal_page
    <3>7. ~(/\ old.notification_status \in Terminal
            /\ r.notification_status \notin Terminal
            /\ ~(replace /\ other))
      BY <3>1 DEF Before
    <3> HIDE DEF other, replace
    <3> QED BY <1>3, <2>2, <3>2, <3>3, <3>4, <3>5, <3>6, <3>7
            DEF Verdict, other, replace
  <2>3. Verdict(r, kind) = "applied" => r.updated_at > old.updated_at
    BY <1>3 DEF Verdict
  <2>4. Verdict(r, kind) = "already_applied" => Facts(r) = Facts(old)
    BY <1>3 DEF Verdict
  <2>5. Facts(r) = Facts(old) => r.notification_id = old.notification_id
    BY DEF Facts
  <2> QED BY <1>3, <2>2, <2>3, <2>4, <2>5 DEF Verdicts
<1> QED BY <1>2, <1>3

(* An answer being applied: a refresh, or the reply of the action.         *)
Applying(r, kind, q) ==
    \/ kind = "none" /\ fetched = r /\ r # None
    \/ /\ action # None /\ action.reply = r /\ r # None
       /\ action.kind = kind /\ action.request = q

(* A receipt being applied is one in hand.                                 *)
LEMMA ApplyingFacts ==
    ASSUME ReceiptsInv, NEW r, NEW kind, NEW q, Applying(r, kind, q)
    PROVE  /\ r \in Held /\ r \in ReceiptType /\ r # None
           /\ kind \in {"none", "resend", "revoke"}
           /\ kind = "resend" => /\ action # None /\ action.kind = "resend"
                                 /\ action.reply = r /\ action.request = q
           /\ desk.receipt = None => kind = "none" /\ fetched = r
<1>1. action # None => action.kind \in {"resend", "revoke"}
  BY DEF ReceiptsInv, DeskTypes, ActType
<1> QED BY <1>1, HeldTyped DEF ReceiptsInv, Applying, NothingYet

(* A receipt that is applied names the notice the user asked about or the  *)
(* current one.                                                            *)
LEMMA AppliedNotice ==
    ASSUME ReceiptsInv, NEW r, NEW kind, NEW q, Applying(r, kind, q),
           \/ desk.receipt = None
           \/ r.updated_at > desk.receipt.updated_at
    PROVE  /\ desk.resend = None => r.notification_id = res.current
           /\ desk.resend # None =>
                r.notification_id \in {desk.from, res.current}
<1>1. CASE desk.receipt = None
  BY <1>1, ApplyingFacts DEF ReceiptsInv, NothingYet
<1>2. CASE desk.receipt # None
  <2> DEFINE a == desk.receipt.notification_id
             b == r.notification_id
             c == res.current
  <2>1. r \in Held /\ r.updated_at > desk.receipt.updated_at
    BY <1>2, ApplyingFacts
  <2>2. Published /\ AnswerFits
    BY <2>1, AnswerFacts DEF ReceiptsInv, OrderInv
  <2>3. a <= b /\ b <= c
    BY <1>2, <2>1, <2>2, NewerIsLater
       DEF ReceiptsInv, OrderInv, Before, AnswerFits
  <2>4. a \in Nat /\ b \in Nat /\ c \in Nat
    BY <1>2, <2>1, <2>2, HeldTyped, ReceiptFields, PagesAssumption
       DEF ReceiptsInv, PagesInv, RowsNamed
  <2>5. CASE desk.resend = None
    <3>1. a = c
      BY <1>2, <2>5 DEF ReceiptsInv, Settled
    <3> HIDE DEF a, b, c
    <3>2. b = c
      BY <3>1, <2>3, <2>4
    <3> QED BY <2>5, <3>2 DEF b, c
  <2>6. CASE desk.resend # None
    <3>1. /\ a \in {desk.from, c} /\ (b <= desk.from \/ b = c)
          /\ desk.from \in Nat
      BY <2>1, <2>6, PagesAssumption
         DEF ReceiptsInv, Pending, DeskTypes, DeskType
    <3> DEFINE f == desk.from
    <3> HIDE DEF a, b, c, f
    <3>2. b = f \/ b = c
      BY <3>1, <2>3, <2>4 DEF f
    <3> QED BY <2>6, <3>2 DEF b, c, f
  <2> QED BY <2>5, <2>6
<1> QED BY <1>1, <1>2

(* What applying a receipt may do to the row.                              *)
Moved ==
    /\ desk' \in DeskType
    /\ desk'.receipt # None
    /\ \/ desk'.resend = desk.resend /\ desk'.from = desk.from
       \/ /\ desk'.resend = None /\ desk'.from = None
          /\ desk.resend # None => resends[desk.resend] # None
    /\ desk'.resend = None =>
          /\ desk'.from = None
          /\ desk'.receipt.notification_id = res.current
    /\ desk'.resend # None =>
          desk'.receipt.notification_id \in {desk.from, res.current}

(* What complete_action_tx does to the row.                                *)
LEMMA CompletedFacts ==
    ASSUME NEW d \in DeskType, NEW kind, NEW q
    PROVE  LET e == Completed(d, kind, q) IN
           /\ e \in DeskType /\ e.receipt = d.receipt
           /\ IF kind = "resend" /\ d.resend = q
                THEN e.resend = None /\ e.from = None
                ELSE e.resend = d.resend /\ e.from = d.from
BY DEF Completed, DeskType

(* Applying a receipt moves the row as described, and refuses nothing      *)
(* newer.                                                                  *)
LEMMA ApplyMoves ==
    ASSUME ReceiptsInv, NEW r, NEW kind, NEW q, Applying(r, kind, q),
           Apply(r, kind, q)
    PROVE  Moved /\ NewerNeverRefused' /\ desk'.receipt \in {desk.receipt, r}
<1> DEFINE v == Verdict(r, kind)
<1>1. /\ r \in Held /\ r \in ReceiptType /\ r # None
      /\ kind \in {"none", "resend", "revoke"}
      /\ kind = "resend" => /\ action # None /\ action.kind = "resend"
                            /\ action.reply = r /\ action.request = q
  BY ApplyingFacts
<1>2. Verdicts(r, v)
  BY <1>1, VerdictFacts
<1>3. desk' = IF v = "applied" THEN Completed(StoredReceipt(r, kind), kind, q)
              ELSE IF v = "already_applied" THEN Completed(desk, kind, q)
              ELSE desk
  BY DEF Apply
<1>4. refusals' = IF v \in {"applied", "already_applied", "stale"} THEN refusals
             ELSE refusals \cup
                    {<<v, r.updated_at > desk.receipt.updated_at>>}
  BY DEF Apply
<1>5. kind = "resend" => r.notification_id = res.current
                         /\ resends[q] # None /\ desk.resend \in {q, None}
  BY <1>1 DEF ReceiptsInv, ActionInv
<1>6. desk \in DeskType
  BY DEF ReceiptsInv, DeskTypes
<1> HIDE DEF v
<1>7. NewerNeverRefused'
  <2>1. v \notin {"applied"} => ~(r.updated_at > desk.receipt.updated_at)
    BY <1>2 DEF Verdicts
  <2> DEFINE pair == <<v, r.updated_at > desk.receipt.updated_at>>
  <2>2. v \notin {"applied"} => ~pair[2]
    BY <2>1
  <2> HIDE DEF pair
  <2>3. refusals' = refusals \/ (v # "applied" /\ refusals' = refusals \cup {pair})
    BY <1>4 DEF pair
  <2> QED BY <2>2, <2>3 DEF ReceiptsInv, NewerNeverRefused
<1>8. CASE v = "applied"
  <2> DEFINE st == StoredReceipt(r, kind)
             seen == kind = "none" /\ Explained /\ desk.from # r.notification_id
  <2>1. /\ desk.resend = None => r.notification_id = res.current
        /\ desk.resend # None =>
             r.notification_id \in {desk.from, res.current}
    BY <1>2, <1>8, AppliedNotice DEF Verdicts
  <2>2. /\ st \in DeskType /\ st.receipt = r
        /\ seen => st.resend = None /\ st.from = None
        /\ ~seen => st.resend = desk.resend /\ st.from = desk.from
    BY <1>1, <1>6 DEF StoredReceipt, DeskType
  <2>3. desk' = Completed(st, kind, q)
    BY <1>3, <1>8
  <2>4. seen => desk.resend # None /\ r.notification_id = res.current
                /\ resends[desk.resend] # None /\ kind # "resend"
    <3> SUFFICES ASSUME seen
                 PROVE  desk.resend # None /\ r.notification_id = res.current
                        /\ resends[desk.resend] # None /\ kind # "resend"
      OBVIOUS
    <3>1. desk.resend # None /\ desk.from # r.notification_id
          /\ desk.resend \in Requests
      BY <1>6 DEF Explained, DeskType
    <3>2. r.notification_id = res.current
      BY <2>1, <3>1
    <3>3. desk.from = intent[desk.resend] /\ desk.from # None
      BY <3>1 DEF ReceiptsInv, Pending
    <3>4. resends[desk.resend] # None
      BY <3>1, <3>2, <3>3 DEF ReceiptsInv, OneOpen
    <3> QED BY <3>1, <3>2, <3>4
  <2> HIDE DEF st, seen
  <2>5. /\ desk' \in DeskType /\ desk'.receipt = r
        /\ IF kind = "resend" /\ st.resend = q
                THEN desk'.resend = None /\ desk'.from = None
                ELSE desk'.resend = st.resend /\ desk'.from = st.from
    BY <2>2, <2>3, CompletedFacts
  <2>6. desk.resend = None => desk.from = None
    BY DEF ReceiptsInv, Settled
  <2>7. ASSUME seen PROVE Moved
    <3>1. desk'.resend = None /\ desk'.from = None
      BY <2>7, <2>2, <2>5
    <3> QED BY <3>1, <2>7, <1>1, <2>4, <2>5 DEF Moved
  <2>8. ASSUME ~seen, kind = "resend" /\ desk.resend = q PROVE Moved
    <3>1. desk'.resend = None /\ desk'.from = None
      BY <2>8, <2>2, <2>5
    <3> QED BY <3>1, <2>8, <1>1, <1>5, <2>5 DEF Moved
  <2>9. ASSUME ~seen, ~(kind = "resend" /\ desk.resend = q) PROVE Moved
    <3>1. desk'.resend = desk.resend /\ desk'.from = desk.from
      BY <2>9, <2>2, <2>5
    <3> QED BY <3>1, <1>1, <2>1, <2>5, <2>6 DEF Moved
  <2>10. Moved
    BY <2>7, <2>8, <2>9
  <2> QED BY <2>5, <2>10, <1>7
<1>9. CASE v = "already_applied"
  <2>1. desk.receipt # None /\ r.notification_id = desk.receipt.notification_id
    BY <1>2, <1>9 DEF Verdicts
  <2>2. desk' = Completed(desk, kind, q)
    BY <1>3, <1>9
  <2>3. /\ desk' \in DeskType /\ desk'.receipt = desk.receipt
        /\ IF kind = "resend" /\ desk.resend = q
                THEN desk'.resend = None /\ desk'.from = None
                ELSE desk'.resend = desk.resend /\ desk'.from = desk.from
    BY <1>6, <2>2, CompletedFacts
  <2>4. Moved
    BY <1>5, <2>1, <2>3 DEF Moved, ReceiptsInv, Settled, Pending
  <2> QED BY <2>3, <2>4, <1>7
<1>10. CASE v \notin {"applied", "already_applied"}
  <2>1. desk' = desk /\ desk.receipt # None
    BY <1>2, <1>3, <1>10 DEF Verdicts
  <2>2. Moved
    BY <2>1, <1>6 DEF Moved, ReceiptsInv, Settled, Pending
  <2> QED BY <2>1, <2>2, <1>7
<1> QED BY <1>8, <1>9, <1>10

(* A row moved that way keeps the invariant.                               *)
LEMMA AppliedKeeps ==
    ASSUME ReceiptsInv, NEW r \in Held, Moved, NewerNeverRefused',
           desk'.receipt \in {desk.receipt, r},
           UNCHANGED <<now, serverVars, intent>>,
           \/ action' = None /\ fetched' = fetched
           \/ fetched' = None /\ action' = action
    PROVE  ReceiptsInv'
<1>1. DeskTypes'
  BY DEF ReceiptsInv, DeskTypes, Moved
<1>2. Held' \subseteq Held
  BY DEF Held, Moved
<1>3. OrderInv'
  BY <1>1, <1>2, OrderExtended
<1>4. res' = res /\ resends' = resends /\ notice' = notice
      /\ PagesInv' /\ CreatedInOrder' /\ intent' = intent
  BY ServerStays
<1>5. NothingYet' /\ Settled'
  BY <1>4 DEF Moved, NothingYet, Settled
<1>6. OneOpen'
  BY <1>4, NoneAssumption DEF ReceiptsInv, OneOpen, Moved
<1>7. Pending'
  BY <1>2, <1>4 DEF ReceiptsInv, Pending, Moved
<1>8. ActionInv'
  BY <1>4 DEF ReceiptsInv, ActionInv, Moved
<1>9. ResendReplacesSeen'
  BY <1>4 DEF ReceiptsInv, ResendReplacesSeen
<1> QED BY <1>1, <1>3, <1>4, <1>5, <1>6, <1>7, <1>8, <1>9 DEF ReceiptsInv

(* The answer to a refresh is applied.                                     *)
LEMMA ApplyFetchedKeeps ==
    ASSUME ReceiptsInv, ApplyFetched
    PROVE  ReceiptsInv'
<1>1. Applying(fetched, "none", None) /\ Apply(fetched, "none", None)
  BY DEF ApplyFetched, Applying
<1>2. fetched \in Held
  BY <1>1, ApplyingFacts
<1>3. Moved /\ NewerNeverRefused' /\ desk'.receipt \in {desk.receipt, fetched}
  BY <1>1, ApplyMoves
<1> QED BY <1>2, <1>3, AppliedKeeps DEF ApplyFetched

(* The answer to an action is applied.                                     *)
LEMMA ApplyActionKeeps ==
    ASSUME ReceiptsInv, ApplyAction
    PROVE  ReceiptsInv'
<1> DEFINE r == action.reply
<1>1. Applying(r, action.kind, action.request)
      /\ Apply(r, action.kind, action.request)
  BY DEF ApplyAction, Applying
<1>2. r \in Held
  BY <1>1, ApplyingFacts
<1>3. Moved /\ NewerNeverRefused' /\ desk'.receipt \in {desk.receipt, r}
  BY <1>1, ApplyMoves
<1> QED BY <1>2, <1>3, AppliedKeeps DEF ApplyAction

-----------------------------------------------------------------------------

(* The invariant holds in the initial states.                              *)
LEMMA ReceiptsStart == ReceiptsInit => ReceiptsInv
<1> SUFFICES ASSUME ReceiptsInit PROVE ReceiptsInv
  OBVIOUS
<1>1. Init /\ desk = NewDesk /\ action = None /\ fetched = None
      /\ intent = [q \in Requests |-> None] /\ refusals = {}
  BY DEF ReceiptsInit
<1>2. PagesInv
  BY <1>1, PagesStart
<1>3. desk \in DeskType /\ desk.receipt = None /\ desk.resend = None
      /\ desk.from = None
  BY <1>1 DEF NewDesk, DeskType
<1>4. Held = {}
  BY <1>1, <1>3 DEF Held
<1>5. DeskTypes
  BY <1>1, <1>3 DEF DeskTypes
<1>6. ~Published /\ \A q \in Requests : resends[q] = None
  BY <1>1 DEF Init, Published
<1>7. CreatedInOrder
  BY <1>1, <1>6 DEF CreatedInOrder, Init, NoNotice
<1>8. OrderInv /\ NothingYet /\ OneOpen /\ Settled /\ Pending /\ ActionInv
  BY <1>1, <1>3, <1>4, <1>6 DEF OrderInv, NothingYet, OneOpen, Settled,
     Pending, ActionInv
<1>9. NewerNeverRefused /\ ResendReplacesSeen
  BY <1>1, <1>6 DEF NewerNeverRefused, ResendReplacesSeen
<1> QED BY <1>2, <1>5, <1>7, <1>8, <1>9 DEF ReceiptsInv

(* Every step of the composition keeps the invariant.                      *)
LEMMA ReceiptsStep ==
    ASSUME ReceiptsInv, [ReceiptsNext]_allVars
    PROVE  ReceiptsInv'
<1>0. PagesInv
  BY DEF ReceiptsInv
<1>1. CASE ServerStep
  <2>1. ASSUME NEW at \in Readings, ServeRevoke(at) PROVE ReceiptsInv'
    <3>1. PagesInv' /\ Quiet
      BY <1>0, <2>1, QuietSteps DEF ServeRevoke
    <3> QED BY <2>1, <3>1, QuietKeeps DEF ServeRevoke
  <2>2. ASSUME NEW at \in Readings, Background(at), UNCHANGED <<now, deskVars>>
        PROVE  ReceiptsInv'
    <3>1. PagesInv' /\ Quiet
      BY <1>0, <2>2, QuietSteps
    <3> QED BY <2>2, <3>1, QuietKeeps
  <2> QED BY <1>1, <2>1, <2>2, PublishKeepsAll, ServeResendKeepsAll
          DEF ServerStep
<1>2. CASE DesktopStep
  BY <1>2, FetchKeeps, ApplyFetchedKeeps, LoseFetchedKeeps,
     RegisterResendKeeps, RegisterRevokeKeeps, AnswerActionKeeps,
     ApplyActionKeeps, LoseActionKeeps DEF DesktopStep
<1>3. CASE Tick /\ UNCHANGED deskVars
  BY <1>0, <1>3, QuietTick, QuietKeeps
<1>4. CASE UNCHANGED allVars
  <2>1. Quiet /\ PagesInv'
    <3>1. res.updated_at \in Nat /\ now \in Nat
      BY <1>0, ResultFields DEF PagesInv, PageTypes
    <3>2. UNCHANGED <<now, serverVars>> /\ UNCHANGED <<now, res, notice, resends>>
      BY <1>4 DEF allVars, serverVars
    <3>3. PagesInv'
      BY <3>2, ServerStays
    <3> QED BY <3>1, <3>2, <3>3 DEF Quiet, Forward, NoneCreated
  <2>2. UNCHANGED deskVars
    BY <1>4 DEF allVars
  <2> QED BY <2>1, <2>2, QuietKeeps
<1> QED BY <1>1, <1>2, <1>3, <1>4 DEF ReceiptsNext

(* The invariant of the desktop and the server holds in every state.       *)
THEOREM ReceiptsInvariance == ReceiptsSpec => []ReceiptsInv
BY ReceiptsStart, ReceiptsStep, PTL DEF ReceiptsSpec

(* No receipt newer than the one the desktop has is ever refused by        *)
(* apply_inner, whatever refreshes, actions, lost answers, late requests,  *)
(* revocations and retention rounds come between.                          *)
THEOREM NewerIsNeverRefused == ReceiptsSpec => []NewerNeverRefused
<1>1. ReceiptsInv => NewerNeverRefused
  BY DEF ReceiptsInv
<1> QED BY <1>1, ReceiptsInvariance, PTL

(* Every resend the server performs replaces exactly the notice the user   *)
(* saw when the request was registered, for any number of requests,        *)
(* retries and late arrivals.                                              *)
THEOREM ResendsReplaceWhatWasSeen == ReceiptsSpec => []ResendReplacesSeen
<1>1. ReceiptsInv => ResendReplacesSeen
  BY DEF ReceiptsInv
<1> QED BY <1>1, ReceiptsInvariance, PTL

(* The composition implements the result pages on their own: every step of *)
(* it is a step of the server or leaves the server alone, so the theorems  *)
(* above hold of it too.                                                   *)
THEOREM ReceiptsImplementPages == ReceiptsSpec => Spec
<1>1. ReceiptsInit => Init
  BY DEF ReceiptsInit
<1>2. ASSUME [ReceiptsNext]_allVars PROVE [Next]_vars
  <2>1. CASE ServerStep
    <3>1. ASSUME NEW at \in Readings, NEW q \in Requests, NEW n \in Notices,
                 ServeResend(q, n, at)
          PROVE  Next
      BY <3>1 DEF ServeResend, Next
    <3>2. ASSUME NEW at \in Readings, ServeRevoke(at) PROVE Next
      BY <3>2 DEF ServeRevoke, Next
    <3>3. ASSUME NEW at \in Readings, NEW n \in Notices,
                 NEW e \in 0..(MaxTime + PageTTL), Publish(n, at, e),
                 UNCHANGED <<now, deskVars>>
          PROVE  Next
      BY <3>3 DEF Next
    <3>4. ASSUME NEW at \in Readings, Background(at), UNCHANGED <<now, deskVars>>
          PROVE  Next
      BY <3>4 DEF Next
    <3> QED BY <2>1, <3>1, <3>2, <3>3, <3>4 DEF ServerStep
  <2>2. CASE DesktopStep
    <3>1. UNCHANGED <<now, serverVars>>
      BY <2>2 DEF DesktopStep, Fetch, ApplyFetched, LoseFetched,
         RegisterResend, RegisterRevoke, AnswerAction, ApplyAction, LoseAction
    <3> QED BY <3>1 DEF vars
  <2>3. CASE Tick /\ UNCHANGED deskVars
    BY <2>3 DEF Next
  <2>4. CASE UNCHANGED allVars
    BY <2>4 DEF allVars, vars
  <2> QED BY <1>2, <2>1, <2>2, <2>3, <2>4 DEF ReceiptsNext
<1> QED BY <1>1, <1>2, PTL DEF ReceiptsSpec, Spec

=============================================================================
