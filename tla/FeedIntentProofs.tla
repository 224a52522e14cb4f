--------------------------- MODULE FeedIntentProofs ---------------------------
(***************************************************************************)
(* What the cursor of a feed account promises for any number of changes,   *)
(* messages, crashes and losses: the hold exists exactly while a POST is   *)
(* unsettled, and no POST is sent over one that may have been accepted.    *)
(*                                                                         *)
(* IInv is the inductive invariant.  FlushInv says what the flush that     *)
(* holds the advisory lock may rely on between two of its steps, CursorInv *)
(* ties the cursor to the unsettled POST and to what Avito is known to     *)
(* hold, QueueInv bounds the revisions of messages that are still around.  *)
(***************************************************************************)
EXTENDS FeedIntent, TLAPS

(* No message names a revision that is not there yet.                      *)
QueueInv ==
    /\ \A m \in msgs : m.rev <= desired
    /\ \A q \in requests : q.rev <= desired

(* Every committed change is at most n, excepted, or not recorded.         *)
SeenBy(n) ==
    \A c \in 1..changes : c <= n \/ Rejected(c) \/ c \in Unrecorded

(* With the dual_write ingress the cursor counts the changes; a notice is  *)
(* about a change that is committed.                                       *)
ChangeInv ==
    /\ ingress = "dual_write" => desired = changes
    /\ notices \subseteq 1..changes

(* The flush works on a revision nobody acknowledged meanwhile, and it     *)
(* holds the only unsettled boundary once it has claimed one.  While no    *)
(* newer revision is desired, what it read was everything recorded.        *)
FlushInv ==
    /\ fpc # "idle" => /\ frev \in Revisions /\ frev <= desired
                        /\ dispatched < frev /\ ftok \in Tokens
    /\ fpc = "superseded" => frev < desired
    /\ fpc = "refused" => ingress = "legacy" \/ frev < desired
    /\ fpc \in {"loaded", "closed", "superseded", "nothing", "refused"} => boundary = 0
    /\ fpc \in {"boundary", "accepted", "rejected", "ambiguous"} => boundary = frev
    /\ fpc \in {"nothing", "refused", "boundary", "accepted", "rejected", "ambiguous"}
          => (frev = desired => SeenBy(fseen))
    /\ fpc = "accepted" => covered >= fseen
    /\ fpc \in {"boundary", "rejected"} => ~sent

(* The hold, and what an acknowledged revision stands for.                 *)
CursorInv ==
    /\ dispatched <= desired
    /\ boundary # 0 => desired > dispatched /\ due = "null"
    /\ boundary = 0 => (desired > dispatched => due # "null")
    /\ sent => boundary # 0
    /\ dispatched = desired => SeenBy(covered)

IInv == TypeOK /\ QueueInv /\ ChangeInv /\ FlushInv /\ CursorInv

-----------------------------------------------------------------------------
(* A publication never gives held work a due time, nor takes one away.     *)
LEMMA ScheduleKeeps ==
    ASSUME TypeOK, NEW r \in Revisions, NEW t \in Tokens, NEW transfer \in BOOLEAN,
           NEW base \in SUBSET Messages, Schedule(r, t, transfer, base)
    PROVE  /\ due' \in {"null", "future", "passed"}
           /\ due' = "null" <=> due = "null"
           /\ marker' \in Tokens \union {NoToken}
           /\ msgs' \subseteq Messages
           /\ \A m \in msgs' : m \in base \/ m.rev = r
           /\ faults' \in 0..MaxFaults
<1> DEFINE published == base \union {[rev |-> r, tok |-> t]}
<1>1. msgs' \in {base, published}
  BY DEF Schedule
<1>2. [rev |-> r, tok |-> t] \in Messages
  BY DEF Messages
<1>3. due' \in {due, Leased(r)}
  BY DEF Schedule
<1>4. marker' \in {marker, t, NoToken}
  BY DEF Schedule
<1>5. faults' \in 0..MaxFaults
  BY FeedIntentAssumption DEF Schedule, Fault, TypeOK
<1> QED
  BY <1>1, <1>2, <1>3, <1>4, <1>5 DEF TypeOK, Leased

(* The acknowledged revision only grows.                                   *)
LEMMA LargerType ==
    ASSUME NEW a \in Nat, NEW b \in Nat
    PROVE  /\ Larger(a, b) \in {a, b}
           /\ Larger(a, b) >= a /\ Larger(a, b) >= b
  BY DEF Larger

(* Initially nothing is wanted and nothing is sent.                        *)
LEMMA InvariantInit == Init => IInv
<1> SUFFICES ASSUME Init PROVE IInv
  OBVIOUS
<1>1. TypeOK
  <2>1. sent \in BOOLEAN /\ windowOpen \in BOOLEAN
    BY DEF Init
  <2> QED
    BY <2>1, FeedIntentAssumption DEF Init, TypeOK, FlushPCs
<1>2. QueueInv /\ ChangeInv
  BY DEF Init, QueueInv, ChangeInv
<1>3. FlushInv
  BY DEF Init, FlushInv
<1>4. CursorInv
  BY DEF Init, CursorInv, SeenBy
<1> QED
  BY <1>1, <1>2, <1>3, <1>4 DEF IInv

(* Every step keeps it. *)
LEMMA InvariantStep == IInv /\ [Next]_vars => IInv'
<1> SUFFICES ASSUME IInv, [Next]_vars PROVE IInv'
  OBVIOUS
<1> USE FeedIntentAssumption DEF IInv
<1>1. CASE Change
  <2>1. TypeOK'
    <3>1. desired' \in 0..MaxRevision /\ dispatched' \in 0..MaxRevision
      BY <1>1 DEF TypeOK, Change, Advance
    <3>2. due' \in {"null", "future", "passed"} /\ windowOpen' \in BOOLEAN
      BY <1>1 DEF TypeOK, Change, Advance, BumpedDue, Held
    <3>3. marker' \in Tokens \union {NoToken}
      BY <1>1 DEF TypeOK, Change, queueVars
    <3>4. msgs' \subseteq Messages /\ requests' \subseteq Requests
      BY <1>1 DEF TypeOK, Change, Advance, queueVars, Revisions
    <3>5. /\ ingress' \in {"legacy", "dual_write"} /\ changes' \in 0..MaxRevision
          /\ notices' \subseteq Revisions /\ lost' \subseteq Revisions
      BY <1>1 DEF TypeOK, Change, Advance, Revisions
    <3>6. fpc' \in FlushPCs
      BY <1>1 DEF TypeOK, Change, flushVars
    <3>7. frev' \in 0..MaxRevision /\ ftok' \in Tokens \union {NoToken}
      BY <1>1 DEF TypeOK, Change, flushVars, Revisions
    <3>8. fseen' \in 0..MaxRevision
      BY <1>1 DEF TypeOK, Change, flushVars
    <3>9. boundary' \in 0..MaxRevision
      BY <1>1 DEF TypeOK, Change, historyVars
    <3>10. sent' \in BOOLEAN
      BY <1>1 DEF TypeOK, Change, historyVars
    <3>11. covered' \in 0..MaxRevision
      BY <1>1 DEF TypeOK, Change, historyVars
    <3>12. refused' \in 0..MaxRevision /\ faults' \in 0..MaxFaults
      BY <1>1 DEF TypeOK, Change, historyVars
    <3> QED
      BY <3>1, <3>2, <3>3, <3>4, <3>5, <3>6, <3>7, <3>8, <3>9, <3>10, <3>11, <3>12
      DEF TypeOK
  <2>2. QueueInv'
    BY <1>1
    DEF TypeOK, QueueInv, FlushInv, Change, Advance, BumpedDue, Held,
        queueVars, flushVars, historyVars, Messages, Requests, Revisions
  <2>3. ChangeInv'
    BY <1>1
    DEF TypeOK, ChangeInv, Change, Advance, BumpedDue, Held, queueVars,
        flushVars, historyVars, Revisions
  <2>4. FlushInv'
    BY <1>1
    DEF TypeOK, QueueInv, ChangeInv, FlushInv, CursorInv, SeenBy, Rejected,
        Unrecorded, Change, Advance, BumpedDue, Held, queueVars, flushVars,
        historyVars
  <2>5. CursorInv'
    BY <1>1
    DEF TypeOK, ChangeInv, FlushInv, CursorInv, SeenBy, Rejected, Unrecorded,
        Change, Advance, BumpedDue, Held, queueVars, flushVars, historyVars
  <2> QED
    BY <2>1, <2>2, <2>3, <2>4, <2>5
<1>2. ASSUME NEW c \in notices, NoticeLost(c)
      PROVE  IInv'
  <2>1. TypeOK'
    BY <1>2
    DEF TypeOK, NoticeLost, Fault, cursorVars, queueVars, flushVars,
        historyVars
  <2>2. QueueInv'
    BY <1>2
    DEF TypeOK, QueueInv, FlushInv, NoticeLost, Fault, cursorVars, queueVars,
        flushVars, historyVars, Messages, Requests, Revisions
  <2>3. ChangeInv'
    BY <1>2
    DEF TypeOK, ChangeInv, NoticeLost, Fault, cursorVars, queueVars,
        flushVars, historyVars
  <2>4. FlushInv'
    BY <1>2
    DEF TypeOK, QueueInv, ChangeInv, FlushInv, CursorInv, SeenBy, Rejected,
        Unrecorded, NoticeLost, Fault, cursorVars, queueVars, flushVars,
        historyVars
  <2>5. CursorInv'
    BY <1>2
    DEF TypeOK, ChangeInv, FlushInv, CursorInv, SeenBy, Rejected, Unrecorded,
        NoticeLost, Fault, cursorVars, queueVars, flushVars, historyVars
  <2> QED
    BY <2>1, <2>2, <2>3, <2>4, <2>5
<1>3. ASSUME NEW c \in notices, RequestFlush(c)
      PROVE  IInv'
  <2>1. TypeOK'
    <3>1. desired' \in 0..MaxRevision /\ dispatched' \in 0..MaxRevision
      BY <1>3 DEF TypeOK, RequestFlush, Advance
    <3>2. due' \in {"null", "future", "passed"} /\ windowOpen' \in BOOLEAN
      BY <1>3 DEF TypeOK, RequestFlush, Advance, BumpedDue, Held
    <3>3. marker' \in Tokens \union {NoToken}
      BY <1>3 DEF TypeOK, RequestFlush
    <3>4. msgs' \subseteq Messages /\ requests' \subseteq Requests
      BY <1>3
      DEF TypeOK, RequestFlush, Advance, ChangeInv, Requests, Revisions
    <3>5. /\ ingress' \in {"legacy", "dual_write"} /\ changes' \in 0..MaxRevision
          /\ notices' \subseteq Revisions /\ lost' \subseteq Revisions
      BY <1>3 DEF TypeOK, RequestFlush, Advance, ChangeInv, Revisions
    <3>6. fpc' \in FlushPCs
      BY <1>3 DEF TypeOK, RequestFlush, flushVars
    <3>7. frev' \in 0..MaxRevision /\ ftok' \in Tokens \union {NoToken}
      BY <1>3 DEF TypeOK, RequestFlush, flushVars, Revisions
    <3>8. fseen' \in 0..MaxRevision
      BY <1>3 DEF TypeOK, RequestFlush, flushVars
    <3>9. boundary' \in 0..MaxRevision
      BY <1>3 DEF TypeOK, RequestFlush, historyVars
    <3>10. sent' \in BOOLEAN
      BY <1>3 DEF TypeOK, RequestFlush, historyVars
    <3>11. covered' \in 0..MaxRevision
      BY <1>3 DEF TypeOK, RequestFlush, historyVars
    <3>12. refused' \in 0..MaxRevision /\ faults' \in 0..MaxFaults
      BY <1>3 DEF TypeOK, RequestFlush, historyVars
    <3> QED
      BY <3>1, <3>2, <3>3, <3>4, <3>5, <3>6, <3>7, <3>8, <3>9, <3>10, <3>11, <3>12
      DEF TypeOK
  <2>2. QueueInv'
    BY <1>3
    DEF TypeOK, QueueInv, FlushInv, RequestFlush, Advance, BumpedDue, Held,
        flushVars, historyVars, Messages, Requests, Revisions
  <2>3. ChangeInv'
    BY <1>3
    DEF TypeOK, ChangeInv, RequestFlush, Advance, BumpedDue, Held, flushVars,
        historyVars, Revisions
  <2>4. FlushInv'
    BY <1>3
    DEF TypeOK, QueueInv, ChangeInv, FlushInv, CursorInv, SeenBy, Rejected,
        Unrecorded, RequestFlush, Advance, BumpedDue, Held, flushVars,
        historyVars
  <2>5. CursorInv'
    BY <1>3
    DEF TypeOK, ChangeInv, FlushInv, CursorInv, SeenBy, Rejected, Unrecorded,
        RequestFlush, Advance, BumpedDue, Held, flushVars, historyVars
  <2> QED
    BY <2>1, <2>2, <2>3, <2>4, <2>5
<1>4. ASSUME NEW q \in requests, NEW t \in Tokens, RequestSchedule(q, t)
      PROVE  IInv'
  <2>1. /\ q.rev \in Revisions /\ q.rev <= desired /\ t \in Tokens
        /\ msgs \subseteq Messages /\ Schedule(q.rev, t, FALSE, msgs)
    BY <1>4 DEF TypeOK, QueueInv, RequestSchedule, Requests
  <2>2. /\ due' \in {"null", "future", "passed"}
        /\ due' = "null" <=> due = "null"
        /\ marker' \in Tokens \union {NoToken} /\ msgs' \subseteq Messages
        /\ \A x \in msgs' : x \in msgs \/ x.rev = q.rev
        /\ faults' \in 0..MaxFaults
    BY <2>1, ScheduleKeeps
  <2>3. TypeOK'
    BY <1>4, <2>1, <2>2
    DEF TypeOK, RequestSchedule, changeVars, flushVars, historyVars
  <2>4. QueueInv'
    BY <1>4, <2>1, <2>2
    DEF TypeOK, QueueInv, FlushInv, RequestSchedule, changeVars, flushVars,
        historyVars, Messages, Requests, Revisions
  <2>5. ChangeInv'
    BY <1>4, <2>1, <2>2
    DEF TypeOK, ChangeInv, RequestSchedule, changeVars, flushVars, historyVars
  <2>6. FlushInv'
    BY <1>4, <2>1, <2>2
    DEF TypeOK, QueueInv, ChangeInv, FlushInv, CursorInv, SeenBy, Rejected,
        Unrecorded, RequestSchedule, changeVars, flushVars, historyVars
  <2>7. CursorInv'
    BY <1>4, <2>1, <2>2
    DEF TypeOK, ChangeInv, FlushInv, CursorInv, SeenBy, Rejected, Unrecorded,
        RequestSchedule, changeVars, flushVars, historyVars
  <2> QED
    BY <2>3, <2>4, <2>5, <2>6, <2>7
<1>5. ASSUME NEW q \in requests, RequestLost(q)
      PROVE  IInv'
  <2>1. TypeOK'
    BY <1>5
    DEF TypeOK, RequestLost, Fault, cursorVars, changeVars, flushVars,
        historyVars
  <2>2. QueueInv'
    BY <1>5
    DEF TypeOK, QueueInv, FlushInv, RequestLost, Fault, cursorVars,
        changeVars, flushVars, historyVars, Messages, Requests, Revisions
  <2>3. ChangeInv'
    BY <1>5
    DEF TypeOK, ChangeInv, RequestLost, Fault, cursorVars, changeVars,
        flushVars, historyVars
  <2>4. FlushInv'
    BY <1>5
    DEF TypeOK, QueueInv, ChangeInv, FlushInv, CursorInv, SeenBy, Rejected,
        Unrecorded, RequestLost, Fault, cursorVars, changeVars, flushVars,
        historyVars
  <2>5. CursorInv'
    BY <1>5
    DEF TypeOK, ChangeInv, FlushInv, CursorInv, SeenBy, Rejected, Unrecorded,
        RequestLost, Fault, cursorVars, changeVars, flushVars, historyVars
  <2> QED
    BY <2>1, <2>2, <2>3, <2>4, <2>5
<1>6. ASSUME NEW t \in Tokens, Repair(t)
      PROVE  IInv'
  <2>1. /\ desired \in Revisions /\ desired <= desired /\ t \in Tokens
        /\ msgs \subseteq Messages /\ Schedule(desired, t, FALSE, msgs)
    <3>1. desired \in Revisions
      BY <1>6 DEF TypeOK, Repair, Revisions
    <3>2. Schedule(desired, t, FALSE, msgs)
      BY <1>6 DEF Repair
    <3>3. t \in Tokens
      BY <1>6
    <3>4. msgs \subseteq Messages
      BY DEF TypeOK
    <3>5. desired <= desired
      BY <3>1 DEF Revisions
    <3> QED
      BY <3>1, <3>2, <3>3, <3>4, <3>5
  <2>2. /\ due' \in {"null", "future", "passed"}
        /\ due' = "null" <=> due = "null"
        /\ marker' \in Tokens \union {NoToken} /\ msgs' \subseteq Messages
        /\ \A x \in msgs' : x \in msgs \/ x.rev = desired
        /\ faults' \in 0..MaxFaults
    BY <2>1, ScheduleKeeps
  <2>3. TypeOK'
    BY <1>6, <2>1, <2>2 DEF TypeOK, Repair, changeVars, flushVars, historyVars
  <2>4. QueueInv'
    BY <1>6, <2>1, <2>2
    DEF TypeOK, QueueInv, FlushInv, Repair, changeVars, flushVars,
        historyVars, Messages, Requests, Revisions
  <2>5. ChangeInv'
    BY <1>6, <2>1, <2>2
    DEF TypeOK, ChangeInv, Repair, changeVars, flushVars, historyVars
  <2>6. FlushInv'
    BY <1>6, <2>1, <2>2
    DEF TypeOK, QueueInv, ChangeInv, FlushInv, CursorInv, SeenBy, Rejected,
        Unrecorded, Repair, changeVars, flushVars, historyVars
  <2>7. CursorInv'
    BY <1>6, <2>1, <2>2
    DEF TypeOK, ChangeInv, FlushInv, CursorInv, SeenBy, Rejected, Unrecorded,
        Repair, changeVars, flushVars, historyVars
  <2> QED
    BY <2>3, <2>4, <2>5, <2>6, <2>7
<1>7. ASSUME NEW m \in msgs, LoseMessage(m)
      PROVE  IInv'
  <2>1. TypeOK'
    BY <1>7
    DEF TypeOK, LoseMessage, Fault, cursorVars, changeVars, flushVars,
        historyVars
  <2>2. QueueInv'
    BY <1>7
    DEF TypeOK, QueueInv, FlushInv, LoseMessage, Fault, cursorVars,
        changeVars, flushVars, historyVars, Messages, Requests, Revisions
  <2>3. ChangeInv'
    BY <1>7
    DEF TypeOK, ChangeInv, LoseMessage, Fault, cursorVars, changeVars,
        flushVars, historyVars
  <2>4. FlushInv'
    BY <1>7
    DEF TypeOK, QueueInv, ChangeInv, FlushInv, CursorInv, SeenBy, Rejected,
        Unrecorded, LoseMessage, Fault, cursorVars, changeVars, flushVars,
        historyVars
  <2>5. CursorInv'
    BY <1>7
    DEF TypeOK, ChangeInv, FlushInv, CursorInv, SeenBy, Rejected, Unrecorded,
        LoseMessage, Fault, cursorVars, changeVars, flushVars, historyVars
  <2> QED
    BY <2>1, <2>2, <2>3, <2>4, <2>5
<1>8. CASE DueArrives
  <2>1. TypeOK'
    BY <1>8
    DEF TypeOK, DueArrives, queueVars, changeVars, flushVars, historyVars
  <2>2. QueueInv'
    BY <1>8
    DEF TypeOK, QueueInv, FlushInv, DueArrives, queueVars, changeVars,
        flushVars, historyVars, Messages, Requests, Revisions
  <2>3. ChangeInv'
    BY <1>8
    DEF TypeOK, ChangeInv, DueArrives, queueVars, changeVars, flushVars,
        historyVars
  <2>4. FlushInv'
    BY <1>8
    DEF TypeOK, QueueInv, ChangeInv, FlushInv, CursorInv, SeenBy, Rejected,
        Unrecorded, DueArrives, queueVars, changeVars, flushVars, historyVars
  <2>5. CursorInv'
    BY <1>8
    DEF TypeOK, ChangeInv, FlushInv, CursorInv, SeenBy, Rejected, Unrecorded,
        DueArrives, queueVars, changeVars, flushVars, historyVars
  <2> QED
    BY <2>1, <2>2, <2>3, <2>4, <2>5
<1>9. CASE WindowOpens
  <2>1. TypeOK'
    BY <1>9
    DEF TypeOK, WindowOpens, cursorVars, queueVars, changeVars, flushVars,
        historyVars
  <2>2. QueueInv'
    BY <1>9
    DEF TypeOK, QueueInv, FlushInv, WindowOpens, cursorVars, queueVars,
        changeVars, flushVars, historyVars, Messages, Requests, Revisions
  <2>3. ChangeInv'
    BY <1>9
    DEF TypeOK, ChangeInv, WindowOpens, cursorVars, queueVars, changeVars,
        flushVars, historyVars
  <2>4. FlushInv'
    BY <1>9
    DEF TypeOK, QueueInv, ChangeInv, FlushInv, CursorInv, SeenBy, Rejected,
        Unrecorded, WindowOpens, cursorVars, queueVars, changeVars, flushVars,
        historyVars
  <2>5. CursorInv'
    BY <1>9
    DEF TypeOK, ChangeInv, FlushInv, CursorInv, SeenBy, Rejected, Unrecorded,
        WindowOpens, cursorVars, queueVars, changeVars, flushVars, historyVars
  <2> QED
    BY <2>1, <2>2, <2>3, <2>4, <2>5
<1>10. CASE MarkerExpires
  <2>1. TypeOK'
    BY <1>10
    DEF TypeOK, MarkerExpires, Fault, cursorVars, changeVars, flushVars,
        historyVars
  <2>2. QueueInv'
    BY <1>10
    DEF TypeOK, QueueInv, FlushInv, MarkerExpires, Fault, cursorVars,
        changeVars, flushVars, historyVars, Messages, Requests, Revisions
  <2>3. ChangeInv'
    BY <1>10
    DEF TypeOK, ChangeInv, MarkerExpires, Fault, cursorVars, changeVars,
        flushVars, historyVars
  <2>4. FlushInv'
    BY <1>10
    DEF TypeOK, QueueInv, ChangeInv, FlushInv, CursorInv, SeenBy, Rejected,
        Unrecorded, MarkerExpires, Fault, cursorVars, changeVars, flushVars,
        historyVars
  <2>5. CursorInv'
    BY <1>10
    DEF TypeOK, ChangeInv, FlushInv, CursorInv, SeenBy, Rejected, Unrecorded,
        MarkerExpires, Fault, cursorVars, changeVars, flushVars, historyVars
  <2> QED
    BY <2>1, <2>2, <2>3, <2>4, <2>5
<1>11. ASSUME NEW m \in msgs, OwnedByReplacement(m)
      PROVE  IInv'
  <2>1. TypeOK'
    BY <1>11
    DEF TypeOK, OwnedByReplacement, cursorVars, changeVars, flushVars,
        historyVars
  <2>2. QueueInv'
    BY <1>11
    DEF TypeOK, QueueInv, FlushInv, OwnedByReplacement, cursorVars,
        changeVars, flushVars, historyVars, Messages, Requests, Revisions
  <2>3. ChangeInv'
    BY <1>11
    DEF TypeOK, ChangeInv, OwnedByReplacement, cursorVars, changeVars,
        flushVars, historyVars
  <2>4. FlushInv'
    BY <1>11
    DEF TypeOK, QueueInv, ChangeInv, FlushInv, CursorInv, SeenBy, Rejected,
        Unrecorded, OwnedByReplacement, cursorVars, changeVars, flushVars,
        historyVars
  <2>5. CursorInv'
    BY <1>11
    DEF TypeOK, ChangeInv, FlushInv, CursorInv, SeenBy, Rejected, Unrecorded,
        OwnedByReplacement, cursorVars, changeVars, flushVars, historyVars
  <2> QED
    BY <2>1, <2>2, <2>3, <2>4, <2>5
<1>12. ASSUME NEW m \in msgs, LockBusy(m)
      PROVE  IInv'
  <2>1. /\ m.rev \in Revisions /\ m.rev <= desired /\ m.tok \in Tokens
        /\ msgs \ {m} \subseteq Messages /\ Schedule(m.rev, m.tok, TRUE, msgs \ {m})
    BY <1>12 DEF TypeOK, QueueInv, LockBusy, Messages
  <2>2. /\ due' \in {"null", "future", "passed"}
        /\ due' = "null" <=> due = "null"
        /\ marker' \in Tokens \union {NoToken} /\ msgs' \subseteq Messages
        /\ \A x \in msgs' : x \in msgs \ {m} \/ x.rev = m.rev
        /\ faults' \in 0..MaxFaults
    BY <2>1, ScheduleKeeps
  <2>3. TypeOK'
    BY <1>12, <2>1, <2>2
    DEF TypeOK, LockBusy, changeVars, flushVars, historyVars
  <2>4. QueueInv'
    BY <1>12, <2>1, <2>2
    DEF TypeOK, QueueInv, FlushInv, LockBusy, changeVars, flushVars,
        historyVars, Messages, Requests, Revisions
  <2>5. ChangeInv'
    BY <1>12, <2>1, <2>2
    DEF TypeOK, ChangeInv, LockBusy, changeVars, flushVars, historyVars
  <2>6. FlushInv'
    BY <1>12, <2>1, <2>2
    DEF TypeOK, QueueInv, ChangeInv, FlushInv, CursorInv, SeenBy, Rejected,
        Unrecorded, LockBusy, changeVars, flushVars, historyVars
  <2>7. CursorInv'
    BY <1>12, <2>1, <2>2
    DEF TypeOK, ChangeInv, FlushInv, CursorInv, SeenBy, Rejected, Unrecorded,
        LockBusy, changeVars, flushVars, historyVars
  <2> QED
    BY <2>3, <2>4, <2>5, <2>6, <2>7
<1>13. ASSUME NEW m \in msgs, StartFlush(m)
      PROVE  IInv'
  <2>1. TypeOK'
    <3>1. desired' \in 0..MaxRevision /\ dispatched' \in 0..MaxRevision
      BY <1>13 DEF TypeOK, StartFlush, cursorVars
    <3>2. due' \in {"null", "future", "passed"} /\ windowOpen' \in BOOLEAN
      BY <1>13 DEF TypeOK, StartFlush, Held, cursorVars
    <3>3. marker' \in Tokens \union {NoToken}
      BY <1>13 DEF TypeOK, StartFlush, ClearMarker
    <3>4. msgs' \subseteq Messages /\ requests' \subseteq Requests
      BY <1>13 DEF TypeOK, StartFlush, Messages, Revisions
    <3>5. /\ ingress' \in {"legacy", "dual_write"} /\ changes' \in 0..MaxRevision
          /\ notices' \subseteq Revisions /\ lost' \subseteq Revisions
      BY <1>13 DEF TypeOK, StartFlush, changeVars, Revisions
    <3>6. fpc' \in FlushPCs
      BY <1>13 DEF TypeOK, StartFlush, flushVars, FlushPCs
    <3>7. frev' \in 0..MaxRevision /\ ftok' \in Tokens \union {NoToken}
      BY <1>13 DEF TypeOK, StartFlush, flushVars, Messages, Revisions
    <3>8. fseen' \in 0..MaxRevision
      BY <1>13 DEF TypeOK, StartFlush, flushVars
    <3>9. boundary' \in 0..MaxRevision
      BY <1>13 DEF TypeOK, StartFlush, historyVars
    <3>10. sent' \in BOOLEAN
      BY <1>13 DEF TypeOK, StartFlush, historyVars
    <3>11. covered' \in 0..MaxRevision
      BY <1>13 DEF TypeOK, StartFlush, historyVars
    <3>12. refused' \in 0..MaxRevision /\ faults' \in 0..MaxFaults
      BY <1>13 DEF TypeOK, StartFlush, historyVars
    <3> QED
      BY <3>1, <3>2, <3>3, <3>4, <3>5, <3>6, <3>7, <3>8, <3>9, <3>10, <3>11, <3>12
      DEF TypeOK
  <2>2. QueueInv'
    BY <1>13
    DEF TypeOK, QueueInv, FlushInv, StartFlush, ClearMarker, Held, cursorVars,
        changeVars, flushVars, historyVars, Messages, Requests, Revisions
  <2>3. ChangeInv'
    BY <1>13
    DEF TypeOK, ChangeInv, StartFlush, ClearMarker, Held, cursorVars,
        changeVars, flushVars, historyVars
  <2>4. FlushInv'
    BY <1>13
    DEF TypeOK, QueueInv, ChangeInv, FlushInv, CursorInv, SeenBy, Rejected,
        Unrecorded, StartFlush, ClearMarker, Held, cursorVars, changeVars,
        flushVars, historyVars, Messages, Revisions
  <2>5. CursorInv'
    BY <1>13
    DEF TypeOK, ChangeInv, FlushInv, CursorInv, SeenBy, Rejected, Unrecorded,
        StartFlush, ClearMarker, Held, cursorVars, changeVars, flushVars,
        historyVars
  <2> QED
    BY <2>1, <2>2, <2>3, <2>4, <2>5
<1>14. CASE FlushPostponed
  <2>1. /\ frev \in Revisions /\ frev <= desired /\ ftok \in Tokens
        /\ msgs \subseteq Messages /\ Schedule(frev, ftok, TRUE, msgs)
    BY <1>14 DEF TypeOK, FlushInv, FlushPostponed
  <2>2. /\ due' \in {"null", "future", "passed"}
        /\ due' = "null" <=> due = "null"
        /\ marker' \in Tokens \union {NoToken} /\ msgs' \subseteq Messages
        /\ \A x \in msgs' : x \in msgs \/ x.rev = frev
        /\ faults' \in 0..MaxFaults
    BY <2>1, ScheduleKeeps
  <2>3. TypeOK'
    BY <1>14, <2>1, <2>2
    DEF TypeOK, FlushPostponed, IdleFlush, changeVars, historyVars, FlushPCs
  <2>4. QueueInv'
    BY <1>14, <2>1, <2>2
    DEF TypeOK, QueueInv, FlushInv, FlushPostponed, IdleFlush, changeVars,
        historyVars, Messages, Requests, Revisions
  <2>5. ChangeInv'
    BY <1>14, <2>1, <2>2
    DEF TypeOK, ChangeInv, FlushPostponed, IdleFlush, changeVars, historyVars
  <2>6. FlushInv'
    BY <1>14, <2>1, <2>2
    DEF TypeOK, QueueInv, ChangeInv, FlushInv, CursorInv, SeenBy, Rejected,
        Unrecorded, FlushPostponed, IdleFlush, changeVars, historyVars
  <2>7. CursorInv'
    BY <1>14, <2>1, <2>2
    DEF TypeOK, ChangeInv, FlushInv, CursorInv, SeenBy, Rejected, Unrecorded,
        FlushPostponed, IdleFlush, changeVars, historyVars
  <2> QED
    BY <2>3, <2>4, <2>5, <2>6, <2>7
<1>15. CASE FindNothing
  <2>1. TypeOK'
    BY <1>15
    DEF TypeOK, FindNothing, cursorVars, queueVars, changeVars, historyVars,
        FlushPCs
  <2>2. QueueInv'
    BY <1>15
    DEF TypeOK, QueueInv, FlushInv, FindNothing, cursorVars, queueVars,
        changeVars, historyVars, Messages, Requests, Revisions
  <2>3. ChangeInv'
    BY <1>15
    DEF TypeOK, ChangeInv, FindNothing, cursorVars, queueVars, changeVars,
        historyVars
  <2>4. FlushInv'
    BY <1>15
    DEF TypeOK, QueueInv, ChangeInv, FlushInv, CursorInv, SeenBy, Rejected,
        Unrecorded, FindNothing, cursorVars, queueVars, changeVars,
        historyVars
  <2>5. CursorInv'
    BY <1>15
    DEF TypeOK, ChangeInv, FlushInv, CursorInv, SeenBy, Rejected, Unrecorded,
        FindNothing, cursorVars, queueVars, changeVars, historyVars
  <2> QED
    BY <2>1, <2>2, <2>3, <2>4, <2>5
<1>16. CASE AutoloadOff
  <2>1. TypeOK'
    <3>1. desired' \in 0..MaxRevision /\ dispatched' \in 0..MaxRevision
      BY <1>16 DEF TypeOK, AutoloadOff, Advance
    <3>2. due' \in {"null", "future", "passed"} /\ windowOpen' \in BOOLEAN
      BY <1>16 DEF TypeOK, AutoloadOff, Advance, BumpedDue, Held
    <3>3. marker' \in Tokens \union {NoToken}
      BY <1>16 DEF TypeOK, AutoloadOff, queueVars
    <3>4. msgs' \subseteq Messages /\ requests' \subseteq Requests
      BY <1>16 DEF TypeOK, AutoloadOff, Advance, queueVars, ChangeInv
    <3>5. /\ ingress' \in {"legacy", "dual_write"} /\ changes' \in 0..MaxRevision
          /\ notices' \subseteq Revisions /\ lost' \subseteq Revisions
      BY <1>16 DEF TypeOK, AutoloadOff, Advance, ChangeInv
    <3>6. fpc' \in FlushPCs
      BY <1>16 DEF TypeOK, AutoloadOff, FlushPCs
    <3>7. frev' \in 0..MaxRevision /\ ftok' \in Tokens \union {NoToken}
      BY <1>16 DEF TypeOK, AutoloadOff
    <3>8. fseen' \in 0..MaxRevision
      BY <1>16 DEF TypeOK, AutoloadOff
    <3>9. boundary' \in 0..MaxRevision
      BY <1>16 DEF TypeOK, AutoloadOff, historyVars
    <3>10. sent' \in BOOLEAN
      BY <1>16 DEF TypeOK, AutoloadOff, historyVars
    <3>11. covered' \in 0..MaxRevision
      BY <1>16 DEF TypeOK, AutoloadOff, historyVars
    <3>12. refused' \in 0..MaxRevision /\ faults' \in 0..MaxFaults
      BY <1>16 DEF TypeOK, AutoloadOff, historyVars
    <3> QED
      BY <3>1, <3>2, <3>3, <3>4, <3>5, <3>6, <3>7, <3>8, <3>9, <3>10, <3>11, <3>12
      DEF TypeOK
  <2>2. QueueInv'
    BY <1>16
    DEF TypeOK, QueueInv, FlushInv, AutoloadOff, Advance, BumpedDue, Held,
        queueVars, historyVars, Messages, Requests, Revisions
  <2>3. ChangeInv'
    BY <1>16
    DEF TypeOK, ChangeInv, AutoloadOff, Advance, BumpedDue, Held, queueVars,
        historyVars, Revisions
  <2>4. FlushInv'
    BY <1>16
    DEF TypeOK, QueueInv, ChangeInv, FlushInv, CursorInv, SeenBy, Rejected,
        Unrecorded, AutoloadOff, Advance, BumpedDue, Held, queueVars,
        historyVars
  <2>5. CursorInv'
    BY <1>16
    DEF TypeOK, ChangeInv, FlushInv, CursorInv, SeenBy, Rejected, Unrecorded,
        AutoloadOff, Advance, BumpedDue, Held, queueVars, historyVars
  <2> QED
    BY <2>1, <2>2, <2>3, <2>4, <2>5
<1>17. CASE ClaimBoundary
  <2>1. TypeOK'
    <3>1. desired' \in 0..MaxRevision /\ dispatched' \in 0..MaxRevision
      BY <1>17 DEF TypeOK, ClaimBoundary
    <3>2. due' \in {"null", "future", "passed"} /\ windowOpen' \in BOOLEAN
      BY <1>17 DEF TypeOK, ClaimBoundary
    <3>3. marker' \in Tokens \union {NoToken}
      BY <1>17 DEF TypeOK, ClaimBoundary, queueVars
    <3>4. msgs' \subseteq Messages /\ requests' \subseteq Requests
      BY <1>17 DEF TypeOK, ClaimBoundary, queueVars
    <3>5. /\ ingress' \in {"legacy", "dual_write"} /\ changes' \in 0..MaxRevision
          /\ notices' \subseteq Revisions /\ lost' \subseteq Revisions
      BY <1>17 DEF TypeOK, ClaimBoundary, changeVars
    <3>6. fpc' \in FlushPCs
      BY <1>17 DEF TypeOK, ClaimBoundary, FlushPCs
    <3>7. frev' \in 0..MaxRevision /\ ftok' \in Tokens \union {NoToken}
      BY <1>17 DEF TypeOK, ClaimBoundary
    <3>8. fseen' \in 0..MaxRevision
      BY <1>17 DEF TypeOK, ClaimBoundary
    <3>9. boundary' \in 0..MaxRevision
      BY <1>17 DEF TypeOK, ClaimBoundary
    <3>10. sent' \in BOOLEAN
      BY <1>17 DEF TypeOK, ClaimBoundary
    <3>11. covered' \in 0..MaxRevision
      BY <1>17 DEF TypeOK, ClaimBoundary
    <3>12. refused' \in 0..MaxRevision /\ faults' \in 0..MaxFaults
      BY <1>17 DEF TypeOK, ClaimBoundary
    <3> QED
      BY <3>1, <3>2, <3>3, <3>4, <3>5, <3>6, <3>7, <3>8, <3>9, <3>10, <3>11, <3>12
      DEF TypeOK
  <2>2. QueueInv'
    BY <1>17
    DEF TypeOK, QueueInv, FlushInv, ClaimBoundary, queueVars, changeVars,
        Messages, Requests, Revisions
  <2>3. ChangeInv'
    BY <1>17 DEF TypeOK, ChangeInv, ClaimBoundary, queueVars, changeVars
  <2>4. FlushInv'
    BY <1>17
    DEF TypeOK, QueueInv, ChangeInv, FlushInv, CursorInv, SeenBy, Rejected,
        Unrecorded, ClaimBoundary, queueVars, changeVars
  <2>5. CursorInv'
    BY <1>17
    DEF TypeOK, ChangeInv, FlushInv, CursorInv, SeenBy, Rejected, Unrecorded,
        ClaimBoundary, queueVars, changeVars
  <2> QED
    BY <2>1, <2>2, <2>3, <2>4, <2>5
<1>18. CASE SendPost
  <2>1. TypeOK'
    <3>1. desired' \in 0..MaxRevision /\ dispatched' \in 0..MaxRevision
      BY <1>18 DEF TypeOK, SendPost, Larger, cursorVars
    <3>2. due' \in {"null", "future", "passed"} /\ windowOpen' \in BOOLEAN
      BY <1>18 DEF TypeOK, SendPost, cursorVars
    <3>3. marker' \in Tokens \union {NoToken}
      BY <1>18 DEF TypeOK, SendPost, queueVars
    <3>4. msgs' \subseteq Messages /\ requests' \subseteq Requests
      BY <1>18 DEF TypeOK, SendPost, queueVars
    <3>5. /\ ingress' \in {"legacy", "dual_write"} /\ changes' \in 0..MaxRevision
          /\ notices' \subseteq Revisions /\ lost' \subseteq Revisions
      BY <1>18 DEF TypeOK, SendPost, changeVars
    <3>6. fpc' \in FlushPCs
      BY <1>18 DEF TypeOK, SendPost, FlushPCs
    <3>7. frev' \in 0..MaxRevision /\ ftok' \in Tokens \union {NoToken}
      BY <1>18 DEF TypeOK, SendPost
    <3>8. fseen' \in 0..MaxRevision
      BY <1>18 DEF TypeOK, SendPost
    <3>9. boundary' \in 0..MaxRevision
      BY <1>18 DEF TypeOK, SendPost
    <3>10. sent' \in BOOLEAN
      BY <1>18 DEF TypeOK, SendPost
    <3>11. covered' \in 0..MaxRevision
      BY <1>18 DEF TypeOK, SendPost, Larger
    <3>12. refused' \in 0..MaxRevision /\ faults' \in 0..MaxFaults
      BY <1>18 DEF TypeOK, SendPost, Fault, Larger
    <3> QED
      BY <3>1, <3>2, <3>3, <3>4, <3>5, <3>6, <3>7, <3>8, <3>9, <3>10, <3>11, <3>12
      DEF TypeOK
  <2>2. QueueInv'
    BY <1>18
    DEF TypeOK, QueueInv, FlushInv, SendPost, Fault, Larger, cursorVars,
        queueVars, changeVars, Messages, Requests, Revisions
  <2>3. ChangeInv'
    BY <1>18
    DEF TypeOK, ChangeInv, SendPost, Fault, Larger, cursorVars, queueVars,
        changeVars
  <2>4. FlushInv'
    BY <1>18
    DEF TypeOK, QueueInv, ChangeInv, FlushInv, CursorInv, SeenBy, Rejected,
        Unrecorded, SendPost, Fault, Larger, cursorVars, queueVars, changeVars
  <2>5. CursorInv'
    BY <1>18
    DEF TypeOK, ChangeInv, FlushInv, CursorInv, SeenBy, Rejected, Unrecorded,
        SendPost, Fault, Larger, cursorVars, queueVars, changeVars
  <2> QED
    BY <2>1, <2>2, <2>3, <2>4, <2>5
<1>19. CASE FinishUnsent
  <2>1. TypeOK'
    <3>1. desired' \in 0..MaxRevision /\ dispatched' \in 0..MaxRevision
      BY <1>19 DEF TypeOK, FinishUnsent, Complete, Larger
    <3>2. due' \in {"null", "future", "passed"} /\ windowOpen' \in BOOLEAN
      BY <1>19 DEF TypeOK, FinishUnsent, Complete
    <3>3. marker' \in Tokens \union {NoToken}
      BY <1>19 DEF TypeOK, FinishUnsent, ClearMarker
    <3>4. msgs' \subseteq Messages /\ requests' \subseteq Requests
      BY <1>19 DEF TypeOK, FinishUnsent
    <3>5. /\ ingress' \in {"legacy", "dual_write"} /\ changes' \in 0..MaxRevision
          /\ notices' \subseteq Revisions /\ lost' \subseteq Revisions
      BY <1>19 DEF TypeOK, FinishUnsent, changeVars
    <3>6. fpc' \in FlushPCs
      BY <1>19 DEF TypeOK, FinishUnsent, IdleFlush, FlushPCs
    <3>7. frev' \in 0..MaxRevision /\ ftok' \in Tokens \union {NoToken}
      BY <1>19 DEF TypeOK, FinishUnsent, IdleFlush
    <3>8. fseen' \in 0..MaxRevision
      BY <1>19 DEF TypeOK, FinishUnsent, IdleFlush
    <3>9. boundary' \in 0..MaxRevision
      BY <1>19 DEF TypeOK, FinishUnsent
    <3>10. sent' \in BOOLEAN
      BY <1>19 DEF TypeOK, FinishUnsent
    <3>11. covered' \in 0..MaxRevision
      BY <1>19 DEF TypeOK, FinishUnsent, Larger
    <3>12. refused' \in 0..MaxRevision /\ faults' \in 0..MaxFaults
      BY <1>19 DEF TypeOK, FinishUnsent, Larger
    <3> QED
      BY <3>1, <3>2, <3>3, <3>4, <3>5, <3>6, <3>7, <3>8, <3>9, <3>10, <3>11, <3>12
      DEF TypeOK
  <2>2. QueueInv'
    BY <1>19
    DEF TypeOK, QueueInv, FlushInv, FinishUnsent, Complete, ClearMarker,
        IdleFlush, Larger, changeVars, Messages, Requests, Revisions
  <2>3. ChangeInv'
    BY <1>19
    DEF TypeOK, ChangeInv, FinishUnsent, Complete, ClearMarker, IdleFlush,
        Larger, changeVars
  <2>4. FlushInv'
    BY <1>19
    DEF TypeOK, QueueInv, ChangeInv, FlushInv, CursorInv, SeenBy, Rejected,
        Unrecorded, FinishUnsent, Complete, ClearMarker, IdleFlush, Larger,
        changeVars
  <2>5. CursorInv'
    BY <1>19
    DEF TypeOK, ChangeInv, FlushInv, CursorInv, SeenBy, Rejected, Unrecorded,
        FinishUnsent, Complete, ClearMarker, IdleFlush, Larger, changeVars
  <2> QED
    BY <2>1, <2>2, <2>3, <2>4, <2>5
<1>20. CASE FinishAccepted
  <2>1. TypeOK'
    <3>1. desired' \in 0..MaxRevision /\ dispatched' \in 0..MaxRevision
      BY <1>20 DEF TypeOK, FinishAccepted, Complete, Larger
    <3>2. due' \in {"null", "future", "passed"} /\ windowOpen' \in BOOLEAN
      BY <1>20 DEF TypeOK, FinishAccepted, Complete
    <3>3. marker' \in Tokens \union {NoToken}
      BY <1>20 DEF TypeOK, FinishAccepted, ClearMarker
    <3>4. msgs' \subseteq Messages /\ requests' \subseteq Requests
      BY <1>20 DEF TypeOK, FinishAccepted
    <3>5. /\ ingress' \in {"legacy", "dual_write"} /\ changes' \in 0..MaxRevision
          /\ notices' \subseteq Revisions /\ lost' \subseteq Revisions
      BY <1>20 DEF TypeOK, FinishAccepted, changeVars
    <3>6. fpc' \in FlushPCs
      BY <1>20 DEF TypeOK, FinishAccepted, IdleFlush, FlushPCs
    <3>7. frev' \in 0..MaxRevision /\ ftok' \in Tokens \union {NoToken}
      BY <1>20 DEF TypeOK, FinishAccepted, IdleFlush
    <3>8. fseen' \in 0..MaxRevision
      BY <1>20 DEF TypeOK, FinishAccepted, IdleFlush
    <3>9. boundary' \in 0..MaxRevision
      BY <1>20 DEF TypeOK, FinishAccepted
    <3>10. sent' \in BOOLEAN
      BY <1>20 DEF TypeOK, FinishAccepted
    <3>11. covered' \in 0..MaxRevision
      BY <1>20 DEF TypeOK, FinishAccepted, Larger
    <3>12. refused' \in 0..MaxRevision /\ faults' \in 0..MaxFaults
      BY <1>20 DEF TypeOK, FinishAccepted, Larger
    <3> QED
      BY <3>1, <3>2, <3>3, <3>4, <3>5, <3>6, <3>7, <3>8, <3>9, <3>10, <3>11, <3>12
      DEF TypeOK
  <2>2. QueueInv'
    BY <1>20
    DEF TypeOK, QueueInv, FlushInv, FinishAccepted, Complete, ClearMarker,
        IdleFlush, Larger, changeVars, Messages, Requests, Revisions
  <2>3. ChangeInv'
    BY <1>20
    DEF TypeOK, ChangeInv, FinishAccepted, Complete, ClearMarker, IdleFlush,
        Larger, changeVars
  <2>4. FlushInv'
    BY <1>20
    DEF TypeOK, QueueInv, ChangeInv, FlushInv, CursorInv, SeenBy, Rejected,
        Unrecorded, FinishAccepted, Complete, ClearMarker, IdleFlush, Larger,
        changeVars
  <2>5. CursorInv'
    BY <1>20
    DEF TypeOK, ChangeInv, FlushInv, CursorInv, SeenBy, Rejected, Unrecorded,
        FinishAccepted, Complete, ClearMarker, IdleFlush, Larger, changeVars
  <2> QED
    BY <2>1, <2>2, <2>3, <2>4, <2>5
<1>21. CASE FinishRejected
  <2>1. TypeOK'
    <3>1. desired' \in 0..MaxRevision /\ dispatched' \in 0..MaxRevision
      BY <1>21 DEF TypeOK, FinishRejected
    <3>2. due' \in {"null", "future", "passed"} /\ windowOpen' \in BOOLEAN
      BY <1>21 DEF TypeOK, FinishRejected
    <3>3. marker' \in Tokens \union {NoToken}
      BY <1>21 DEF TypeOK, FinishRejected, ClearMarker
    <3>4. msgs' \subseteq Messages /\ requests' \subseteq Requests
      BY <1>21 DEF TypeOK, FinishRejected, FlushInv, Messages
    <3>5. /\ ingress' \in {"legacy", "dual_write"} /\ changes' \in 0..MaxRevision
          /\ notices' \subseteq Revisions /\ lost' \subseteq Revisions
      BY <1>21 DEF TypeOK, FinishRejected, changeVars
    <3>6. fpc' \in FlushPCs
      BY <1>21 DEF TypeOK, FinishRejected, IdleFlush, FlushPCs
    <3>7. frev' \in 0..MaxRevision /\ ftok' \in Tokens \union {NoToken}
      BY <1>21 DEF TypeOK, FinishRejected, IdleFlush, Messages
    <3>8. fseen' \in 0..MaxRevision
      BY <1>21 DEF TypeOK, FinishRejected, IdleFlush
    <3>9. boundary' \in 0..MaxRevision
      BY <1>21 DEF TypeOK, FinishRejected
    <3>10. sent' \in BOOLEAN
      BY <1>21 DEF TypeOK, FinishRejected
    <3>11. covered' \in 0..MaxRevision
      BY <1>21 DEF TypeOK, FinishRejected
    <3>12. refused' \in 0..MaxRevision /\ faults' \in 0..MaxFaults
      BY <1>21 DEF TypeOK, FinishRejected
    <3> QED
      BY <3>1, <3>2, <3>3, <3>4, <3>5, <3>6, <3>7, <3>8, <3>9, <3>10, <3>11, <3>12
      DEF TypeOK
  <2>2. QueueInv'
    BY <1>21
    DEF TypeOK, QueueInv, FlushInv, FinishRejected, ClearMarker, IdleFlush,
        changeVars, Messages, Requests, Revisions
  <2>3. ChangeInv'
    BY <1>21
    DEF TypeOK, ChangeInv, FinishRejected, ClearMarker, IdleFlush, changeVars
  <2>4. FlushInv'
    BY <1>21
    DEF TypeOK, QueueInv, ChangeInv, FlushInv, CursorInv, SeenBy, Rejected,
        Unrecorded, FinishRejected, ClearMarker, IdleFlush, changeVars
  <2>5. CursorInv'
    BY <1>21
    DEF TypeOK, ChangeInv, FlushInv, CursorInv, SeenBy, Rejected, Unrecorded,
        FinishRejected, ClearMarker, IdleFlush, changeVars
  <2> QED
    BY <2>1, <2>2, <2>3, <2>4, <2>5
<1>22. CASE HoldUnknown
  <2>1. TypeOK'
    <3>1. desired' \in 0..MaxRevision /\ dispatched' \in 0..MaxRevision
      BY <1>22 DEF TypeOK, HoldUnknown
    <3>2. due' \in {"null", "future", "passed"} /\ windowOpen' \in BOOLEAN
      BY <1>22 DEF TypeOK, HoldUnknown
    <3>3. marker' \in Tokens \union {NoToken}
      BY <1>22 DEF TypeOK, HoldUnknown, ClearMarker
    <3>4. msgs' \subseteq Messages /\ requests' \subseteq Requests
      BY <1>22 DEF TypeOK, HoldUnknown
    <3>5. /\ ingress' \in {"legacy", "dual_write"} /\ changes' \in 0..MaxRevision
          /\ notices' \subseteq Revisions /\ lost' \subseteq Revisions
      BY <1>22 DEF TypeOK, HoldUnknown, changeVars
    <3>6. fpc' \in FlushPCs
      BY <1>22 DEF TypeOK, HoldUnknown, IdleFlush, FlushPCs
    <3>7. frev' \in 0..MaxRevision /\ ftok' \in Tokens \union {NoToken}
      BY <1>22 DEF TypeOK, HoldUnknown, IdleFlush
    <3>8. fseen' \in 0..MaxRevision
      BY <1>22 DEF TypeOK, HoldUnknown, IdleFlush
    <3>9. boundary' \in 0..MaxRevision
      BY <1>22 DEF TypeOK, HoldUnknown, historyVars
    <3>10. sent' \in BOOLEAN
      BY <1>22 DEF TypeOK, HoldUnknown, historyVars
    <3>11. covered' \in 0..MaxRevision
      BY <1>22 DEF TypeOK, HoldUnknown, historyVars
    <3>12. refused' \in 0..MaxRevision /\ faults' \in 0..MaxFaults
      BY <1>22 DEF TypeOK, HoldUnknown, historyVars
    <3> QED
      BY <3>1, <3>2, <3>3, <3>4, <3>5, <3>6, <3>7, <3>8, <3>9, <3>10, <3>11, <3>12
      DEF TypeOK
  <2>2. QueueInv'
    BY <1>22
    DEF TypeOK, QueueInv, FlushInv, HoldUnknown, ClearMarker, IdleFlush,
        changeVars, historyVars, Messages, Requests, Revisions
  <2>3. ChangeInv'
    BY <1>22
    DEF TypeOK, ChangeInv, HoldUnknown, ClearMarker, IdleFlush, changeVars,
        historyVars
  <2>4. FlushInv'
    BY <1>22
    DEF TypeOK, QueueInv, ChangeInv, FlushInv, CursorInv, SeenBy, Rejected,
        Unrecorded, HoldUnknown, ClearMarker, IdleFlush, changeVars,
        historyVars
  <2>5. CursorInv'
    BY <1>22
    DEF TypeOK, ChangeInv, FlushInv, CursorInv, SeenBy, Rejected, Unrecorded,
        HoldUnknown, ClearMarker, IdleFlush, changeVars, historyVars
  <2> QED
    BY <2>1, <2>2, <2>3, <2>4, <2>5
<1>23. CASE BoundaryRefused
  <2>1. TypeOK'
    <3>1. desired' \in 0..MaxRevision /\ dispatched' \in 0..MaxRevision
      BY <1>23 DEF TypeOK, BoundaryRefused, cursorVars
    <3>2. due' \in {"null", "future", "passed"} /\ windowOpen' \in BOOLEAN
      BY <1>23 DEF TypeOK, BoundaryRefused, cursorVars
    <3>3. marker' \in Tokens \union {NoToken}
      BY <1>23 DEF TypeOK, BoundaryRefused, ClearMarker
    <3>4. msgs' \subseteq Messages /\ requests' \subseteq Requests
      BY <1>23 DEF TypeOK, BoundaryRefused
    <3>5. /\ ingress' \in {"legacy", "dual_write"} /\ changes' \in 0..MaxRevision
          /\ notices' \subseteq Revisions /\ lost' \subseteq Revisions
      BY <1>23 DEF TypeOK, BoundaryRefused, changeVars
    <3>6. fpc' \in FlushPCs
      BY <1>23 DEF TypeOK, BoundaryRefused, IdleFlush, FlushPCs
    <3>7. frev' \in 0..MaxRevision /\ ftok' \in Tokens \union {NoToken}
      BY <1>23 DEF TypeOK, BoundaryRefused, IdleFlush
    <3>8. fseen' \in 0..MaxRevision
      BY <1>23 DEF TypeOK, BoundaryRefused, IdleFlush
    <3>9. boundary' \in 0..MaxRevision
      BY <1>23 DEF TypeOK, BoundaryRefused, historyVars
    <3>10. sent' \in BOOLEAN
      BY <1>23 DEF TypeOK, BoundaryRefused, historyVars
    <3>11. covered' \in 0..MaxRevision
      BY <1>23 DEF TypeOK, BoundaryRefused, historyVars
    <3>12. refused' \in 0..MaxRevision /\ faults' \in 0..MaxFaults
      BY <1>23 DEF TypeOK, BoundaryRefused, Fault, historyVars
    <3> QED
      BY <3>1, <3>2, <3>3, <3>4, <3>5, <3>6, <3>7, <3>8, <3>9, <3>10, <3>11, <3>12
      DEF TypeOK
  <2>2. QueueInv'
    BY <1>23
    DEF TypeOK, QueueInv, FlushInv, BoundaryRefused, Fault, ClearMarker,
        IdleFlush, cursorVars, changeVars, historyVars, Messages, Requests,
        Revisions
  <2>3. ChangeInv'
    BY <1>23
    DEF TypeOK, ChangeInv, BoundaryRefused, Fault, ClearMarker, IdleFlush,
        cursorVars, changeVars, historyVars
  <2>4. FlushInv'
    BY <1>23
    DEF TypeOK, QueueInv, ChangeInv, FlushInv, CursorInv, SeenBy, Rejected,
        Unrecorded, BoundaryRefused, Fault, ClearMarker, IdleFlush,
        cursorVars, changeVars, historyVars
  <2>5. CursorInv'
    BY <1>23
    DEF TypeOK, ChangeInv, FlushInv, CursorInv, SeenBy, Rejected, Unrecorded,
        BoundaryRefused, Fault, ClearMarker, IdleFlush, cursorVars,
        changeVars, historyVars
  <2> QED
    BY <2>1, <2>2, <2>3, <2>4, <2>5
<1>24. CASE Crash
  <2>1. TypeOK'
    <3>1. desired' \in 0..MaxRevision /\ dispatched' \in 0..MaxRevision
      BY <1>24 DEF TypeOK, Crash, cursorVars
    <3>2. due' \in {"null", "future", "passed"} /\ windowOpen' \in BOOLEAN
      BY <1>24 DEF TypeOK, Crash, cursorVars
    <3>3. marker' \in Tokens \union {NoToken}
      BY <1>24 DEF TypeOK, Crash
    <3>4. msgs' \subseteq Messages /\ requests' \subseteq Requests
      BY <1>24 DEF TypeOK, Crash, FlushInv, Messages
    <3>5. /\ ingress' \in {"legacy", "dual_write"} /\ changes' \in 0..MaxRevision
          /\ notices' \subseteq Revisions /\ lost' \subseteq Revisions
      BY <1>24 DEF TypeOK, Crash, changeVars
    <3>6. fpc' \in FlushPCs
      BY <1>24 DEF TypeOK, Crash, IdleFlush, FlushPCs
    <3>7. frev' \in 0..MaxRevision /\ ftok' \in Tokens \union {NoToken}
      BY <1>24 DEF TypeOK, Crash, IdleFlush, Messages
    <3>8. fseen' \in 0..MaxRevision
      BY <1>24 DEF TypeOK, Crash, IdleFlush
    <3>9. boundary' \in 0..MaxRevision
      BY <1>24 DEF TypeOK, Crash, historyVars
    <3>10. sent' \in BOOLEAN
      BY <1>24 DEF TypeOK, Crash, historyVars
    <3>11. covered' \in 0..MaxRevision
      BY <1>24 DEF TypeOK, Crash, historyVars
    <3>12. refused' \in 0..MaxRevision /\ faults' \in 0..MaxFaults
      BY <1>24 DEF TypeOK, Crash, Fault, historyVars
    <3> QED
      BY <3>1, <3>2, <3>3, <3>4, <3>5, <3>6, <3>7, <3>8, <3>9, <3>10, <3>11, <3>12
      DEF TypeOK
  <2>2. QueueInv'
    BY <1>24
    DEF TypeOK, QueueInv, FlushInv, Crash, Fault, IdleFlush, cursorVars,
        changeVars, historyVars, Messages, Requests, Revisions
  <2>3. ChangeInv'
    BY <1>24
    DEF TypeOK, ChangeInv, Crash, Fault, IdleFlush, cursorVars, changeVars,
        historyVars
  <2>4. FlushInv'
    BY <1>24
    DEF TypeOK, QueueInv, ChangeInv, FlushInv, CursorInv, SeenBy, Rejected,
        Unrecorded, Crash, Fault, IdleFlush, cursorVars, changeVars,
        historyVars
  <2>5. CursorInv'
    BY <1>24
    DEF TypeOK, ChangeInv, FlushInv, CursorInv, SeenBy, Rejected, Unrecorded,
        Crash, Fault, IdleFlush, cursorVars, changeVars, historyVars
  <2> QED
    BY <2>1, <2>2, <2>3, <2>4, <2>5
<1>25. CASE UNCHANGED vars
  BY <1>25
  DEF TypeOK, QueueInv, ChangeInv, FlushInv, CursorInv, SeenBy, Rejected,
      Unrecorded, vars, cursorVars, queueVars, changeVars, flushVars,
      historyVars
<1> QED
  BY <1>1, <1>2, <1>3, <1>4, <1>5, <1>6, <1>7, <1>8, <1>9, <1>10, <1>11, <1>12,
      <1>13, <1>14, <1>15, <1>16, <1>17, <1>18, <1>19, <1>20, <1>21, <1>22, <1>23, <1>24, <1>25
  DEF Next, Receive, Flush

(* The inductive invariant holds in every reachable state.                 *)
THEOREM Invariant == Spec => []IInv
<1>1. Init => IInv
  BY InvariantInit
<1>2. IInv /\ [Next]_vars => IInv'
  BY InvariantStep
<1> QED
  BY <1>1, <1>2, PTL DEF Spec

(* The rows, messages and locals keep their shape.                         *)
THEOREM TypeCorrect == Spec => []TypeOK
<1>1. IInv => TypeOK
  BY DEF IInv
<1> QED
  BY <1>1, Invariant, PTL

(* Work loses its due time exactly while a POST is unsettled:              *)
(* _claim_legacy_feed_provider_boundary writes the hold, and neither       *)
(* request_feed_flush nor a late message takes it back.                    *)
THEOREM HoldTheorem == Spec => []HoldIffUnsettled
<1>1. IInv => HoldIffUnsettled
  BY DEF IInv, CursorInv, HoldIffUnsettled, Held
<1> QED
  BY <1>1, Invariant, PTL

(* _complete_feed_flush_revision never acknowledges as the newest revision *)
(* one with a recorded change that no accepted feed holds, unless a legacy *)
(* flush met it with Autoload off.                                         *)
THEOREM AcknowledgedTheorem == Spec => []AcknowledgedWasCovered
<1>1. IInv => AcknowledgedWasCovered
  BY DEF IInv, CursorInv, SeenBy, AcknowledgedWasCovered
<1> QED
  BY <1>1, Invariant, PTL

(* A step that sends a POST finds no earlier one of unknown outcome.       *)
LEMMA SendStep ==
    IInv => (fpc = "boundary" /\ fpc' \in {"accepted", "ambiguous"} => ~sent)
  BY DEF IInv, FlushInv

(* The submission to Autoload is never repeated blindly.                   *)
THEOREM NoReplayTheorem == Spec => NoBlindReplay
<1>1. IInv /\ [Next]_vars
        => [fpc = "boundary" /\ fpc' \in {"accepted", "ambiguous"} => ~sent]_vars
  BY SendStep
<1> QED
  BY <1>1, Invariant, PTL DEF Spec, NoBlindReplay
=============================================================================
