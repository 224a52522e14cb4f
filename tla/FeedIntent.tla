------------------------------ MODULE FeedIntent ------------------------------
(***************************************************************************)
(* The coalesced feed flush of one Avito account in the legacy run mode:   *)
(* apps/marketplaces/feed_intents.py and the flush half of tasks.py.       *)
(*                                                                         *)
(* A change of a listing commits and leaves a notice, the Celery task that *)
(* will call request_feed_flush.  With the dual_write ingress the change's *)
(* own transaction advances the desired revision of the account; with the  *)
(* legacy ingress only the notice does, and a lost notice is a lost change.*)
(* A message naming one exact revision sends the feed and acknowledges     *)
(* that revision; a scanner republishes the work whose due time has passed.*)
(*  A cache marker keeps one message per        *)
(* account, a session advisory lock one flush; neither is durable.  The    *)
(* durable fence is the cursor itself: immediately before the POST, which  *)
(* the provider does not make idempotent, the flush sets due to NULL under *)
(* the account lock, and desired > dispatched with a NULL due is the hold  *)
(* that no automatic path may release.                                     *)
(*                                                                         *)
(* Time is two values: a due or a window of the future arrives at any      *)
(* moment.  The retry counter of Celery is abstracted to either outcome.   *)
(***************************************************************************)
EXTENDS Naturals

CONSTANTS
    Tokens,          \* owner tokens of messages; one in use is never reissued
    NoToken,
    MaxRevision,     \* bound: changes of listings, and so revisions
    MaxFaults        \* bound: crashes, losses, outages and refusals

ASSUME FeedIntentAssumption ==
    /\ NoToken \notin Tokens
    /\ MaxRevision \in Nat \ {0}
    /\ MaxFaults \in Nat

VARIABLES
    (* The columns of MarketplaceAccount. *)
    desired,        \* feed_intent_revision
    dispatched,     \* feed_intent_dispatched_revision
    due,            \* feed_intent_due_at: NULL, in the future, or passed
    windowOpen,     \* last_feed_flush_at is at least an hour old
    (* Outside the database. *)
    marker,         \* the cache marker of the account
    msgs,           \* accepted coalesced_flush_task messages
    requests,       \* request_feed_flush between its two transactions
    (* The changes of the feed and their road to the cursor. *)
    ingress,        \* MARKETPLACE_FEED_INGRESS_MODE
    changes,        \* committed changes of the feed, counted
    notices,        \* changes whose request_feed_flush is still to run
    (* The flush that holds the advisory lock, and its locals. *)
    fpc, frev, ftok,
    fseen,          \* the changes that were committed when it read the rows
    (* History. *)
    boundary,       \* revision whose POST is claimed and not settled; 0: none
    sent,           \* the POST of that boundary may have left
    covered,        \* newest change a feed accepted by Avito is known to hold
    refused,        \* newest change a legacy flush met with Autoload off
    lost,           \* changes whose notice was lost
    faults

cursorVars == <<desired, dispatched, due>>
queueVars == <<marker, msgs, requests>>
changeVars == <<ingress, changes, notices, lost>>
flushVars == <<fpc, frev, ftok, fseen>>
historyVars == <<boundary, sent, covered, refused>>
vars == <<cursorVars, windowOpen, queueVars, changeVars, flushVars, historyVars, faults>>

Revisions == 1..MaxRevision
Messages == [rev : Revisions, tok : Tokens]
Requests == [of : Revisions, rev : Revisions]
FlushPCs ==
    {"idle",
     "loaded",      \* the revision is exact, nothing was sent
     "closed",      \* the hourly window is closed
     "superseded",  \* a newer revision is desired
     "nothing",     \* there is nothing to send
     "refused",     \* Autoload is off, the pending rows are rejected
     "boundary",    \* the hold is written, the POST not sent
     "accepted", "rejected", "ambiguous"}   \* what the POST returned

TypeOK ==
    /\ desired \in 0..MaxRevision
    /\ dispatched \in 0..MaxRevision
    /\ due \in {"null", "future", "passed"}
    /\ windowOpen \in BOOLEAN
    /\ marker \in Tokens \union {NoToken}
    /\ msgs \subseteq Messages
    /\ requests \subseteq Requests
    /\ ingress \in {"legacy", "dual_write"}
    /\ changes \in 0..MaxRevision
    /\ notices \subseteq Revisions /\ lost \subseteq Revisions
    /\ fpc \in FlushPCs
    /\ frev \in 0..MaxRevision
    /\ ftok \in Tokens \union {NoToken}
    /\ fseen \in 0..MaxRevision
    /\ boundary \in 0..MaxRevision
    /\ sent \in BOOLEAN
    /\ covered \in 0..MaxRevision /\ refused \in 0..MaxRevision
    /\ faults \in 0..MaxFaults

Init ==
    /\ desired = 0 /\ dispatched = 0 /\ due = "null"
    /\ windowOpen = TRUE
    /\ marker = NoToken /\ msgs = {} /\ requests = {}
    /\ ingress \in {"legacy", "dual_write"}
    /\ changes = 0 /\ notices = {} /\ lost = {}
    /\ fpc = "idle" /\ frev = 0 /\ ftok = NoToken /\ fseen = 0
    /\ boundary = 0 /\ sent = FALSE /\ covered = 0 /\ refused = 0
    /\ faults = 0

(* Undispatched work with a NULL due: the hold of an unsettled POST. *)
Held == desired > dispatched /\ due = "null"

Fault == faults < MaxFaults /\ faults' = faults + 1

Larger(a, b) == IF a > b THEN a ELSE b

-----------------------------------------------------------------------------
(* Scheduling. *)

(* Mutant: a change of a listing makes held work due again. *)
BumpedDueUnheld ==
    IF due = "passed" \/ windowOpen THEN "passed" ELSE "future"

(* The due of a bumped intent: never later than it was, and a hold stays. *)
BumpedDue ==
    IF Held THEN "null"
    ELSE IF due = "passed" \/ windowOpen THEN "passed" ELSE "future"

(* bump_feed_intents. *)
Advance ==
    /\ desired < MaxRevision
    /\ desired' = desired + 1
    /\ due' = BumpedDue

(* A change commits; with dual_write ingress it is one transaction with    *)
(* the cursor.  The notice is sent on commit.                              *)
Change ==
    /\ changes < MaxRevision
    /\ changes' = changes + 1
    /\ notices' = notices \union {changes'}
    /\ IF ingress = "dual_write" THEN Advance ELSE UNCHANGED <<desired, due>>
    /\ UNCHANGED <<dispatched, windowOpen, queueVars, ingress, lost, flushVars,
                   historyVars, faults>>

(* A worker dies between the commit and the task, or the broker loses it. *)
NoticeLost(c) ==
    /\ c \in notices /\ Fault
    /\ notices' = notices \ {c}
    /\ lost' = lost \union {c}
    /\ UNCHANGED <<cursorVars, windowOpen, queueVars, ingress, changes, flushVars,
                   historyVars>>

(* request_feed_flush, first transaction: dual_write captures the revision *)
(* that is there, legacy advances it.                                      *)
RequestFlush(c) ==
    /\ c \in notices
    /\ notices' = notices \ {c}
    /\ IF ingress = "legacy" THEN Advance ELSE UNCHANGED <<desired, due>>
    /\ requests' = requests \union {[of |-> c, rev |-> desired']}
    /\ UNCHANGED <<dispatched, windowOpen, marker, msgs, ingress, changes, lost,
                   flushVars, historyVars, faults>>

(* _set_feed_flush_repair_deadline without release_provider_hold. *)
Leased(r) ==
    IF desired = r /\ dispatched < r /\ due # "null" THEN "future" ELSE due

(***************************************************************************)
(* _schedule_locked_feed_flush for revision r and owner token t, with base *)
(* the messages there are without it: the marker refuses, or the message   *)
(* is accepted and the lease written; the cache may be down, which fails   *)
(* open, and the broker may raise, whether it took the message or not.     *)
(***************************************************************************)
Schedule(r, t, transfer, base) ==
    LET owned == marker = NoToken \/ (transfer /\ marker = t)
        published == base \union {[rev |-> r, tok |-> t]}
    IN  \/ /\ Held
           /\ msgs' = base
           /\ UNCHANGED <<due, marker, faults>>
        \/ /\ ~Held /\ ~owned
           /\ msgs' = base
           /\ due' = Leased(r)
           /\ UNCHANGED <<marker, faults>>
        \/ /\ ~Held /\ owned
           /\ marker' = t
           /\ msgs' = published
           /\ due' = Leased(r)
           /\ UNCHANGED faults
        \/ /\ ~Held /\ Fault
           /\ msgs' = published
           /\ due' = Leased(r)
           /\ UNCHANGED marker
        \/ /\ ~Held /\ owned /\ Fault
           /\ marker' = NoToken
           /\ msgs' \in {base, published}
           /\ UNCHANGED due

Fresh(t) ==
    /\ t # marker /\ t # ftok
    /\ \A m \in msgs : m.tok # t

(* request_feed_flush, second transaction. *)
RequestSchedule(q, t) ==
    /\ q \in requests /\ Fresh(t)
    /\ Schedule(q.rev, t, FALSE, msgs)
    /\ requests' = requests \ {q}
    /\ UNCHANGED <<desired, dispatched, windowOpen, flushVars, changeVars, historyVars>>

RequestLost(q) ==
    /\ q \in requests /\ Fault
    /\ requests' = requests \ {q}
    /\ UNCHANGED <<cursorVars, windowOpen, marker, msgs, flushVars, changeVars,
                   historyVars>>

(* _repair_due_legacy_feed_flushes: the scanner. *)
Repair(t) ==
    /\ due = "passed" /\ desired > dispatched /\ Fresh(t)
    /\ Schedule(desired, t, FALSE, msgs)
    /\ UNCHANGED <<desired, dispatched, windowOpen, requests, flushVars,
                   changeVars, historyVars>>

(* Messages expire before the lease they protect; a broker loses some. *)
LoseMessage(m) ==
    /\ m \in msgs /\ Fault
    /\ msgs' = msgs \ {m}
    /\ UNCHANGED <<cursorVars, windowOpen, marker, requests, flushVars,
                   changeVars, historyVars>>

DueArrives ==
    /\ due = "future"
    /\ due' = "passed"
    /\ UNCHANGED <<desired, dispatched, windowOpen, queueVars, flushVars,
                   changeVars, historyVars, faults>>

WindowOpens ==
    /\ ~windowOpen
    /\ windowOpen' = TRUE
    /\ UNCHANGED <<cursorVars, queueVars, flushVars, changeVars, historyVars, faults>>

(* The marker outlives the message it was set for, unless the cache fails. *)
MarkerExpires ==
    /\ marker # NoToken
    /\ marker' = NoToken
    /\ IF \E m \in msgs : m.tok = marker THEN Fault ELSE UNCHANGED faults
    /\ UNCHANGED <<cursorVars, windowOpen, msgs, requests, flushVars,
                   changeVars, historyVars>>

-----------------------------------------------------------------------------
(* coalesced_flush_task. *)

(* _cache_clear_feed_flush_owner of token t, which the cache may ignore. *)
ClearMarker(t) == marker' \in {marker, IF marker = t THEN NoToken ELSE marker}

IdleFlush == fpc' = "idle" /\ frev' = 0 /\ ftok' = NoToken /\ fseen' = 0

(* A newer message owns the marker. *)
OwnedByReplacement(m) ==
    /\ m \in msgs /\ marker \notin {NoToken, m.tok}
    /\ msgs' = msgs \ {m}
    /\ UNCHANGED <<cursorVars, windowOpen, marker, requests, flushVars,
                   changeVars, historyVars, faults>>

(* try_session_advisory_lock fails: the message is replaced by one of 30 s. *)
LockBusy(m) ==
    /\ m \in msgs /\ marker \in {NoToken, m.tok}
    /\ fpc # "idle"
    /\ Schedule(m.rev, m.tok, TRUE, msgs \ {m})
    /\ UNCHANGED <<desired, dispatched, windowOpen, requests, flushVars,
                   changeVars, historyVars>>

(***************************************************************************)
(* _load_exact_feed_flush_account: a revision that is acknowledged or held *)
(* ends the task; a superseded one is completed; an exact one goes on if   *)
(* the window is open.                                                     *)
(***************************************************************************)
StartFlush(m) ==
    /\ m \in msgs /\ marker \in {NoToken, m.tok}
    /\ fpc = "idle"
    /\ msgs' = msgs \ {m}
    /\ IF dispatched >= m.rev \/ Held
       THEN ClearMarker(m.tok) /\ UNCHANGED flushVars
       ELSE /\ fpc' = IF m.rev < desired THEN "superseded"
                      ELSE IF windowOpen THEN "loaded" ELSE "closed"
            /\ frev' = m.rev /\ ftok' = m.tok
            /\ UNCHANGED <<marker, fseen>>
    /\ UNCHANGED <<cursorVars, windowOpen, requests, changeVars, historyVars, faults>>

(* The window is closed: _replace_owned_feed_flush. *)
FlushPostponed ==
    /\ fpc = "closed"
    /\ Schedule(frev, ftok, TRUE, msgs)
    /\ IdleFlush
    /\ UNCHANGED <<desired, dispatched, windowOpen, requests, changeVars, historyVars>>

(* No pending row, nothing in the feed and nothing to take out of it. *)
FindNothing ==
    /\ fpc = "loaded"
    /\ fpc' = "nothing" /\ fseen' = changes
    /\ UNCHANGED <<cursorVars, windowOpen, queueVars, frev, ftok, changeVars,
                   historyVars, faults>>

(* Mutant: with dual_write the rejected batch records no revision of its own. *)
AutoloadOffUnrecorded ==
    /\ fpc = "loaded"
    /\ fpc' = "refused" /\ fseen' = changes
    /\ UNCHANGED <<cursorVars, windowOpen, queueVars, changeVars, frev, ftok,
                   historyVars, faults>>

(***************************************************************************)
(* There are pending rows and Autoload is off: _reject_pending_feed_batch. *)
(* With dual_write the rejected batch is a change with a revision of its   *)
(* own; a batch that is gone was changed by somebody who recorded one.     *)
(***************************************************************************)
AutoloadOff ==
    /\ fpc = "loaded"
    /\ fpc' = "refused" /\ fseen' = changes
    /\ \/ /\ ingress = "dual_write" /\ Advance
          /\ changes' = changes + 1
       \/ /\ ingress = "legacy" \/ frev < desired
          /\ UNCHANGED <<desired, due, changes>>
    /\ UNCHANGED <<dispatched, windowOpen, queueVars, ingress, notices, lost,
                   frev, ftok, historyVars, faults>>

(* Mutant: the boundary leaves the due time of the intent in place. *)
ClaimBoundaryUnheld ==
    /\ fpc = "loaded"
    /\ IF frev < desired
       THEN fpc' = "superseded" /\ UNCHANGED <<due, boundary, fseen>>
       ELSE fpc' = "boundary" /\ boundary' = frev /\ fseen' = changes /\ UNCHANGED due
    /\ UNCHANGED <<desired, dispatched, windowOpen, queueVars, changeVars,
                   frev, ftok, sent, covered,
                   refused, faults>>

(* _claim_legacy_feed_provider_boundary: the hold is durable before the    *)
(* POST.  The rows are read after it: changes committed by now are in them.*)
ClaimBoundary ==
    /\ fpc = "loaded"
    /\ IF frev < desired
       THEN fpc' = "superseded" /\ UNCHANGED <<due, boundary, fseen>>
       ELSE fpc' = "boundary" /\ due' = "null" /\ boundary' = frev /\ fseen' = changes
    /\ UNCHANGED <<desired, dispatched, windowOpen, queueVars, changeVars,
                   frev, ftok, sent, covered,
                   refused, faults>>

(* The stable endpoint has drifted or its profile is being migrated: the   *)
(* task ends and the work stays due.                                       *)
BoundaryRefused ==
    /\ fpc = "loaded" /\ Fault
    /\ ClearMarker(ftok)
    /\ IdleFlush
    /\ UNCHANGED <<cursorVars, windowOpen, msgs, requests, changeVars, historyVars>>

(***************************************************************************)
(* _flush_account_or_stop: the feed is read, stored and triggered.  A      *)
(* refusal is a response of the provider, or a failure before the POST;    *)
(* anything else leaves its outcome unknown.                               *)
(***************************************************************************)
SendPost ==
    /\ fpc = "boundary"
    /\ \/ /\ fpc' = "accepted" /\ sent' = TRUE
          /\ covered' = Larger(covered, fseen)
          /\ UNCHANGED faults
       \/ fpc' = "rejected" /\ Fault /\ UNCHANGED <<sent, covered>>
       \/ /\ fpc' = "ambiguous" /\ sent' = TRUE /\ Fault
          /\ \/ covered' = Larger(covered, fseen)
             \/ UNCHANGED covered
    /\ UNCHANGED <<cursorVars, windowOpen, queueVars, frev, ftok, fseen,
                   boundary, refused, changeVars>>

(* Mutant: the acknowledgement forgets that newer work is due. *)
CompleteForgets(r) ==
    /\ dispatched' = Larger(dispatched, r)
    /\ due' = "null"

(* _complete_feed_flush_revision: newer work stays due. *)
Complete(r) ==
    /\ dispatched' = Larger(dispatched, r)
    /\ due' = IF desired = r THEN "null" ELSE "passed"

(* _finish_owned_feed_flush for a superseded, empty or refused revision. *)
FinishUnsent ==
    /\ fpc \in {"superseded", "nothing", "refused"}
    /\ Complete(frev)
    /\ ClearMarker(ftok)
    /\ covered' = IF fpc = "nothing" THEN Larger(covered, fseen) ELSE covered
    /\ refused' = IF fpc = "refused" THEN Larger(refused, fseen) ELSE refused
    /\ IdleFlush
    /\ UNCHANGED <<desired, windowOpen, msgs, requests, boundary, sent, faults,
                   changeVars>>

(* _finish_owned_feed_flush after the POST. *)
FinishAccepted ==
    /\ fpc = "accepted"
    /\ Complete(frev)
    /\ ClearMarker(ftok)
    /\ windowOpen' = FALSE
    /\ boundary' = 0 /\ sent' = FALSE
    /\ IdleFlush
    /\ UNCHANGED <<desired, msgs, requests, covered, refused, faults, changeVars>>

(***************************************************************************)
(* _retry_owned_feed_flush and, once Celery's retries are exhausted,       *)
(* _release_safe_feed_failure_for_repair: the hold is released, then the   *)
(* retry is published, or the scanner is left to find the work.            *)
(***************************************************************************)
FinishRejected ==
    /\ fpc = "rejected"
    /\ due' = IF desired > dispatched THEN "future" ELSE due
    /\ boundary' = 0
    /\ \/ msgs' = msgs \union {[rev |-> frev, tok |-> ftok]} /\ UNCHANGED marker
       \/ UNCHANGED msgs /\ ClearMarker(ftok)
    /\ IdleFlush
    /\ UNCHANGED <<desired, dispatched, windowOpen, requests, sent, covered,
                   refused, faults, changeVars>>

(* _hold_legacy_feed_submission_unknown: the hold stays for an operator. *)
HoldUnknown ==
    /\ fpc = "ambiguous"
    /\ due' = IF dispatched < frev THEN "null" ELSE due
    /\ windowOpen' = FALSE
    /\ ClearMarker(ftok)
    /\ IdleFlush
    /\ UNCHANGED <<desired, dispatched, msgs, requests, changeVars,
                   historyVars, faults>>

(* The worker is killed; its message may be delivered again. *)
Crash ==
    /\ fpc # "idle" /\ Fault
    /\ msgs' \in {msgs, msgs \union {[rev |-> frev, tok |-> ftok]}}
    /\ IdleFlush
    /\ UNCHANGED <<cursorVars, windowOpen, marker, requests, changeVars, historyVars>>

-----------------------------------------------------------------------------
Flush ==
    \/ FlushPostponed \/ FindNothing \/ AutoloadOff \/ ClaimBoundary \/ SendPost
    \/ FinishUnsent \/ FinishAccepted \/ FinishRejected \/ HoldUnknown

Receive == \E m \in msgs : OwnedByReplacement(m) \/ LockBusy(m) \/ StartFlush(m)

Next ==
    \/ Change
    \/ \E c \in notices : NoticeLost(c) \/ RequestFlush(c)
    \/ \E q \in requests, t \in Tokens : RequestSchedule(q, t)
    \/ \E q \in requests : RequestLost(q)
    \/ \E t \in Tokens : Repair(t)
    \/ \E m \in msgs : LoseMessage(m)
    \/ DueArrives \/ WindowOpens \/ MarkerExpires
    \/ Receive \/ Flush \/ BoundaryRefused \/ Crash

Spec == Init /\ [][Next]_vars

(* The beat runs the scanner, the workers serve their queues, time passes. *)
FairSpec ==
    /\ Spec
    /\ WF_vars(\E c \in notices : RequestFlush(c))
    /\ WF_vars(\E t \in Tokens : Repair(t))
    /\ WF_vars(DueArrives) /\ WF_vars(WindowOpens) /\ WF_vars(MarkerExpires)
    /\ WF_vars(Receive) /\ WF_vars(Flush)

-----------------------------------------------------------------------------
(***************************************************************************)
(* Undispatched work is invisible to the scanner exactly while a POST of   *)
(* unknown outcome is unsettled: neither a change of a listing nor a late  *)
(* message releases the hold, and no other path leaves work without a due. *)
(***************************************************************************)
HoldIffUnsettled == Held <=> boundary # 0

(* The changes no revision stands for: the legacy ingress has not, or will *)
(* never, record them.                                                     *)
Unrecorded == IF ingress = "legacy" THEN notices \union lost ELSE {}

(* The changes a legacy flush acknowledged without a feed: it rejected the *)
(* pending rows because Autoload is off, and sent nothing.                 *)
Rejected(c) == ingress = "legacy" /\ c <= refused

(***************************************************************************)
(* A settled cursor hides nothing: once the newest revision is             *)
(* acknowledged, every committed change is in a feed Avito accepted.  With *)
(* the dual_write ingress this has no exception; with the legacy ingress   *)
(* what was not recorded or was met with Autoload off is excepted.         *)
(***************************************************************************)
AcknowledgedWasCovered ==
    dispatched = desired =>
        \A c \in 1..changes : c <= covered \/ Rejected(c) \/ c \in Unrecorded

(* A POST is never sent while an earlier one may have been accepted:       *)
(* the submission to Autoload is not idempotent.                           *)
NoBlindReplay == [][fpc = "boundary" /\ fpc' \in {"accepted", "ambiguous"} => ~sent]_vars

(***************************************************************************)
(* Every change of a listing reaches a feed, unless a submission of        *)
(* unknown outcome holds the account for the operator, or the change is    *)
(* one the legacy ingress lost or met with Autoload off.                   *)
(***************************************************************************)
ChangesReachFeed ==
    \A c \in Revisions :
        changes >= c ~> \/ covered >= c \/ Rejected(c)
                        \/ boundary # 0 /\ fpc = "idle"
                        \/ ingress = "legacy" /\ c \in lost
=============================================================================
