------------------------------- MODULE FeedRuns -------------------------------
(***************************************************************************)
(* Durable feed generations of one Avito account: feed_workflow.py and the *)
(* durable half of marketplaces/tasks.py.                                  *)
(*                                                                         *)
(* A flush, alone under the advisory lock, creates a generation, stores    *)
(* its payload in the one feed object of the account, reads the latest     *)
(* upload of the provider as a baseline, persists the submission boundary  *)
(* and POSTs.  From then on step workers, each with a lease, look for the  *)
(* upload, bind its identity and apply its item pages to the listings.     *)
(* Every write of a worker is a compare-and-set on (state, revision,       *)
(* token, lease); each transition changes the revision and clears the      *)
(* token, so a claim is valid exactly while its worker owns the run.       *)
(*                                                                         *)
(* The provider starts an upload when a POST reaches it, late or not, and  *)
(* on its own hourly schedule; an upload carries the feed object of that   *)
(* moment.  Wake-ups are not modelled: the recovery scan republishes the   *)
(* current revision of every due run, and stale ones are no-ops.           *)
(***************************************************************************)
EXTENDS Naturals, FiniteSets

CONSTANTS
    Workers,         \* process_marketplace_feed_run_step
    Flush, NoOwner,
    Listings,
    Unread,          \* provider_predecessor_run_id is NULL
    MaxRuns,         \* bound: generations in the instance
    MaxUploads,      \* bound: uploads the provider starts
    Threshold,       \* _DURABLE_FEED_SUBMISSION_NEGATIVE_THRESHOLD
    MaxFaults        \* bound: crashes, lapsed leases, failed reads, refusals

ASSUME FeedRunsAssumption ==
    /\ Flush \notin Workers
    /\ NoOwner \notin Workers \union {Flush}
    /\ MaxRuns \in Nat \ {0}
    /\ MaxUploads \in Nat \ {0}
    /\ Threshold \in Nat \ {0}
    /\ MaxFaults \in Nat
    /\ Unread \notin Nat

VARIABLES
    live,            \* the account and its tenant are active
    made,            \* number of generations created
    (* The columns of MarketplaceFeedRun. *)
    state, owner, leased,
    waiting,         \* next_attempt_at is in the future
    pred,            \* provider_predecessor_run_id; set with submitted_at
    bound,           \* provider_run_id; 0: NULL
    age,             \* time since submitted_at
    negatives,       \* submission_reconcile_attempt
    reported,        \* report_completed_at is set
    (* The feed object and the provider. *)
    object,          \* generation whose payload the feed object holds
    latest,          \* the latest upload; 0: none
    content,         \* generation whose payload an upload carries
    processed,       \* the latest upload has finished
    inflight,        \* a POST of the generation may still arrive
    (* The flush and the step workers, with their locals. *)
    fpc, fgen, fbase,
    wpc, wgen, wobs, wpage,
    (* Listings. *)
    lstat, lrun,
    lsource,         \* history: upload that published or rejected the listing
    posts,           \* history: POSTs sent per generation
    faults

runVars == <<state, owner, leased, waiting, pred, bound, age, negatives, reported>>
claimVars == <<state, owner, leased, waiting>>
evidenceVars == <<pred, bound, age, negatives, reported>>
providerVars == <<latest, content, processed, inflight>>
flushVars == <<fpc, fgen, fbase>>
workVars == <<wpc, wgen, wobs, wpage>>
listingVars == <<lstat, lrun, lsource>>
vars == <<live, made, runVars, object, providerVars, flushVars, workVars, listingVars, posts, faults>>

Runs == 1..MaxRuns
Active == {"preparing", "submit_unknown", "polling", "reporting"}
Submitted == {"submit_unknown", "polling", "reporting", "outcome_uncertain"}
Terminal == {"succeeded", "failed", "outcome_uncertain", "superseded", "cancelled"}
Owning == Active \union {"outcome_uncertain"}

RunType ==
    /\ state \in [Runs -> {"absent"} \union Active \union Terminal]
    /\ owner \in [Runs -> Workers \union {Flush, NoOwner}]
    /\ leased \in [Runs -> BOOLEAN]
    /\ waiting \in [Runs -> BOOLEAN]

EvidenceType ==
    /\ pred \in [Runs -> 0..MaxUploads \union {Unread}]
    /\ bound \in [Runs -> 0..MaxUploads]
    /\ age \in [Runs -> {"early", "horizon", "deadline"}]
    /\ negatives \in [Runs -> 0..Threshold]
    /\ reported \in [Runs -> BOOLEAN]

ProviderType ==
    /\ object \in 0..MaxRuns
    /\ latest \in 0..MaxUploads
    /\ content \in [1..MaxUploads -> 0..MaxRuns]
    /\ processed \in BOOLEAN
    /\ inflight \in [Runs -> BOOLEAN]

FlushType ==
    /\ live \in BOOLEAN
    /\ made \in 0..MaxRuns
    /\ fpc \in {"idle", "created", "claimed", "stored", "based", "boundary",
                "accepted", "ambiguous", "limited", "refused", "cleared"}
    /\ fgen \in 0..MaxRuns
    /\ fbase \in 0..MaxUploads

WorkType ==
    /\ wpc \in [Workers -> {"idle", "claimed", "observed", "paged"}]
    /\ wgen \in [Workers -> 0..MaxRuns]
    /\ wobs \in [Workers -> 0..MaxUploads]
    /\ wpage \in [Workers -> 0..MaxUploads]

ListingType ==
    /\ lstat \in [Listings -> {"draft", "pending", "active", "rejected"}]
    /\ lrun \in [Listings -> 0..MaxRuns]
    /\ lsource \in [Listings -> 0..MaxUploads]
    /\ posts \in [Runs -> Nat]
    /\ faults \in 0..MaxFaults

TypeOK ==
    /\ RunType /\ EvidenceType /\ ProviderType
    /\ FlushType /\ WorkType /\ ListingType

Init ==
    /\ live = TRUE /\ made = 0
    /\ state = [g \in Runs |-> "absent"]
    /\ owner = [g \in Runs |-> NoOwner]
    /\ leased = [g \in Runs |-> FALSE]
    /\ waiting = [g \in Runs |-> FALSE]
    /\ pred = [g \in Runs |-> Unread]
    /\ bound = [g \in Runs |-> 0]
    /\ age = [g \in Runs |-> "early"]
    /\ negatives = [g \in Runs |-> 0]
    /\ reported = [g \in Runs |-> FALSE]
    /\ object = 0 /\ latest = 0
    /\ content = [u \in 1..MaxUploads |-> 0]
    /\ processed = TRUE
    /\ inflight = [g \in Runs |-> FALSE]
    /\ fpc = "idle" /\ fgen = 0 /\ fbase = 0
    /\ wpc = [w \in Workers |-> "idle"]
    /\ wgen = [w \in Workers |-> 0]
    /\ wobs = [w \in Workers |-> 0]
    /\ wpage = [w \in Workers |-> 0]
    /\ lstat = [l \in Listings |-> "draft"]
    /\ lrun = [l \in Listings |-> 0]
    /\ lsource = [l \in Listings |-> 0]
    /\ posts = [g \in Runs |-> 0]
    /\ faults = 0

Fault == faults < MaxFaults /\ faults' = faults + 1

-----------------------------------------------------------------------------
(* Transitions of a run. *)

(* _transition_claimed and _terminalize_locked: the claim is cleared. *)
Move(g, s, wait) ==
    /\ state' = [state EXCEPT ![g] = s]
    /\ owner' = [owner EXCEPT ![g] = NoOwner]
    /\ leased' = [leased EXCEPT ![g] = FALSE]
    /\ waiting' = [waiting EXCEPT ![g] = wait]

(* _lock_claimed_run *)
Valid(a, g) == live /\ owner[g] = a /\ leased[g]

(* _has_proven_no_submission *)
NeverSubmitted(g) == state[g] = "preparing" /\ pred[g] = Unread /\ bound[g] = 0

(* _fence_invalid_owner_locked *)
Fenced(g, safe) == Move(g, IF NeverSubmitted(g) THEN safe ELSE "outcome_uncertain", FALSE)

(* Mutant: any generation may be replaced while it is unclaimed. *)
ReplaceableUnclaimed(g) == owner[g] = NoOwner

(* create_or_supersede_feed_run: what a new generation may replace. *)
Replaceable(g) == owner[g] = NoOwner /\ NeverSubmitted(g)

-----------------------------------------------------------------------------
(* The flush: _coalesced_flush_durable under the advisory lock. *)

EndFlush == fpc' = "idle" /\ fgen' = 0 /\ fbase' = 0

(* create_or_supersede_feed_run, which tags the pending listings. *)
CreateRun ==
    /\ fpc = "idle" /\ live /\ made < MaxRuns
    /\ \A g \in Runs : state[g] \in Owning => Replaceable(g)
    /\ made' = made + 1
    /\ state' = [g \in Runs |->
                    IF g = made' THEN "preparing"
                    ELSE IF state[g] \in Active THEN "superseded" ELSE state[g]]
    /\ waiting' = [g \in Runs |-> FALSE]
    /\ lrun' = [l \in Listings |-> IF lstat[l] = "pending" THEN made' ELSE lrun[l]]
    /\ fpc' = "created" /\ fgen' = made'
    /\ UNCHANGED <<live, owner, leased, evidenceVars, object, providerVars, fbase,
                   workVars, lstat, lsource, posts, faults>>

(***************************************************************************)
(* claim_due_run_for_account with the exact revision of the creation: a    *)
(* step worker may have claimed, or even failed, the new run before.       *)
(***************************************************************************)
ClaimRun ==
    /\ fpc = "created"
    /\ IF state[fgen] # "preparing" \/ owner[fgen] # NoOwner
       THEN EndFlush /\ UNCHANGED claimVars
       ELSE IF ~live THEN EndFlush /\ Fenced(fgen, "cancelled")
       ELSE /\ owner' = [owner EXCEPT ![fgen] = Flush]
            /\ leased' = [leased EXCEPT ![fgen] = TRUE]
            /\ fpc' = "claimed"
            /\ UNCHANGED <<state, waiting, fgen, fbase>>
    /\ UNCHANGED <<live, made, evidenceVars, object, providerVars, workVars, listingVars, posts, faults>>

(* A failure before the boundary: retry_step, or FAILED on the last retry. *)
GiveUpPreparing ==
    /\ fpc \in {"claimed", "stored", "cleared"}
    /\ IF fpc = "cleared" THEN UNCHANGED faults ELSE Fault
    /\ IF Valid(Flush, fgen)
       THEN Move(fgen, "preparing", TRUE) \/ Move(fgen, "failed", FALSE)
       ELSE UNCHANGED claimVars
    /\ EndFlush
    /\ UNCHANGED <<live, made, evidenceVars, object, providerVars, workVars, listingVars, posts>>

(* _upload_to_s3: the claim is not consulted. *)
StoreObject ==
    /\ fpc = "claimed"
    /\ object' = fgen
    /\ fpc' = "stored"
    /\ UNCHANGED <<live, made, runVars, providerVars, fgen, fbase, workVars, listingVars, posts, faults>>

(* validate_feed_submission_owner, then the strict read of the baseline. *)
ReadBaseline ==
    /\ fpc = "stored"
    /\ IF owner[fgen] # Flush \/ ~leased[fgen]
       THEN EndFlush /\ UNCHANGED claimVars
       ELSE IF ~live THEN EndFlush /\ Fenced(fgen, "cancelled")
       ELSE fpc' = "based" /\ fbase' = latest /\ UNCHANGED <<claimVars, fgen>>
    /\ UNCHANGED <<live, made, evidenceVars, object, providerVars, workVars, listingVars, posts, faults>>

(* persist_feed_submission_boundary keeps the lease. *)
PersistBoundary ==
    /\ fpc = "based"
    /\ IF owner[fgen] # Flush \/ ~leased[fgen]
       THEN EndFlush /\ UNCHANGED <<claimVars, evidenceVars>>
       ELSE IF ~live THEN EndFlush /\ Fenced(fgen, "cancelled") /\ UNCHANGED evidenceVars
       ELSE /\ state' = [state EXCEPT ![fgen] = "submit_unknown"]
            /\ pred' = [pred EXCEPT ![fgen] = fbase]
            /\ fpc' = "boundary"
            /\ UNCHANGED <<owner, leased, waiting, bound, age, negatives, reported, fgen, fbase>>
    /\ UNCHANGED <<live, made, object, providerVars, workVars, listingVars, posts, faults>>

(* An upload starts with the feed object of this moment. *)
StartUpload ==
    /\ latest < MaxUploads
    /\ latest' = latest + 1
    /\ content' = [content EXCEPT ![latest + 1] = object]
    /\ processed' = FALSE

(***************************************************************************)
(* _trigger_autoload: accepted (the upload starts now or later), refused   *)
(* (a rate limit or another response) or of unknown outcome.               *)
(***************************************************************************)
TriggerAutoload ==
    /\ fpc = "boundary"
    /\ posts' = [posts EXCEPT ![fgen] = @ + 1]
    /\ \/ /\ fpc' = "accepted" /\ UNCHANGED faults
          /\ \/ StartUpload /\ UNCHANGED inflight
             \/ /\ inflight' = [inflight EXCEPT ![fgen] = TRUE]
                /\ UNCHANGED <<latest, content, processed>>
       \/ fpc' \in {"limited", "refused"} /\ Fault /\ UNCHANGED providerVars
       \/ /\ fpc' = "ambiguous" /\ Fault
          /\ inflight' \in {inflight, [inflight EXCEPT ![fgen] = TRUE]}
          /\ UNCHANGED <<latest, content, processed>>
    /\ UNCHANGED <<live, made, runVars, object, fgen, fbase, workVars, listingVars>>

(* mark_feed_submitted, mark_feed_submission_unknown, FAILED by response. *)
RecordPost ==
    /\ fpc \in {"accepted", "ambiguous", "refused"}
    /\ IF ~Valid(Flush, fgen) THEN UNCHANGED claimVars
       ELSE \/ fpc = "accepted" /\ Move(fgen, "polling", TRUE)
            \/ fpc = "ambiguous" /\ Move(fgen, "submit_unknown", TRUE)
            \/ fpc = "refused" /\ Move(fgen, "failed", FALSE)
    /\ EndFlush
    /\ UNCHANGED <<live, made, evidenceVars, object, providerVars, workVars, listingVars, posts, faults>>

(* A rate limit: FAILED on the last retry, or the boundary is withdrawn,   *)
(* _clear_rejected_feed_submission_boundary, before retry_step.            *)
ClearBoundary ==
    /\ fpc = "limited"
    /\ \/ /\ owner[fgen] = Flush /\ leased[fgen]
          /\ state' = [state EXCEPT ![fgen] = "preparing"]
          /\ pred' = [pred EXCEPT ![fgen] = Unread]
          /\ fpc' = "cleared"
          /\ UNCHANGED <<owner, leased, waiting, fgen, fbase>>
       \/ /\ IF Valid(Flush, fgen) THEN Move(fgen, "failed", FALSE) ELSE UNCHANGED claimVars
          /\ EndFlush
          /\ UNCHANGED pred
    /\ UNCHANGED <<live, made, bound, age, negatives, reported, object, providerVars, workVars,
                   listingVars, posts, faults>>

(* The flush is killed; its session and the advisory lock go with it. *)
FlushCrash ==
    /\ fpc # "idle" /\ Fault
    /\ EndFlush
    /\ UNCHANGED <<live, made, runVars, object, providerVars, workVars, listingVars, posts>>

-----------------------------------------------------------------------------
(* The provider and time. *)

(* The provider starts the upload of a POST it holds. *)
LatePost(g) ==
    /\ inflight[g] /\ StartUpload
    /\ inflight' = [inflight EXCEPT ![g] = FALSE]
    /\ UNCHANGED <<live, made, runVars, object, flushVars, workVars, listingVars, posts, faults>>

LostPost(g) ==
    /\ inflight[g]
    /\ inflight' = [inflight EXCEPT ![g] = FALSE]
    /\ UNCHANGED <<live, made, runVars, object, latest, content, processed, flushVars, workVars,
                   listingVars, posts, faults>>

(* Autoload's own schedule, or the user in the provider's cabinet; the     *)
(* bound keeps an upload for every POST that may still arrive.             *)
ScheduledUpload ==
    /\ latest + Cardinality({g \in Runs : posts[g] = 0 \/ inflight[g]}) < MaxUploads
    /\ object # 0 /\ processed /\ Fault /\ StartUpload
    /\ UNCHANGED <<live, made, runVars, object, inflight, flushVars, workVars, listingVars, posts>>

ProviderFinishes ==
    /\ ~processed
    /\ processed' = TRUE
    /\ UNCHANGED <<live, made, runVars, object, latest, content, inflight, flushVars, workVars,
                   listingVars, posts, faults>>

BecomeDue(g) ==
    /\ waiting[g]
    /\ waiting' = [waiting EXCEPT ![g] = FALSE]
    /\ UNCHANGED <<live, made, state, owner, leased, evidenceVars, object, providerVars, flushVars,
                   workVars, listingVars, posts, faults>>

(* The reconciliation horizon, then the deadline of 48 hours. *)
Age(g) ==
    /\ state[g] \in Submitted \ {"outcome_uncertain"} /\ age[g] # "deadline"
    /\ age' = [age EXCEPT ![g] = IF @ = "early" THEN "horizon" ELSE "deadline"]
    /\ UNCHANGED <<live, made, claimVars, pred, bound, negatives, reported, object, providerVars,
                   flushVars, workVars, listingVars, posts, faults>>

(* The worker that holds the claim works on the run. *)
AtWork(g) ==
    \/ owner[g] = Flush /\ fgen = g
    \/ \E w \in Workers : owner[g] = w /\ wgen[w] = g

(* A lease of five minutes lapses.                                         *)
LeaseExpires(g) ==
    /\ leased[g] /\ ~AtWork(g)
    /\ leased' = [leased EXCEPT ![g] = FALSE]
    /\ UNCHANGED <<live, made, state, owner, waiting, evidenceVars, object, providerVars, flushVars,
                   workVars, listingVars, posts, faults>>

(* The lease lapses under a worker that is slow but alive.                 *)
LeaseOverrun(g) ==
    /\ leased[g] /\ AtWork(g) /\ Fault
    /\ leased' = [leased EXCEPT ![g] = FALSE]
    /\ UNCHANGED <<live, made, state, owner, waiting, evidenceVars, object, providerVars, flushVars,
                   workVars, listingVars, posts>>

-----------------------------------------------------------------------------
(* process_marketplace_feed_run_step. *)

EndStep(w) ==
    /\ wpc' = [wpc EXCEPT ![w] = "idle"]
    /\ wgen' = [wgen EXCEPT ![w] = 0]
    /\ wobs' = [wobs EXCEPT ![w] = 0]
    /\ wpage' = [wpage EXCEPT ![w] = 0]

(* claim_due_run_for_account *)
StepClaim(w, g) ==
    /\ wpc[w] = "idle" /\ live
    /\ state[g] \in Active /\ ~waiting[g]
    /\ owner[g] = NoOwner \/ ~leased[g]
    /\ owner' = [owner EXCEPT ![g] = w]
    /\ leased' = [leased EXCEPT ![g] = TRUE]
    /\ wpc' = [wpc EXCEPT ![w] = "claimed"]
    /\ wgen' = [wgen EXCEPT ![w] = g]
    /\ UNCHANGED <<live, made, state, waiting, evidenceVars, object, providerVars, flushVars, wobs,
                   wpage, listingVars, posts, faults>>

(* A run found in PREPARING has lost its flush before the boundary. *)
FailOrphan(w) ==
    /\ wpc[w] = "claimed" /\ state[wgen[w]] = "preparing"
    /\ IF Valid(w, wgen[w]) THEN Move(wgen[w], "failed", FALSE) ELSE UNCHANGED claimVars
    /\ EndStep(w)
    /\ UNCHANGED <<live, made, evidenceVars, object, providerVars, flushVars, listingVars, posts, faults>>

(* A step of a run that was moved on meanwhile: StaleFeedRunClaim. *)
StepStale(w) ==
    /\ wpc[w] # "idle" /\ ~Valid(w, wgen[w])
    /\ EndStep(w)
    /\ UNCHANGED <<live, made, runVars, object, providerVars, flushVars, listingVars, posts, faults>>

(* Mutant: only a report is given up at the deadline. *)
PastDeadlineReporting(g) == state[g] = "reporting" /\ age[g] = "deadline"

(* The deadline is checked before the provider is asked. *)
PastDeadline(g) == state[g] \in {"polling", "reporting"} /\ age[g] = "deadline"

(* get_latest_upload(strict=True) *)
Observe(w) ==
    LET g == wgen[w]
    IN  /\ wpc[w] = "claimed" /\ state[g] \in Active \ {"preparing"}
        /\ ~(Valid(w, g) /\ PastDeadline(g))
        /\ wpc' = [wpc EXCEPT ![w] = "observed"]
        /\ wobs' = [wobs EXCEPT ![w] = latest]
        /\ UNCHANGED <<live, made, runVars, object, providerVars, flushVars, wgen, wpage,
                       listingVars, posts, faults>>

(* _finish_provider_result_uncertain at the deadline. *)
Overdue(w) ==
    /\ wpc[w] = "claimed" /\ Valid(w, wgen[w]) /\ PastDeadline(wgen[w])
    /\ Move(wgen[w], "outcome_uncertain", FALSE)
    /\ EndStep(w)
    /\ UNCHANGED <<live, made, evidenceVars, object, providerVars, flushVars, listingVars, posts, faults>>

(* A read fails, or the status is not one the code accepts: retry_step.    *)
ReadFails(w) ==
    /\ wpc[w] \in {"claimed", "observed"} /\ Valid(w, wgen[w])
    /\ state[wgen[w]] \in Active \ {"preparing"} /\ Fault
    /\ Move(wgen[w], state[wgen[w]], TRUE)
    /\ EndStep(w)
    /\ UNCHANGED <<live, made, evidenceVars, object, providerVars, flushVars, listingVars, posts>>

(* Mutant: the baseline is not compared. *)
ForeignAny(g, u) == u # 0

(* The observed upload is not the one that existed before the POST. *)
Foreign(g, u) == u # pred[g]

(* record_provider_run_observation *)
Bind(w) ==
    LET g == wgen[w]
    IN  /\ wpc[w] = "observed" /\ Valid(w, g)
        /\ state[g] \in {"submit_unknown", "polling"} /\ bound[g] = 0
        /\ Foreign(g, wobs[w])
        /\ bound' = [bound EXCEPT ![g] = wobs[w]]
        /\ negatives' = [negatives EXCEPT ![g] = 0]
        /\ Move(g, "polling", TRUE)
        /\ EndStep(w)
        /\ UNCHANGED <<live, made, pred, age, reported, object, providerVars, flushVars,
                       listingVars, posts, faults>>

(* _record_submission_negative_or_fail, or a retry once submitted. *)
NotYetThere(w) ==
    LET g == wgen[w]
    IN  /\ wpc[w] = "observed" /\ Valid(w, g)
        /\ state[g] \in {"submit_unknown", "polling"} /\ bound[g] = 0
        /\ ~Foreign(g, wobs[w])
        /\ IF state[g] = "polling" THEN Move(g, "polling", TRUE) /\ UNCHANGED negatives
           ELSE /\ negatives' = [negatives EXCEPT ![g] = IF @ < Threshold THEN @ + 1 ELSE @]
                /\ IF age[g] # "early" /\ negatives'[g] >= Threshold
                   THEN Move(g, "outcome_uncertain", FALSE)
                   ELSE Move(g, "submit_unknown", TRUE)
        /\ EndStep(w)
        /\ UNCHANGED <<live, made, pred, bound, age, reported, object, providerVars, flushVars,
                       listingVars, posts, faults>>

(* The latest upload moved away from the bound one. *)
IdentityMoved(w) ==
    LET g == wgen[w]
    IN  /\ wpc[w] = "observed" /\ Valid(w, g) /\ bound[g] # 0 /\ wobs[w] # bound[g]
        /\ Move(g, "outcome_uncertain", FALSE)
        /\ EndStep(w)
        /\ UNCHANGED <<live, made, evidenceVars, object, providerVars, flushVars, listingVars, posts, faults>>

(* start_reporting; a run whose report is complete keeps polling. *)
StartReporting(w) ==
    LET g == wgen[w]
    IN  /\ wpc[w] = "observed" /\ Valid(w, g)
        /\ state[g] = "polling" /\ wobs[w] = bound[g] /\ bound[g] # 0 /\ ~reported[g]
        /\ Move(g, "reporting", TRUE)
        /\ EndStep(w)
        /\ UNCHANGED <<live, made, evidenceVars, object, providerVars, flushVars, listingVars, posts, faults>>

Tagged(g) == {l \in Listings : lrun[l] = g /\ lstat[l] = "pending"}

(* The item page: the provider serves its current upload. *)
ReadPage(w) ==
    LET g == wgen[w]
    IN  /\ wpc[w] = "observed" /\ Valid(w, g) /\ wobs[w] = bound[g] /\ bound[g] # 0
        /\ state[g] = "reporting" \/ reported[g]
        /\ wpc' = [wpc EXCEPT ![w] = "paged"]
        /\ wpage' = [wpage EXCEPT ![w] = latest]
        /\ UNCHANGED <<live, made, runVars, object, providerVars, flushVars, wgen, wobs,
                       listingVars, posts, faults>>

(* Mutant: the upload is not read again after the page. *)
SameUploadBefore(w) == TRUE

(* The second read of the latest upload, after the page. *)
SameUpload(w) == latest = wobs[w]

(***************************************************************************)
(* apply_report_page and apply_poll_page: the page settles some of the     *)
(* pending listings of this generation.  A page that is not the last keeps *)
(* the report open; the last one ends the run when nothing is pending,     *)
(* else the ids are polled once the upload is processed.                   *)
(***************************************************************************)
CommitPage(w) ==
    LET g == wgen[w]
    IN  /\ wpc[w] = "paged" /\ Valid(w, g)
        /\ IF ~SameUpload(w) \/ age[g] = "deadline"
           THEN Move(g, "outcome_uncertain", FALSE) /\ UNCHANGED <<listingVars, reported>>
           ELSE \E ok, bad \in SUBSET Tagged(g) :
                /\ ok \intersect bad = {}
                /\ state[g] = "polling" => bad = {}
                /\ lstat' = [l \in Listings |-> IF l \in ok THEN "active"
                                                ELSE IF l \in bad THEN "rejected" ELSE lstat[l]]
                /\ lsource' = [l \in Listings |-> IF l \in ok \union bad THEN wpage[w] ELSE lsource[l]]
                /\ UNCHANGED lrun
                /\ \/ Tagged(g) \ (ok \union bad) = {} /\ Move(g, "succeeded", FALSE)
                      /\ reported' = [reported EXCEPT ![g] = TRUE]
                   \/ /\ Tagged(g) \ (ok \union bad) # {} /\ processed
                      /\ Move(g, "polling", TRUE)
                      /\ reported' = [reported EXCEPT ![g] = TRUE]
                   \/ /\ Tagged(g) \ (ok \union bad) # {}
                      /\ Move(g, state[g], TRUE)
                      /\ UNCHANGED reported
        /\ EndStep(w)
        /\ UNCHANGED <<live, made, pred, bound, age, negatives, object, providerVars, flushVars,
                       posts, faults>>

StepCrash(w) ==
    /\ wpc[w] # "idle" /\ Fault
    /\ EndStep(w)
    /\ UNCHANGED <<live, made, runVars, object, providerVars, flushVars, listingVars, posts>>

-----------------------------------------------------------------------------
(* The user, the tenant and the operator. *)

(* ListingService.publish: the listing keeps the tag of its former         *)
(* generation until the next one takes it up.                              *)
Publish(l) ==
    /\ live /\ lstat[l] \in {"draft", "rejected"}
    /\ lstat' = [lstat EXCEPT ![l] = "pending"]
    /\ lsource' = [lsource EXCEPT ![l] = 0]
    /\ UNCHANGED <<live, made, runVars, object, providerVars, flushVars, workVars, lrun, posts, faults>>

(* A listing whose generation failed before its submission is detached. *)
PublishAgain(l) ==
    /\ live /\ lstat[l] = "pending" /\ lrun[l] # 0
    /\ state[lrun[l]] = "failed" /\ pred[lrun[l]] = Unread /\ bound[lrun[l]] = 0
    /\ lrun' = [lrun EXCEPT ![l] = 0]
    /\ UNCHANGED <<live, made, runVars, object, providerVars, flushVars, workVars, lstat, lsource,
                   posts, faults>>

(* Deactivation fences the owner: fence_account_feed_runs_for_owner_change. *)
Deactivate ==
    /\ live /\ Fault
    /\ live' = FALSE
    /\ IF \E g \in Runs : state[g] \in Active
       THEN \E g \in Runs : state[g] \in Active /\ Fenced(g, "cancelled")
       ELSE UNCHANGED claimVars
    /\ UNCHANGED <<made, evidenceVars, object, providerVars, flushVars, workVars, listingVars, posts>>

(* The tenant is suspended: nothing is fenced until the recovery runs. *)
Suspend ==
    /\ live /\ Fault
    /\ live' = FALSE
    /\ UNCHANGED <<made, runVars, object, providerVars, flushVars, workVars, listingVars, posts>>

Restore ==
    /\ ~live
    /\ live' = TRUE
    /\ UNCHANGED <<made, runVars, object, providerVars, flushVars, workVars, listingVars, posts, faults>>

(* cancel_feed_runs_for_inactive_owners *)
CancelInactive(g) ==
    /\ ~live /\ state[g] \in Active
    /\ Fenced(g, "cancelled")
    /\ UNCHANGED <<live, made, evidenceVars, object, providerVars, flushVars, workVars, listingVars,
                   posts, faults>>

(* A change of credentials: only a run that was never submitted gives way. *)
ChangeIdentity(g) ==
    /\ live /\ NeverSubmitted(g) /\ Fault
    /\ Move(g, "superseded", FALSE)
    /\ UNCHANGED <<live, made, evidenceVars, object, providerVars, flushVars, workVars, listingVars, posts>>

(***************************************************************************)
(* reconcile_uncertain_feed_run: provider_accepted.  The code takes any    *)
(* upload that no other run is bound to; that it exists and is one of this *)
(* generation's is the operator's word, assumed to be true here.           *)
(***************************************************************************)
ReconcileAccepted(g, u) ==
    /\ state[g] = "outcome_uncertain" /\ live /\ Fault
    /\ u <= latest /\ content[u] = g /\ bound[g] \in {0, u}
    /\ pred[g] # Unread
    /\ \A h \in Runs \ {g} : bound[h] # u
    /\ bound' = [bound EXCEPT ![g] = u]
    /\ age' = [age EXCEPT ![g] = "early"]
    /\ negatives' = [negatives EXCEPT ![g] = 0]
    /\ reported' = [reported EXCEPT ![g] = FALSE]
    /\ Move(g, "polling", FALSE)
    /\ UNCHANGED <<live, made, pred, object, providerVars, flushVars, workVars, listingVars, posts>>

(* provider_not_accepted, which the code accepts at any moment: the POST   *)
(* may be under way, or the flush not have returned.                       *)
ReconcileRejected(g) ==
    /\ state[g] = "outcome_uncertain" /\ pred[g] # Unread
    /\ Move(g, "failed", FALSE)
    /\ negatives' = [negatives EXCEPT ![g] = 0]
    /\ UNCHANGED <<live, made, pred, bound, age, reported, object, providerVars, flushVars, workVars,
                   listingVars, posts, faults>>

-----------------------------------------------------------------------------
FlushStep ==
    \/ ClaimRun \/ GiveUpPreparing \/ StoreObject \/ ReadBaseline \/ PersistBoundary
    \/ TriggerAutoload \/ RecordPost \/ ClearBoundary

Step(w) ==
    \/ FailOrphan(w) \/ StepStale(w) \/ Observe(w) \/ Overdue(w) \/ ReadFails(w) \/ Bind(w)
    \/ NotYetThere(w) \/ IdentityMoved(w) \/ StartReporting(w) \/ ReadPage(w) \/ CommitPage(w)

Next ==
    \/ CreateRun \/ FlushStep \/ FlushCrash
    \/ \E g \in Runs : LatePost(g) \/ LostPost(g) \/ BecomeDue(g) \/ Age(g)
    \/ \E g \in Runs : LeaseExpires(g) \/ LeaseOverrun(g)
    \/ ScheduledUpload \/ ProviderFinishes
    \/ \E w \in Workers : Step(w) \/ StepCrash(w) \/ \E g \in Runs : StepClaim(w, g)
    \/ \E l \in Listings : Publish(l) \/ PublishAgain(l)
    \/ Deactivate \/ Suspend \/ Restore
    \/ \E g \in Runs : CancelInactive(g) \/ ChangeIdentity(g) \/ ReconcileRejected(g)
    \/ \E g \in Runs, u \in 1..MaxUploads : ReconcileAccepted(g, u)

Spec == Init /\ [][Next]_vars

(* The scans and the workers run, leases and deadlines are reached. *)
FairSpec ==
    /\ Spec
    /\ WF_vars(FlushStep)
    /\ \A w \in Workers : WF_vars(Step(w))
    /\ \A g \in Runs :
        /\ WF_vars(\E w \in Workers : StepClaim(w, g))
        /\ WF_vars(BecomeDue(g)) /\ WF_vars(Age(g))
        /\ WF_vars(LeaseExpires(g))
        /\ WF_vars(CancelInactive(g))

-----------------------------------------------------------------------------
(***************************************************************************)
(* A run is bound only to an upload that carries its own payload: the      *)
(* object is stored before the baseline is read, and no other generation   *)
(* may replace the object while this one owns the account.                 *)
(***************************************************************************)
BoundCarriesPayload ==
    \A g \in Runs : bound[g] # 0 => content[bound[g]] = g

(* A listing is settled by the upload its generation is bound to, never by *)
(* the page of an upload that started meanwhile.                           *)
SettledByOwnUpload ==
    \A l \in Listings : lsource[l] # 0 => lsource[l] = bound[lrun[l]]

(* The POST of a generation is sent at most once. *)
PostedAtMostOnce == \A g \in Runs : posts[g] <= 1

(* No POST is sent while another submission is unresolved. *)
NoConcurrentSubmission ==
    [][\A g \in Runs : posts'[g] # posts[g] =>
           \A h \in Runs \ {g} : state[h] \notin Submitted]_vars

(* A generation that was started ends, or is handed to the operator. *)
RunsResolve == \A g \in Runs : state[g] \in Active ~> state[g] \in Terminal
=============================================================================
