------------------------------ MODULE WebSearch ------------------------------
(* Paid web search (apps/web_research/accounting.py and the run executor in    *)
(* services.py and tasks.py): every provider call is reserved, transmitted,    *)
(* checkpointed and applied to the run, and nothing is paid for twice.         *)
(*                                                                             *)
(* A run has a plan of slots, each with the same list of fallback providers;   *)
(* <<slot, provider>> is the logical call of a slot, kept as one attempt row.  *)
(* All runs of an instance research one product: runs of other products share  *)
(* nothing with them but the quota.  A transaction under the tenant lock is    *)
(* one step.  The AI extraction after the search is AIProviderOperations.      *)
EXTENDS Naturals, FiniteSets

CONSTANTS
    Runs,           \* research runs, each with its workflow
    Slots,          \* number of query slots of a plan
    Providers,      \* number of fallback providers of a slot
    Workers,        \* processes that execute runs
    NoRun, NoWorker,
    GlobalLimit,    \* counted calls allowed in one quota window; 0: no limit
    ProviderLimit,  \* the same for one provider
    MaxFaults       \* bound: crashes, lost sessions, local failures

ASSUME PlanAssumption == Slots \in Nat \ {0} /\ Providers \in Nat \ {0}
ASSUME QuotaAssumption ==
    GlobalLimit \in Nat /\ ProviderLimit \in Nat /\ IsFiniteSet(Runs)
ASSUME NoneAssumption == NoRun \notin Runs /\ NoWorker \notin Workers

Calls == (1..Slots) \X (1..Providers)

VARIABLES
    run,       \* WebResearchRun.status
    flow,      \* WebSearchWorkflow.status of the run's workflow
    status,    \* WebSearchAttempt.status of each call of each run
    recon,     \* its reconciliation_state
    apply,     \* its apply_state
    stored,    \* its encrypted checkpoint exists
    recent,    \* it was created in the current quota window
    evidence,  \* calls whose results are saved as the run's evidence
    posted,    \* how often the call was transmitted to its provider
    owner,     \* who holds the advisory lock of the run
    pc, wrun, at,                   \* a worker: where it is in the plan
    seen, got, some, failing,       \* consumed calls, results, any_success, last_error
    faults

rows == <<status, recon, apply, stored, recent>>
memory == <<at, seen, got, some, failing>>
vars == <<run, flow, rows, evidence, posted, owner, pc, wrun, memory, faults>>

RunStates == {"absent", "queued", "running", "failed", "done"}
Open == {"in_progress", "apply_pending"}
Active == Open \union {"uncertain"}
Closed == {"applied", "reconciled"}
Returned == {"success", "empty"}
Refusals == {"failed", "presend"}
Attempted == {"started", "uncertain"} \union Returned \union Refusals

Row == Runs \X Calls
TypeOK ==
    /\ run \in [Runs -> RunStates]
    /\ flow \in [Runs -> {"absent"} \union Active \union Closed]
    /\ status \in [Row -> {"absent"} \union Attempted]
    /\ recon \in [Row -> {"none", "pending", "resolved"}]
    /\ apply \in [Row -> {"pending", "applied"}]
    /\ stored \in [Row -> BOOLEAN]
    /\ recent \in [Row -> BOOLEAN]
    /\ evidence \in [Runs -> SUBSET Calls]
    /\ posted \in [Row -> Nat]
    /\ owner \in [Runs -> Workers \union {NoWorker}]
    /\ pc \in [Workers -> {"idle", "plan", "search", "send", "reply", "apply",
                           "after", "raise"}]
    /\ wrun \in [Workers -> Runs \union {NoRun}]
    /\ at \in [Workers -> (1..(Slots + 1)) \X (1..Providers)]
    /\ seen \in [Workers -> SUBSET Calls]
    /\ got \in [Workers -> SUBSET Calls]
    /\ some \in [Workers -> BOOLEAN]
    /\ failing \in [Workers -> BOOLEAN]
    /\ faults \in Nat

Init ==
    /\ run = [r \in Runs |-> "absent"]
    /\ flow = [r \in Runs |-> "absent"]
    /\ status = [a \in Row |-> "absent"]
    /\ recon = [a \in Row |-> "none"]
    /\ apply = [a \in Row |-> "pending"]
    /\ stored = [a \in Row |-> FALSE]
    /\ recent = [a \in Row |-> FALSE]
    /\ evidence = [r \in Runs |-> {}]
    /\ posted = [a \in Row |-> 0]
    /\ owner = [r \in Runs |-> NoWorker]
    /\ pc = [w \in Workers |-> "idle"]
    /\ wrun = [w \in Workers |-> NoRun]
    /\ at = [w \in Workers |-> <<1, 1>>]
    /\ seen = [w \in Workers |-> {}]
    /\ got = [w \in Workers |-> {}]
    /\ some = [w \in Workers |-> FALSE]
    /\ failing = [w \in Workers |-> FALSE]
    /\ faults = 0

-----------------------------------------------------------------------------
(* Attempt rows *)

Attempts(r) == {c \in Calls : status[<<r, c>>] # "absent"}
Unknown(a) == recon[a] = "pending"
PaidIn(r) == {c \in Calls : status[<<r, c>>] \in Returned}

(* A workflow can be taken up again without another provider call. *)
LocallyResumable(r) ==
    \/ flow[r] \in Open
    \/ /\ flow[r] = "applied"
       /\ IF Attempts(r) = {} THEN run[r] \in {"queued", "running"} ELSE PaidIn(r) # {}

-----------------------------------------------------------------------------
(* Runs and who executes them *)

(* Another paid search for the product would start beside this one. *)
Blocks(r) ==
    \/ flow[r] \in Active
    \/ flow[r] = "applied" /\ run[r] \in {"queued", "running"}
    \/ flow[r] = "applied" /\ run[r] = "failed" /\ PaidIn(r) # {}

CreateRun(r) ==
    /\ run[r] = "absent"
    /\ \A other \in Runs : ~Blocks(other) /\ run[other] \notin {"queued", "running"}
    /\ run' = [run EXCEPT ![r] = "queued"]
    /\ UNCHANGED <<flow, rows, evidence, posted, owner, pc, wrun, memory, faults>>

(* A delivered task takes the run's advisory lock.  A failed run is taken up  *)
(* again when its workflow still holds replayable evidence.                   *)
Begin(w, r) ==
    /\ pc[w] = "idle"
    /\ owner[r] = NoWorker
    /\ \/ run[r] \in {"queued", "running"}
       \/ run[r] = "failed" /\ LocallyResumable(r)
    /\ owner' = [owner EXCEPT ![r] = w]
    /\ run' = [run EXCEPT ![r] = "running"]
    /\ wrun' = [wrun EXCEPT ![w] = r]
    /\ pc' = [pc EXCEPT ![w] = "plan"]
    /\ UNCHANGED <<flow, rows, evidence, posted, at, seen, got, some, failing, faults>>

(* Mutant: the operator's command takes up applied workflows only.            *)
ResumableApplied(r) == flow[r] = "applied" /\ PaidIn(r) # {}

(* The evidence of the run waits for a local apply, or has had one.           *)
Resumable(r) ==
    /\ \A c \in Attempts(r) : ~Unknown(<<r, c>>)
    /\ \/ /\ flow[r] = "in_progress"
          /\ \A c \in Attempts(r) : /\ status[<<r, c>>] \in Refusals
                                    /\ recon[<<r, c>>] = "none"
                                    /\ apply[<<r, c>>] = "pending"
       \/ flow[r] = "apply_pending" /\ \E c \in PaidIn(r) : apply[<<r, c>>] = "pending"
       \/ /\ flow[r] = "applied"
          /\ \/ PaidIn(r) # {}
             \/ Attempts(r) = {} /\ run[r] \in {"queued", "running"}
          /\ \A c \in Attempts(r) : apply[<<r, c>>] = "applied"

(* The operator requeues the run, whatever its state and whoever executes it. *)
Resume(r) ==
    /\ Resumable(r)
    /\ \A other \in Runs \ {r} : run[other] \notin {"queued", "running"}
    /\ run' = [run EXCEPT ![r] = "queued"]
    /\ UNCHANGED <<flow, rows, evidence, posted, owner, pc, wrun, memory, faults>>

Release(w) == owner' = [r \in Runs |-> IF owner[r] = w THEN NoWorker ELSE owner[r]]

Forget(w) ==
    /\ at' = [at EXCEPT ![w] = <<1, 1>>]
    /\ seen' = [seen EXCEPT ![w] = {}]
    /\ got' = [got EXCEPT ![w] = {}]
    /\ some' = [some EXCEPT ![w] = FALSE]
    /\ failing' = [failing EXCEPT ![w] = FALSE]

Leave(w) ==
    /\ pc' = [pc EXCEPT ![w] = "idle"]
    /\ wrun' = [wrun EXCEPT ![w] = NoRun]
    /\ Forget(w)
    /\ Release(w)

Raising(w) ==
    /\ pc' = [pc EXCEPT ![w] = "raise"]
    /\ Forget(w)
    /\ UNCHANGED <<owner, wrun>>

(* The run keeps its workflow replayable, or fails; it fails too when the AI  *)
(* extraction of applied evidence has no known outcome.  At most one run of a *)
(* product may be queued or running (unique index).                           *)
Raise(w) ==
    LET r == wrun[w]
        taken == \E other \in Runs \ {r} : run[other] \in {"queued", "running"}
    IN  /\ pc[w] = "raise"
        /\ \/ /\ LocallyResumable(r)
              /\ run' = IF taken THEN run ELSE [run EXCEPT ![r] = "queued"]
           \/ /\ ~LocallyResumable(r) \/ flow[r] = "applied"
              /\ run' = [run EXCEPT ![r] = "failed"]
        /\ Leave(w)
        /\ UNCHANGED <<flow, rows, evidence, posted, faults>>

-----------------------------------------------------------------------------
(* The plan *)

StartPlan(w) ==
    /\ pc' = [pc EXCEPT ![w] = "search"]
    /\ Forget(w)
    /\ UNCHANGED <<wrun, owner>>

(* acquire_web_search_workflow and resume_web_search_workflow *)
Acquire(w) ==
    LET r == wrun[w] IN
    /\ pc[w] = "plan"
    /\ \/ /\ flow[r] = "absent"
          /\ IF \E other \in Runs : flow[other] \in Active
             THEN Raising(w) /\ UNCHANGED flow
             ELSE StartPlan(w) /\ flow' = [flow EXCEPT ![r] = "in_progress"]
       \/ flow[r] \in Active /\ StartPlan(w) /\ UNCHANGED flow
       \/ /\ flow[r] = "applied"
          /\ pc' = [pc EXCEPT ![w] = "after"]
          /\ UNCHANGED <<flow, memory, wrun, owner>>
       \/ flow[r] = "reconciled" /\ Raising(w) /\ UNCHANGED flow
    /\ UNCHANGED <<run, rows, evidence, posted, faults>>

(* A result ends its slot; without one the next provider is asked. *)
Step(w, found) ==
    LET p == at[w]
        next == IF found \/ p[2] = Providers THEN <<p[1] + 1, 1>> ELSE <<p[1], p[2] + 1>>
    IN  /\ at' = [at EXCEPT ![w] = next]
        /\ pc' = [pc EXCEPT ![w] = IF next[1] > Slots THEN "apply" ELSE "search"]
        /\ UNCHANGED <<wrun, owner>>

(* The caller takes the recorded outcome of the call it is at. *)
Consume(w, outcome) ==
    /\ seen' = [seen EXCEPT ![w] = @ \union {at[w]}]
    /\ got' = IF outcome = "success" THEN [got EXCEPT ![w] = @ \union {at[w]}] ELSE got
    /\ some' = IF outcome \in Returned THEN [some EXCEPT ![w] = TRUE] ELSE some
    /\ failing' = IF outcome \in Returned THEN failing ELSE [failing EXCEPT ![w] = TRUE]
    /\ Step(w, outcome = "success")

(* The call was refused before an attempt existed: nothing to acknowledge. *)
PassBy(w) ==
    /\ failing' = [failing EXCEPT ![w] = TRUE]
    /\ UNCHANGED <<seen, got, some>>
    /\ Step(w, FALSE)

-----------------------------------------------------------------------------
(* Replay of a recorded call (replay_recorded_web_search) *)

Here(w) == <<wrun[w], at[w]>>

(* The call is in flight elsewhere: its workflow is fenced before the caller  *)
(* is turned away, so that the late owner cannot apply it either.             *)
ReplayStarted(w) ==
    /\ status[Here(w)] = "started" /\ Unknown(Here(w))
    /\ flow' = [flow EXCEPT ![wrun[w]] = "uncertain"]
    /\ Raising(w)
    /\ UNCHANGED <<status, recon>>

ReplayUnknown(w) ==
    /\ status[Here(w)] = "uncertain" /\ Unknown(Here(w))
    /\ Raising(w)
    /\ UNCHANGED <<flow, status, recon>>

ReplayReturned(w) ==
    /\ status[Here(w)] \in Returned
    /\ Consume(w, status[Here(w)])
    /\ UNCHANGED <<flow, status, recon>>

(* The checkpoint cannot be read: the paid outcome becomes an unknown one. *)
ReplayUnreadable(w) ==
    LET a == Here(w) IN
    /\ status[a] \in Returned
    /\ faults < MaxFaults
    /\ IF apply[a] = "pending" /\ recon[a] = "none" /\ flow[wrun[w]] \in Active
       THEN /\ status' = [status EXCEPT ![a] = "uncertain"]
            /\ recon' = [recon EXCEPT ![a] = "pending"]
            /\ flow' = [flow EXCEPT ![wrun[w]] = "uncertain"]
       ELSE UNCHANGED <<status, recon, flow>>
    /\ Raising(w)

ReplayRefused(w) ==
    /\ status[Here(w)] \in Refusals \/ recon[Here(w)] = "resolved"
    /\ Consume(w, "failed")
    /\ UNCHANGED <<flow, status, recon>>

Replay(w) ==
    /\ pc[w] = "search"
    /\ \/ ReplayStarted(w) /\ UNCHANGED faults
       \/ ReplayUnknown(w) /\ UNCHANGED faults
       \/ ReplayReturned(w) /\ UNCHANGED faults
       \/ ReplayUnreadable(w) /\ faults' = faults + 1
       \/ ReplayRefused(w) /\ UNCHANGED faults
    /\ UNCHANGED <<run, apply, stored, recent, evidence, posted>>

-----------------------------------------------------------------------------
(* A call not yet recorded (reserve_web_search_attempt) *)

(* Mutant: a call counts when its outcome is recorded, not when it is reserved. *)
CountedFinished == {a \in Row : status[a] \in Returned \union {"failed"} /\ recent[a]}

(* A call proven not sent costs nothing. *)
Counted == {a \in Row : status[a] \notin {"absent", "presend"} /\ recent[a]}
Below(n, limit) == limit = 0 \/ n < limit
WithinQuota(p) ==
    /\ Below(Cardinality(Counted), GlobalLimit)
    /\ Below(Cardinality({a \in Counted : a[2][2] = p}), ProviderLimit)

(* Mutant: a recorded rejection is tried again.                               *)
ReserveAgain(w) ==
    LET a == Here(w) IN
    /\ pc[w] = "search" /\ status[a] \in {"absent", "failed"}
    /\ flow[wrun[w]] \in Open
    /\ WithinQuota(at[w][2])
    /\ status' = [status EXCEPT ![a] = "started"]
    /\ recon' = [recon EXCEPT ![a] = "pending"]
    /\ recent' = [recent EXCEPT ![a] = TRUE]
    /\ pc' = [pc EXCEPT ![w] = "send"]
    /\ UNCHANGED <<run, flow, apply, stored, evidence, posted, owner, wrun, memory, faults>>

Reserve(w) ==
    LET a == Here(w) IN
    /\ pc[w] = "search" /\ status[a] = "absent"
    /\ flow[wrun[w]] \in Open
    /\ WithinQuota(at[w][2])
    /\ status' = [status EXCEPT ![a] = "started"]
    /\ recon' = [recon EXCEPT ![a] = "pending"]
    /\ recent' = [recent EXCEPT ![a] = TRUE]
    /\ pc' = [pc EXCEPT ![w] = "send"]
    /\ UNCHANGED <<run, flow, apply, stored, evidence, posted, owner, wrun, memory, faults>>

(* The workflow is fenced or closed. *)
ReserveRefused(w) ==
    /\ pc[w] = "search" /\ status[Here(w)] = "absent"
    /\ flow[wrun[w]] \notin Open
    /\ Raising(w)
    /\ UNCHANGED <<run, flow, rows, evidence, posted, faults>>

(* The quota or the limits of the tenant's own connection are used up, or the *)
(* planned provider is switched off.                                          *)
SkipProvider(w) ==
    /\ pc[w] = "search" /\ status[Here(w)] = "absent"
    /\ PassBy(w)
    /\ UNCHANGED <<run, flow, rows, evidence, posted, faults>>

(* A row falls out of the minute, or with its month, that is looked at.       *)
WindowMoves ==
    /\ \E a \in Row : recent[a] /\ recent' = [recent EXCEPT ![a] = FALSE]
    /\ UNCHANGED <<run, flow, status, recon, apply, stored, evidence, posted, owner,
                   pc, wrun, memory, faults>>

-----------------------------------------------------------------------------
(* The provider call and its outcome (finalize_web_search_attempt) *)

Send(w) ==
    /\ pc[w] = "send"
    /\ posted' = [posted EXCEPT ![Here(w)] = @ + 1]
    /\ pc' = [pc EXCEPT ![w] = "reply"]
    /\ UNCHANGED <<run, flow, rows, evidence, owner, wrun, memory, faults>>

AwaitsApply(r, new) == \E c \in Calls : /\ new[<<r, c>>] \in Returned
                                        /\ apply[<<r, c>>] = "pending"

(* The outcome of a call that is still the worker's own. *)
Record(w, outcome) ==
    LET a == Here(w)
        r == wrun[w]
    IN  /\ status' = [status EXCEPT ![a] = outcome]
        /\ recon' = [recon EXCEPT ![a] = IF outcome = "uncertain" THEN "pending" ELSE "none"]
        /\ stored' = [stored EXCEPT ![a] = outcome \in Returned]
        /\ flow' = [flow EXCEPT ![r] =
                        IF outcome = "uncertain" THEN "uncertain"
                        ELSE IF AwaitsApply(r, status') THEN "apply_pending"
                        ELSE "in_progress"]
        /\ IF outcome = "uncertain" THEN Raising(w)
           ELSE Consume(w, outcome)

(* Another executor fenced the workflow meanwhile: the result is dropped. *)
OwnershipLost(w) ==
    /\ status' = [status EXCEPT ![Here(w)] = "uncertain"]
    /\ Raising(w)
    /\ UNCHANGED <<flow, recon, stored>>

(* Mutant: the caller goes on with a result whose attempt was closed.         *)
AlreadyResolvedUses(w) == Consume(w, "success") /\ UNCHANGED <<flow, status, recon, stored>>

(* An operator closed the attempt meanwhile: the result is dropped. *)
AlreadyResolved(w) == Raising(w) /\ UNCHANGED <<flow, status, recon, stored>>

(* Mutant: the operator's verdict is not looked at.                           *)
SettleOverruling(w, outcome) ==
    /\ IF flow[wrun[w]] = "uncertain" THEN OwnershipLost(w) ELSE Record(w, outcome)
    /\ UNCHANGED <<run, apply, recent, evidence, posted, faults>>

Settle(w, outcome) ==
    /\ IF recon[Here(w)] = "resolved" THEN AlreadyResolved(w)
       ELSE IF flow[wrun[w]] = "uncertain" THEN OwnershipLost(w)
       ELSE Record(w, outcome)
    /\ UNCHANGED <<run, apply, recent, evidence, posted, faults>>

(* The request never left. *)
SendFails(w) == pc[w] = "send" /\ Settle(w, "presend")

(* Results, none, a documented rejection, or no known outcome: a timeout, an  *)
(* unclassified error, a result that cannot be stored as a checkpoint.        *)
Answer(w) ==
    /\ pc[w] = "reply"
    /\ \E outcome \in {"success", "empty", "failed", "uncertain"} : Settle(w, outcome)

-----------------------------------------------------------------------------
(* Applying the consumed calls to the run *)

(* Mutant: whatever the caller consumed is enough.                            *)
AcknowledgesConsumed(w) ==
    LET r == wrun[w] IN
    IF seen[w] = {}
    THEN Attempts(r) = {} /\ flow[r] \in {"applied", "in_progress"}
    ELSE flow[r] \in Open \union {"applied"}

(* acknowledge_web_search_workflow and release_empty_web_search_workflow *)
Acknowledges(w) ==
    LET r == wrun[w] IN
    IF seen[w] = {}
    THEN Attempts(r) = {} /\ flow[r] \in {"applied", "in_progress"}
    ELSE /\ seen[w] = Attempts(r)
         /\ \/ flow[r] = "applied"
            \/ flow[r] \in Open /\ \A c \in Attempts(r) : ~Unknown(<<r, c>>)

(* Evidence and acknowledgement commit together or not at all. *)
Apply(w) ==
    LET r == wrun[w] IN
    /\ pc[w] = "apply"
    /\ IF Acknowledges(w)
       THEN /\ flow' = [flow EXCEPT ![r] = "applied"]
            /\ apply' = [a \in Row |-> IF a[1] = r /\ status[a] # "absent"
                                       THEN "applied" ELSE apply[a]]
            /\ IF failing[w] /\ ~some[w]
               THEN /\ run' = [run EXCEPT ![r] = "failed"]
                    /\ Leave(w)
                    /\ UNCHANGED evidence
               ELSE /\ evidence' = [evidence EXCEPT ![r] = @ \union got[w]]
                    /\ pc' = [pc EXCEPT ![w] = "after"]
                    /\ UNCHANGED <<run, owner, wrun, memory>>
       ELSE Raising(w) /\ UNCHANGED <<run, flow, apply, evidence>>
    /\ UNCHANGED <<status, recon, stored, recent, posted, faults>>

FinishRun(w) ==
    /\ pc[w] = "after"
    /\ run' = [run EXCEPT ![wrun[w]] = "done"]
    /\ Leave(w)
    /\ UNCHANGED <<flow, rows, evidence, posted, faults>>

-----------------------------------------------------------------------------
(* Reconciliation by an operator (resolve_web_search_attempt) *)

(* Mutant: the fence stays until every attempt is settled.                    *)
ResolveKeepsFence(a) ==
    LET r == a[1]
        settled(b) == \/ b = a
                      \/ b[1] = r /\ recon[b] = "none" /\ status[b] \in Refusals
        open == {c \in Attempts(r) : recon'[<<r, c>>] # "resolved" /\ apply'[<<r, c>>] = "pending"}
    IN  /\ status[a] \in {"started", "uncertain"} /\ Unknown(a)
        /\ recon' = [recon EXCEPT ![a] = "resolved"]
        /\ apply' = [b \in Row |-> IF settled(b) THEN "applied" ELSE apply[b]]
        /\ flow' = [flow EXCEPT ![r] = IF open = {} THEN "reconciled" ELSE "uncertain"]
        /\ UNCHANGED <<run, status, stored, recent, evidence, posted, owner, pc, wrun, memory,
                       faults>>

Resolve(a) ==
    LET r == a[1]
        settled(b) == \/ b = a
                      \/ b[1] = r /\ recon[b] = "none" /\ status[b] \in Refusals
        left == {c \in Attempts(r) : /\ recon'[<<r, c>>] # "resolved"
                                     /\ \/ recon'[<<r, c>>] = "pending"
                                        \/ apply'[<<r, c>>] = "pending"}
    IN  /\ status[a] \in {"started", "uncertain"} /\ Unknown(a)
        /\ recon' = [recon EXCEPT ![a] = "resolved"]
        /\ apply' = [b \in Row |-> IF settled(b) THEN "applied" ELSE apply[b]]
        /\ flow' = [flow EXCEPT ![r] =
                        IF left = {} THEN "reconciled"
                        ELSE IF \E c \in left : recon'[<<r, c>>] = "pending" THEN "uncertain"
                        ELSE IF \E c \in left : status[<<r, c>>] \in Returned
                             THEN "apply_pending"
                        ELSE "in_progress"]
        /\ UNCHANGED <<run, status, stored, recent, evidence, posted, owner, pc, wrun, memory,
                       faults>>

-----------------------------------------------------------------------------
(* Faults *)

Crash(w) ==
    /\ pc[w] # "idle" /\ faults < MaxFaults
    /\ faults' = faults + 1
    /\ Leave(w)
    /\ UNCHANGED <<run, flow, rows, evidence, posted>>

(* The database session that holds the advisory lock ends under a live worker. *)
LoseLock(w) ==
    /\ \E r \in Runs : owner[r] = w
    /\ faults < MaxFaults
    /\ faults' = faults + 1
    /\ Release(w)
    /\ UNCHANGED <<run, flow, rows, evidence, posted, pc, wrun, memory>>

(* Anything local: no provider configured, offers, AI extraction, the database. *)
LocalFailure(w) ==
    /\ pc[w] \in {"plan", "after"} /\ faults < MaxFaults
    /\ faults' = faults + 1
    /\ Raising(w)
    /\ UNCHANGED <<run, flow, rows, evidence, posted>>

-----------------------------------------------------------------------------
Execute(w) ==
    \/ Acquire(w) \/ Replay(w) \/ Reserve(w) \/ ReserveRefused(w) \/ SkipProvider(w)
    \/ Send(w) \/ SendFails(w) \/ Answer(w)
    \/ Apply(w) \/ FinishRun(w) \/ Raise(w)

Next ==
    \/ \E w \in Workers : \/ \E r \in Runs : Begin(w, r)
                          \/ Execute(w)
                          \/ Crash(w) \/ LoseLock(w) \/ LocalFailure(w)
    \/ \E r \in Runs : CreateRun(r) \/ Resume(r)
    \/ \E a \in Row : Resolve(a)
    \/ WindowMoves

Spec == Init /\ [][Next]_vars

(* A claimed task runs on, a queued one is delivered (DurableDispatch, or the  *)
(* operator's resume command when the delivery is exhausted), and operators    *)
(* work off the unknown outcomes and the failed runs that hold evidence.       *)
Fairness ==
    /\ \A w \in Workers : WF_vars(Execute(w))
    /\ \A r \in Runs :
        /\ WF_vars(\E w \in Workers : run[r] # "failed" /\ Begin(w, r))
        /\ WF_vars(run[r] = "failed" /\ Resume(r))
    /\ \A a \in Row : WF_vars(Resolve(a))

FairSpec == Spec /\ Fairness

-----------------------------------------------------------------------------
(* Properties *)

(* Crashes, redelivery, a lost lock and reconciliation never transmit a       *)
(* logical call twice.                                                        *)
PaidOnce == \A a \in Row : posted[a] <= 1

(* While the outcome of a call is recorded as unknown its workflow is fenced, *)
(* and a fenced workflow has an attempt an operator can resolve.  The row of  *)
(* a killed worker is only STARTED: it fences when another executor meets it. *)
UnknownFenced ==
    \A r \in Runs :
        /\ \A c \in Calls : status[<<r, c>>] = "uncertain" /\ Unknown(<<r, c>>)
                               => flow[r] = "uncertain"
        /\ flow[r] = "uncertain" => \E c \in Calls : Unknown(<<r, c>>)

(* No paid result is lost: when a workflow is closed, by its caller or by an  *)
(* operator, every result it recorded is evidence of the run.  A checkpoint   *)
(* that cannot be read is no result any more: its call has become unknown.    *)
PaidResultsKept ==
    \A r \in Runs : flow[r] \in Closed =>
        {c \in Calls : status[<<r, c>>] = "success"} \subseteq evidence[r]

(* Only results with a durable checkpoint reach the run: one that arrives     *)
(* after its attempt was fenced or resolved never does.                       *)
LateResultsDiscarded ==
    \A r \in Runs : \A c \in evidence[r] : stored[<<r, c>>]

Transmitted == {a \in Row : posted[a] > 0 /\ recent[a]}
Within(n, limit) == limit = 0 \/ n <= limit
(* The calls transmitted in a quota window respect the limits; a call belongs *)
(* to the window its row was created in, as the code counts it.               *)
QuotaRespected ==
    /\ Within(Cardinality(Transmitted), GlobalLimit)
    /\ \A p \in 1..Providers :
          Within(Cardinality({a \in Transmitted : a[2][2] = p}), ProviderLimit)

(* A closed workflow is never reopened, not even by a late answer.            *)
ClosedStays ==
    [][\A r \in Runs : flow[r] \in Closed => flow'[r] = flow[r]]_vars

(* A result of an earlier provider of a slot hides a recorded call of a later *)
(* one from every replay: the acknowledgement can then never match.           *)
Shadowed(r) ==
    \E s \in 1..Slots : \E p, q \in 1..Providers :
        /\ p < q
        /\ status[<<r, <<s, p>>>>] = "success"
        /\ status[<<r, <<s, q>>>>] # "absent"

(* A workflow that holds paid evidence is applied or reconciled in the end.   *)
WorkflowsClose ==
    \A r \in Runs : flow[r] \in Active ~> (flow[r] \notin Active \/ Shadowed(r))
=============================================================================
