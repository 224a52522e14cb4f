--------------------------- MODULE WebSearchProofs ---------------------------
(***************************************************************************)
(* Paid web search for any number of runs, calls, workers and faults: no   *)
(* call is transmitted twice, no recorded result is lost, no late result   *)
(* gets in, and the quota holds.                                           *)
(*                                                                         *)
(* IInv is the inductive invariant.  RowInv relates the columns of one     *)
(* attempt row, FlowInv the workflow to its rows and to the saved          *)
(* evidence, WorkInv what a worker remembers to the rows it read: the row  *)
(* of a call in flight is its own, and a call it has consumed can no       *)
(* longer turn into a result it has not seen.                              *)
(***************************************************************************)
EXTENDS WebSearch, FiniteSetTheorems, TLAPS

(* The columns of one attempt.                                             *)
RowOK(a) ==
    /\ status[a] = "absent" => /\ recon[a] = "none" /\ apply[a] = "pending"
                               /\ ~stored[a] /\ ~recent[a] /\ posted[a] = 0
    /\ recon[a] = "pending" => apply[a] = "pending"
    /\ recon[a] # "none" => status[a] \in {"started", "uncertain"}
    /\ status[a] = "started" => recon[a] # "none"
    /\ status[a] \in Returned => stored[a]
    /\ stored[a] => status[a] \in Returned \union {"uncertain"}
    /\ status[a] = "presend" => posted[a] = 0
    /\ posted[a] <= 1
RowInv == \A a \in Row : RowOK(a)

(* A workflow, its calls, and the evidence saved from them.                *)
Fenced(r) ==
    /\ \A c \in Calls : status[<<r, c>>] = "uncertain" /\ Unknown(<<r, c>>)
                           => flow[r] = "uncertain"
    /\ flow[r] = "uncertain" => \E c \in Calls : Unknown(<<r, c>>)
FlowOK(r) ==
    /\ flow[r] \in Closed =>
          \A c \in Calls : /\ ~Unknown(<<r, c>>)
                           /\ status[<<r, c>>] = "success" => c \in evidence[r]
    /\ \A c \in Calls :
          /\ status[<<r, c>>] = "success" /\ apply[<<r, c>>] = "applied"
                => c \in evidence[r]
          /\ c \in evidence[r] => stored[<<r, c>>]
FlowInv == \A r \in Runs : Fenced(r) /\ FlowOK(r)

(* What a worker knows of the run it executes.                             *)
Flying(w) == pc[w] \in {"send", "reply"}
WorkOK(w) ==
    /\ pc[w] # "idle" => wrun[w] \in Runs
    /\ pc[w] \in {"idle", "plan", "raise"} => seen[w] = {} /\ got[w] = {}
    /\ pc[w] \in {"search", "send", "reply"} => at[w] \in Calls
    /\ Flying(w) => status[Here(w)] = "started"
    /\ pc[w] = "send" => posted[Here(w)] = 0
    /\ got[w] # {} => some[w]
    /\ \A c \in seen[w] :
          /\ status[<<wrun[w], c>>] # "absent"
          /\ ~(status[<<wrun[w], c>>] = "started" /\ recon[<<wrun[w], c>>] = "pending")
          /\ status[<<wrun[w], c>>] = "success" => c \in got[w]
    /\ \A c \in got[w] : stored[<<wrun[w], c>>]
Alone(v, w) == Flying(v) /\ Flying(w) /\ v # w => Here(v) # Here(w)
WorkInv == /\ \A w \in Workers : WorkOK(w)
           /\ \A v, w \in Workers : Alone(v, w)

IInv == TypeOK /\ RowInv /\ FlowInv /\ WorkInv

-----------------------------------------------------------------------------
(* Workers *)

(* The position in the plan stays inside it.                               *)
LEMMA StepType ==
    ASSUME TypeOK, NEW w \in Workers, NEW found \in BOOLEAN,
           at[w] \in Calls, Step(w, found)
    PROVE  /\ at' \in [Workers -> (1..(Slots + 1)) \X (1..Providers)]
           /\ \A v \in Workers \ {w} : at'[v] = at[v] /\ pc'[v] = pc[v]
           /\ pc' \in [Workers -> {"idle", "plan", "search", "send", "reply", "apply",
                                   "after", "raise"}]
           /\ pc'[w] \in {"apply", "search"}
           /\ pc'[w] = "search" => at'[w] \in Calls
<1> DEFINE p == at[w]
           next == IF found \/ p[2] = Providers THEN <<p[1] + 1, 1>> ELSE <<p[1], p[2] + 1>>
<1>1. /\ p[1] \in 1..Slots /\ p[2] \in 1..Providers
      /\ Slots \in Nat \ {0} /\ Providers \in Nat \ {0}
  BY PlanAssumption DEF Calls
<1>2. /\ next \in (1..(Slots + 1)) \X (1..Providers)
      /\ next[1] <= Slots => next \in Calls
  <2>1. CASE found \/ p[2] = Providers
    BY <1>1, <2>1 DEF Calls
  <2>2. CASE ~(found \/ p[2] = Providers)
    BY <1>1, <2>2 DEF Calls
  <2> QED
    BY <2>1, <2>2
<1>3. /\ at' = [at EXCEPT ![w] = next]
      /\ pc' = [pc EXCEPT ![w] = IF next[1] > Slots THEN "apply" ELSE "search"]
  BY DEF Step
<1>4. next[1] \in 1..(Slots + 1)
  BY <1>2
<1> HIDE DEF next
<1> QED
  BY <1>1, <1>2, <1>3, <1>4 DEF TypeOK

(* Attempts only move forward, as far as the memory of a worker can tell.  *)
Forward(a) ==
    /\ status'[a] = "absent" => status[a] = "absent"
    /\ status'[a] = "success" =>
          status[a] = "success" \/ (status[a] = "started" /\ recon[a] = "pending")
    /\ status'[a] = "started" /\ recon'[a] = "pending" =>
          status[a] = "absent" \/ (status[a] = "started" /\ recon[a] = "pending")
    /\ stored[a] => stored'[a]

(* A worker that a step leaves alone keeps its knowledge.                  *)
LEMMA BystanderKeeps ==
    ASSUME TypeOK, NEW v \in Workers, WorkOK(v),
           \A a \in Row : Forward(a),
           pc'[v] = pc[v], wrun'[v] = wrun[v], at'[v] = at[v],
           seen'[v] = seen[v], got'[v] = got[v], some'[v] = some[v],
           Flying(v) => status'[Here(v)] = "started" /\ posted'[Here(v)] = posted[Here(v)]
    PROVE  WorkOK(v)'
<1>1. seen[v] \subseteq Calls /\ got[v] \subseteq Calls
  BY DEF TypeOK
<1>2. CASE pc[v] = "idle"
  BY <1>2 DEF WorkOK, Flying
<1>3. CASE pc[v] # "idle"
  <2>1. wrun[v] \in Runs
    BY <1>3 DEF WorkOK
  <2>2. \A c \in Calls : Forward(<<wrun[v], c>>)
    BY <2>1 DEF Row
  <2>3. Here(v)' = Here(v)
    BY DEF Here
  <2> QED
    BY <1>1, <2>1, <2>2, <2>3 DEF WorkOK, Flying, Forward
<1> QED
  BY <1>2, <1>3

(* The call a worker has in flight.                                        *)
LEMMA FlyingCall ==
    ASSUME WorkInv, NEW w \in Workers, Flying(w)
    PROVE  /\ wrun[w] \in Runs /\ at[w] \in Calls /\ Here(w) \in Row
           /\ status[Here(w)] = "started"
  BY DEF WorkInv, WorkOK, Flying, Here, Row

(* A worker whose memory is wiped and who has nothing in flight.           *)
LEMMA ForgetfulOK ==
    ASSUME NEW w \in Workers, seen'[w] = {}, got'[w] = {},
           pc'[w] \in {"idle", "plan", "raise", "search"},
           pc'[w] # "idle" => wrun'[w] \in Runs,
           pc'[w] = "search" => at'[w] \in Calls
    PROVE  WorkOK(w)'
  BY DEF WorkOK, Flying

(* The caller that has consumed a call knows what its row says now.        *)
LEMMA ConsumerKeeps ==
    ASSUME TypeOK, NEW w \in Workers, WorkOK(w), pc[w] # "idle", at[w] \in Calls,
           NEW outcome, Consume(w, outcome), \A a \in Row : Forward(a),
           status'[Here(w)] # "absent",
           ~(status'[Here(w)] = "started" /\ recon'[Here(w)] = "pending"),
           status'[Here(w)] = "success" => outcome = "success",
           outcome = "success" => stored'[Here(w)]
    PROVE  WorkOK(w)'
<1> DEFINE c0 == at[w]
<1>1. wrun[w] \in Runs /\ seen[w] \subseteq Calls /\ got[w] \subseteq Calls
  BY DEF WorkOK, TypeOK
<1>2. \A c \in Calls : Forward(<<wrun[w], c>>)
  BY <1>1 DEF Row
<1>3. /\ pc'[w] \in {"apply", "search"}
      /\ pc'[w] = "search" => at'[w] \in Calls
      /\ wrun'[w] = wrun[w]
  BY StepType DEF Consume, Step
<1>4. /\ seen'[w] = seen[w] \union {c0}
      /\ got'[w] = IF outcome = "success" THEN got[w] \union {c0} ELSE got[w]
      /\ some'[w] = (some[w] \/ outcome \in Returned)
  BY DEF Consume, TypeOK
<1>5. got'[w] # {} => some'[w]
  BY <1>4 DEF WorkOK, Returned
<1>6. ASSUME NEW c \in seen'[w]
      PROVE  /\ status'[<<wrun[w], c>>] # "absent"
             /\ ~(status'[<<wrun[w], c>>] = "started" /\ recon'[<<wrun[w], c>>] = "pending")
             /\ status'[<<wrun[w], c>>] = "success" => c \in got'[w]
  <2>1. CASE c = c0
    BY <1>4, <2>1 DEF Here
  <2>2. CASE c \in seen[w]
    <3>1. Forward(<<wrun[w], c>>)
      BY <1>1, <1>2, <2>2
    <3> QED
      BY <1>4, <2>2, <3>1 DEF WorkOK, Forward
  <2> QED
    BY <1>4, <1>6, <2>1, <2>2
<1>7. ASSUME NEW c \in got'[w] PROVE stored'[<<wrun[w], c>>]
  <2>1. CASE c = c0 /\ outcome = "success"
    BY <2>1 DEF Here
  <2>2. CASE c \in got[w]
    BY <1>1, <1>2, <2>2 DEF WorkOK, Forward
  <2> QED
    BY <1>4, <1>7, <2>1, <2>2
<1>8. /\ ~Flying(w)' /\ wrun'[w] \in Runs
      /\ pc'[w] \notin {"idle", "plan", "raise", "send", "reply"}
      /\ pc'[w] \in {"search", "send", "reply"} => at'[w] \in Calls
  BY <1>1, <1>3 DEF Flying
<1>9. wrun'[w] = wrun[w]
  BY <1>3
<1> QED
  BY <1>5, <1>6, <1>7, <1>8, <1>9 DEF WorkOK

(* A step of one worker, or of none (w is then no worker).                 *)
LEMMA WorkFrom ==
    ASSUME TypeOK, WorkInv, NEW w,
           \A a \in Row : Forward(a),
           \A v \in Workers \ {w} :
              /\ pc'[v] = pc[v] /\ wrun'[v] = wrun[v] /\ at'[v] = at[v]
              /\ seen'[v] = seen[v] /\ got'[v] = got[v] /\ some'[v] = some[v]
              /\ Flying(v) => /\ status'[Here(v)] = "started"
                              /\ posted'[Here(v)] = posted[Here(v)],
           w \in Workers => WorkOK(w)',
           w \in Workers /\ Flying(w)' =>
              \A v \in Workers \ {w} : Flying(v) => Here(v) # Here(w)'
    PROVE  WorkInv'
<1>1. ASSUME NEW v \in Workers PROVE WorkOK(v)'
  <2>1. CASE v = w
    BY <2>1
  <2>2. CASE v # w
    <3>1. WorkOK(v)
      BY DEF WorkInv
    <3> QED
      BY <2>2, <3>1, BystanderKeeps
  <2> QED
    BY <2>1, <2>2
<1>2. \A v \in Workers \ {w} : Flying(v)' = Flying(v) /\ Here(v)' = Here(v)
  BY DEF Flying, Here
<1>3. ASSUME NEW u \in Workers, NEW v \in Workers PROVE Alone(u, v)'
  <2>1. CASE u # w /\ v # w
    <3>1. Alone(u, v)
      BY DEF WorkInv
    <3> QED
      BY <1>2, <2>1, <3>1 DEF Alone
  <2>2. CASE u = w \/ v = w
    BY <1>2, <2>2 DEF Alone
  <2> QED
    BY <2>1, <2>2
<1> QED
  BY <1>1, <1>3 DEF WorkInv

(* What a step does to the workers besides the rows.                       *)
Others(w) ==
    \A v \in Workers \ {w} :
        /\ pc'[v] = pc[v] /\ wrun'[v] = wrun[v] /\ at'[v] = at[v]
        /\ seen'[v] = seen[v] /\ got'[v] = got[v] /\ some'[v] = some[v]
MemoryType ==
    /\ pc \in [Workers -> {"idle", "plan", "search", "send", "reply", "apply",
                           "after", "raise"}]
    /\ wrun \in [Workers -> Runs \union {NoRun}]
    /\ at \in [Workers -> (1..(Slots + 1)) \X (1..Providers)]
    /\ seen \in [Workers -> SUBSET Calls]
    /\ got \in [Workers -> SUBSET Calls]
    /\ some \in [Workers -> BOOLEAN]
    /\ failing \in [Workers -> BOOLEAN]
    /\ owner \in [Runs -> Workers \union {NoWorker}]

(* Wiping the memory of a worker.                                          *)
LEMMA ForgetEffect ==
    ASSUME TypeOK, NEW w \in Workers, Forget(w)
    PROVE  /\ at' \in [Workers -> (1..(Slots + 1)) \X (1..Providers)]
           /\ seen' \in [Workers -> SUBSET Calls]
           /\ got' \in [Workers -> SUBSET Calls]
           /\ some' \in [Workers -> BOOLEAN]
           /\ failing' \in [Workers -> BOOLEAN]
           /\ seen'[w] = {} /\ got'[w] = {} /\ at'[w] = <<1, 1>> /\ <<1, 1>> \in Calls
           /\ \A v \in Workers \ {w} : /\ at'[v] = at[v] /\ seen'[v] = seen[v]
                                       /\ got'[v] = got[v] /\ some'[v] = some[v]
<1>1. <<1, 1>> \in Calls /\ <<1, 1>> \in (1..(Slots + 1)) \X (1..Providers)
  BY PlanAssumption DEF Calls
<1> QED
  BY <1>1 DEF TypeOK, Forget

(* A worker leaves: the task is over, or the process is.                   *)
LEMMA LeaveEffect ==
    ASSUME TypeOK, NEW w \in Workers, Leave(w)
    PROVE  /\ MemoryType' /\ Others(w)
           /\ pc'[w] = "idle" /\ seen'[w] = {} /\ got'[w] = {}
<1>1. owner' \in [Runs -> Workers \union {NoWorker}]
  BY DEF TypeOK, Leave, Release
<1> QED
  BY <1>1, ForgetEffect DEF TypeOK, MemoryType, Others, Leave

(* An exception leaves the executor.                                       *)
LEMMA RaisingEffect ==
    ASSUME TypeOK, NEW w \in Workers, Raising(w)
    PROVE  /\ MemoryType' /\ Others(w) /\ wrun' = wrun
           /\ pc'[w] = "raise" /\ seen'[w] = {} /\ got'[w] = {}
  BY ForgetEffect DEF TypeOK, MemoryType, Others, Raising

(* The caller takes an outcome, or passes a provider by.                   *)
LEMMA ConsumeEffect ==
    ASSUME TypeOK, NEW w \in Workers, at[w] \in Calls, NEW outcome, Consume(w, outcome)
    PROVE  /\ MemoryType' /\ Others(w) /\ wrun' = wrun
           /\ pc'[w] \in {"apply", "search"}
<1>1. Step(w, outcome = "success")
  BY DEF Consume
<1>2. /\ at' \in [Workers -> (1..(Slots + 1)) \X (1..Providers)]
      /\ \A v \in Workers \ {w} : at'[v] = at[v] /\ pc'[v] = pc[v]
      /\ pc' \in [Workers -> {"idle", "plan", "search", "send", "reply", "apply",
                              "after", "raise"}]
      /\ pc'[w] \in {"apply", "search"}
  BY <1>1, StepType
<1>3. wrun' = wrun /\ owner' = owner
  BY <1>1 DEF Step
<1>4. seen' \in [Workers -> SUBSET Calls] /\ got' \in [Workers -> SUBSET Calls]
  BY DEF TypeOK, Consume
<1>5. some' \in [Workers -> BOOLEAN] /\ failing' \in [Workers -> BOOLEAN]
  BY DEF TypeOK, Consume
<1>6. \A v \in Workers \ {w} : seen'[v] = seen[v] /\ got'[v] = got[v] /\ some'[v] = some[v]
  BY DEF TypeOK, Consume
<1> QED
  BY <1>2, <1>3, <1>4, <1>5, <1>6 DEF TypeOK, MemoryType, Others

(* A provider that cannot be used adds nothing to what the caller knows.   *)
LEMMA PassByEffect ==
    ASSUME TypeOK, NEW w \in Workers, at[w] \in Calls, PassBy(w)
    PROVE  /\ MemoryType' /\ Others(w) /\ wrun' = wrun
           /\ seen' = seen /\ got' = got /\ some' = some
           /\ pc'[w] \in {"apply", "search"}
           /\ pc'[w] = "search" => at'[w] \in Calls
<1>1. Step(w, FALSE)
  BY DEF PassBy
<1>2. /\ at' \in [Workers -> (1..(Slots + 1)) \X (1..Providers)]
      /\ \A v \in Workers \ {w} : at'[v] = at[v] /\ pc'[v] = pc[v]
      /\ pc' \in [Workers -> {"idle", "plan", "search", "send", "reply", "apply",
                              "after", "raise"}]
      /\ pc'[w] \in {"apply", "search"}
      /\ pc'[w] = "search" => at'[w] \in Calls
  BY <1>1, StepType
<1>3. wrun' = wrun /\ owner' = owner
  BY <1>1 DEF Step
<1>4. failing' \in [Workers -> BOOLEAN] /\ UNCHANGED <<seen, got, some>>
  BY DEF TypeOK, PassBy
<1> QED
  BY <1>2, <1>3, <1>4 DEF TypeOK, MemoryType, Others

(* Nothing happens to the rows and the workflows but the quota window.     *)
LEMMA QuietKeeps ==
    ASSUME RowInv, FlowInv, UNCHANGED <<flow, status, recon, apply, stored, evidence, posted>>,
           \A a \in Row : recent'[a] => recent[a]
    PROVE  RowInv' /\ FlowInv' /\ \A a \in Row : Forward(a)
<1>1. RowInv'
  BY DEF RowInv, RowOK
<1>2. FlowInv'
  BY DEF FlowInv, Fenced, FlowOK, Unknown
<1>3. \A a \in Row : Forward(a)
  BY DEF Forward
<1> QED
  BY <1>1, <1>2, <1>3

-----------------------------------------------------------------------------
(* Steps *)

(* The calls of the other workers are not touched.                         *)
InFlightKept(w) ==
    \A v \in Workers \ {w} : Flying(v) => /\ status'[Here(v)] = "started"
                                          /\ posted'[Here(v)] = posted[Here(v)]

(* They are not when the rows are not.                                     *)
LEMMA InFlightQuiet ==
    ASSUME WorkInv, NEW w, UNCHANGED <<status, posted>>
    PROVE  InFlightKept(w)
  BY DEF WorkInv, WorkOK, InFlightKept

(* They are not when only the row of the call in flight is.                *)
LEMMA InFlightOwn ==
    ASSUME TypeOK, WorkInv, NEW w \in Workers, Flying(w),
           \A a \in Row \ {Here(w)} : status'[a] = status[a] /\ posted'[a] = posted[a]
    PROVE  InFlightKept(w)
<1> SUFFICES ASSUME NEW v \in Workers \ {w}, Flying(v)
             PROVE  status'[Here(v)] = "started" /\ posted'[Here(v)] = posted[Here(v)]
  BY DEF InFlightKept
<1>1. Here(v) # Here(w)
  BY DEF WorkInv, Alone
<1>2. Here(v) \in Row /\ status[Here(v)] = "started"
  BY FlyingCall
<1> QED
  BY <1>1, <1>2

(* A worker that leaves or starts over knows nothing.                      *)
LEMMA WipeKeeps ==
    ASSUME TypeOK, WorkInv, NEW w \in Workers, Others(w),
           seen'[w] = {}, got'[w] = {},
           pc'[w] \in {"idle", "plan", "raise", "search"},
           pc'[w] # "idle" => wrun'[w] \in Runs,
           pc'[w] = "search" => at'[w] \in Calls,
           \A a \in Row : Forward(a), InFlightKept(w)
    PROVE  WorkInv'
<1>1. WorkOK(w)'
  BY ForgetfulOK
<1>2. ~Flying(w)'
  BY DEF Flying
<1> QED
  BY <1>1, <1>2, WorkFrom DEF Others, InFlightKept

(* A task is delivered and takes the lock.                                 *)
LEMMA BeginStep ==
    ASSUME IInv, NEW w \in Workers, NEW r \in Runs, Begin(w, r)
    PROVE  IInv'
<1> USE DEF IInv
<1>1. TypeOK'
  BY DEF TypeOK, Begin, RunStates, rows
<1>2. RowInv' /\ FlowInv' /\ \A a \in Row : Forward(a)
  BY QuietKeeps DEF Begin, rows
<1>3. /\ Others(w) /\ pc'[w] = "plan" /\ wrun'[w] = r
      /\ seen'[w] = {} /\ got'[w] = {}
  BY DEF TypeOK, Begin, Others, WorkInv, WorkOK
<1>4. InFlightKept(w)
  BY InFlightQuiet DEF Begin, rows
<1>5. WorkInv'
  BY <1>2, <1>3, <1>4, WipeKeeps
<1> QED
  BY <1>1, <1>2, <1>5

(* A worker leaves or raises and changes at most the status of the run.    *)
LEMMA ExitStep ==
    ASSUME IInv, NEW w \in Workers, Leave(w) \/ (Raising(w) /\ pc[w] # "idle"),
           UNCHANGED <<flow, rows, evidence, posted>>,
           run' \in [Runs -> RunStates], faults' \in Nat
    PROVE  IInv'
<1> USE DEF IInv
<1>1. /\ MemoryType' /\ Others(w) /\ seen'[w] = {} /\ got'[w] = {}
      /\ pc'[w] \in {"idle", "raise"}
      /\ pc'[w] # "idle" => wrun'[w] \in Runs
  BY LeaveEffect, RaisingEffect DEF WorkInv, WorkOK
<1>2. TypeOK'
  BY <1>1 DEF TypeOK, MemoryType, rows
<1>3. RowInv' /\ FlowInv' /\ \A a \in Row : Forward(a)
  BY QuietKeeps DEF rows
<1>4. InFlightKept(w)
  BY InFlightQuiet DEF rows
<1>5. WorkInv'
  BY <1>1, <1>3, <1>4, WipeKeeps
<1> QED
  BY <1>2, <1>3, <1>5

(* The workflow is found or created, or refuses the run.                   *)
LEMMA AcquireStep ==
    ASSUME IInv, NEW w \in Workers, Acquire(w)
    PROVE  IInv'
<1> DEFINE r == wrun[w]
<1> USE DEF IInv
<1>1. /\ pc[w] = "plan" /\ r \in Runs /\ WorkOK(w)
      /\ UNCHANGED <<run, rows, evidence, posted, faults>>
  BY DEF Acquire, WorkInv, WorkOK
<1>2. InFlightKept(w)
  BY <1>1, InFlightQuiet DEF rows
<1>3. \A a \in Row : Forward(a)
  BY <1>1 DEF Forward, rows
<1>4. RowInv'
  BY <1>1 DEF RowInv, RowOK, rows
<1>5. ASSUME StartPlan(w) PROVE MemoryType' /\ WorkInv'
  <2>1. /\ MemoryType' /\ Others(w) /\ seen'[w] = {} /\ got'[w] = {}
        /\ pc'[w] = "search" /\ wrun'[w] \in Runs /\ at'[w] \in Calls
    BY <1>1, <1>5, ForgetEffect DEF StartPlan, TypeOK, MemoryType, Others
  <2> QED
    BY <1>2, <1>3, <2>1, WipeKeeps
<1>6. ASSUME Raising(w) PROVE MemoryType' /\ WorkInv'
  <2>1. /\ MemoryType' /\ Others(w) /\ seen'[w] = {} /\ got'[w] = {}
        /\ pc'[w] = "raise" /\ wrun'[w] \in Runs
    BY <1>1, <1>6, RaisingEffect
  <2> QED
    BY <1>2, <1>3, <2>1, WipeKeeps
<1>7. ASSUME flow' = flow, MemoryType' PROVE TypeOK' /\ FlowInv'
  <2>1. TypeOK'
    BY <1>1, <1>7 DEF TypeOK, MemoryType, rows
  <2>2. FlowInv'
    BY <1>1, <1>7 DEF FlowInv, Fenced, FlowOK, Unknown, rows
  <2> QED
    BY <2>1, <2>2
<1>8. CASE /\ flow[r] = "absent" /\ StartPlan(w)
           /\ flow' = [flow EXCEPT ![r] = "in_progress"]
  <2>1. TypeOK'
    BY <1>1, <1>5, <1>8 DEF TypeOK, MemoryType, rows, Active, Open, Closed
  <2>2. /\ flow'[r] \notin Closed \union {"uncertain"}
        /\ \A q \in Runs \ {r} : flow'[q] = flow[q]
    BY <1>1, <1>8 DEF TypeOK, Closed
  <2>3. FlowInv'
    BY <1>1, <1>8, <2>2 DEF FlowInv, Fenced, FlowOK, Unknown, rows
  <2> QED
    BY <1>4, <1>5, <1>8, <2>1, <2>3
<1>9. CASE Raising(w) /\ UNCHANGED flow
  BY <1>4, <1>6, <1>7, <1>9
<1>10. CASE StartPlan(w) /\ UNCHANGED flow
  BY <1>4, <1>5, <1>7, <1>10
<1>11. CASE pc' = [pc EXCEPT ![w] = "after"] /\ UNCHANGED <<flow, memory, wrun, owner>>
  <2>1. /\ MemoryType' /\ Others(w) /\ pc'[w] = "after" /\ wrun'[w] \in Runs
        /\ seen'[w] = {} /\ got'[w] = {}
    BY <1>1, <1>11 DEF TypeOK, MemoryType, Others, memory, WorkOK
  <2>2. WorkOK(w)' /\ ~Flying(w)'
    BY <2>1 DEF WorkOK, Flying
  <2>3. WorkInv'
    BY <1>2, <1>3, <2>1, <2>2, WorkFrom DEF Others, InFlightKept
  <2> QED
    BY <1>4, <1>7, <1>11, <2>1, <2>3
<1> QED
  BY <1>8, <1>9, <1>10, <1>11 DEF Acquire

(* The outcome recorded for a call is taken, or the executor is turned     *)
(* away; the call in flight elsewhere is fenced first.                     *)
LEMMA ReplayStep ==
    ASSUME IInv, NEW w \in Workers, Replay(w)
    PROVE  IInv'
<1> USE DEF IInv
<1>0. PICK r \in Runs, k \in Calls : r = wrun[w] /\ k = at[w]
  BY DEF Replay, WorkInv, WorkOK
<1> DEFINE a == <<r, k>>
<1>1. /\ pc[w] = "search" /\ r = wrun[w] /\ r \in Runs /\ at[w] = k /\ k \in Calls
      /\ WorkOK(w) /\ a \in Row /\ Here(w) = a
      /\ UNCHANGED <<run, apply, stored, recent, evidence, posted>>
  BY <1>0 DEF Replay, WorkInv, Here, Row
<1>2. faults' \in Nat
  BY DEF Replay, TypeOK
<1>3. RowOK(a)
  BY <1>1 DEF RowInv
<1>4. ASSUME Raising(w), \A b \in Row : Forward(b), InFlightKept(w)
      PROVE  MemoryType' /\ WorkInv'
  <2>1. /\ MemoryType' /\ Others(w) /\ seen'[w] = {} /\ got'[w] = {}
        /\ pc'[w] = "raise" /\ wrun'[w] \in Runs
    BY <1>1, <1>4, RaisingEffect
  <2> QED
    BY <1>4, <2>1, WipeKeeps
<1>5. ASSUME UNCHANGED <<status, recon>>
      PROVE  RowInv' /\ InFlightKept(w) /\ \A b \in Row : Forward(b)
  <2>1. RowInv'
    BY <1>1, <1>5 DEF RowInv, RowOK
  <2>2. InFlightKept(w)
    BY <1>1, <1>5, InFlightQuiet
  <2>3. \A b \in Row : Forward(b)
    BY <1>1, <1>5 DEF Forward
  <2> QED
    BY <2>1, <2>2, <2>3
<1>6. ASSUME UNCHANGED <<status, recon, flow>>, MemoryType' PROVE TypeOK' /\ FlowInv'
  <2>1. TypeOK'
    BY <1>1, <1>2, <1>6 DEF TypeOK, MemoryType
  <2>2. FlowInv'
    BY <1>1, <1>6 DEF FlowInv, Fenced, FlowOK, Unknown
  <2> QED
    BY <2>1, <2>2
<1>7. CASE ReplayStarted(w)
  <2>1. /\ Raising(w) /\ UNCHANGED <<status, recon>> /\ Unknown(a)
        /\ flow' = [flow EXCEPT ![r] = "uncertain"]
    BY <1>1, <1>7 DEF ReplayStarted
  <2>2. MemoryType' /\ WorkInv' /\ RowInv'
    BY <1>4, <1>5, <2>1
  <2>3. TypeOK'
    BY <1>1, <1>2, <2>1, <2>2 DEF TypeOK, MemoryType, Active
  <2>4. FlowInv'
    <3>1. \A q \in Runs \ {r} : flow'[q] = flow[q]
      BY <2>1 DEF TypeOK
    <3>2. flow'[r] = "uncertain" /\ flow'[r] \notin Closed
      BY <1>1, <2>1 DEF TypeOK, Closed
    <3>3. Unknown(<<r, k>>)'
      BY <2>1 DEF Unknown
    <3>4. Fenced(r)' /\ FlowOK(r)'
      BY <1>1, <2>1, <3>2, <3>3 DEF FlowInv, Fenced, FlowOK
    <3>5. \A q \in Runs \ {r} : Fenced(q)' /\ FlowOK(q)'
      BY <1>1, <2>1, <3>1 DEF FlowInv, Fenced, FlowOK, Unknown
    <3> QED
      BY <3>4, <3>5 DEF FlowInv
  <2> QED
    BY <2>2, <2>3, <2>4
<1>8. CASE ReplayUnknown(w)
  BY <1>4, <1>5, <1>6, <1>8 DEF ReplayUnknown
<1>9. ASSUME NEW outcome \in {"success", "empty", "failed"}, Consume(w, outcome),
             UNCHANGED <<flow, status, recon>>,
             status[a] = outcome \/ (outcome = "failed" /\ status[a] \in Refusals)
                \/ (outcome = "failed" /\ recon[a] = "resolved")
      PROVE  IInv'
  <2>1. MemoryType' /\ Others(w) /\ wrun' = wrun /\ pc'[w] \in {"apply", "search"}
    BY <1>1, <1>9, ConsumeEffect
  <2>2. RowInv' /\ InFlightKept(w) /\ \A b \in Row : Forward(b)
    BY <1>5, <1>9
  <2>3. /\ status[a] # "absent"
        /\ ~(status[a] = "started" /\ recon[a] = "pending")
        /\ status[a] = "success" => outcome = "success"
        /\ outcome = "success" => stored[a]
    BY <1>3, <1>9 DEF RowOK, Returned, Refusals
  <2>4. WorkOK(w)'
    BY <1>1, <1>9, <2>2, <2>3, ConsumerKeeps
  <2>5. ~Flying(w)'
    BY <2>1 DEF Flying
  <2>6. WorkInv'
    BY <2>1, <2>2, <2>4, <2>5, WorkFrom DEF Others, InFlightKept
  <2> QED
    BY <1>6, <1>9, <2>1, <2>2, <2>6
<1>10. CASE ReplayReturned(w)
  BY <1>1, <1>9, <1>10 DEF ReplayReturned, Returned
<1>11. CASE ReplayRefused(w)
  BY <1>1, <1>9, <1>11 DEF ReplayRefused
<1>12. CASE ReplayUnreadable(w)
  <2>1. CASE UNCHANGED <<status, recon, flow>>
    BY <1>4, <1>5, <1>6, <1>12, <2>1 DEF ReplayUnreadable
  <2>2. CASE /\ recon[a] = "none" /\ apply[a] = "pending" /\ flow[r] \in Active
             /\ status' = [status EXCEPT ![a] = "uncertain"]
             /\ recon' = [recon EXCEPT ![a] = "pending"]
             /\ flow' = [flow EXCEPT ![r] = "uncertain"]
    <3>1. Raising(w) /\ status[a] \in Returned
      BY <1>1, <1>12 DEF ReplayUnreadable
    <3>2. /\ status'[a] = "uncertain" /\ recon'[a] = "pending" /\ flow'[r] = "uncertain"
          /\ \A b \in Row \ {a} : status'[b] = status[b] /\ recon'[b] = recon[b]
          /\ \A q \in Runs \ {r} : flow'[q] = flow[q]
      BY <1>1, <2>2 DEF TypeOK
    <3>3. \A b \in Row : Forward(b)
      <4>1. Forward(a)
        BY <1>1, <3>2 DEF Forward
      <4>2. \A b \in Row \ {a} : Forward(b)
        BY <1>1, <3>2 DEF Forward
      <4> QED
        BY <4>1, <4>2
    <3>4. InFlightKept(w)
      <4>1. \A v \in Workers : Flying(v) => Here(v) \in Row \ {a}
        BY <3>1, FlyingCall DEF Returned
      <4>2. \A v \in Workers : Flying(v) => status[Here(v)] = "started"
        BY FlyingCall
      <4> QED
        BY <1>1, <3>2, <4>1, <4>2 DEF InFlightKept
    <3>5. MemoryType' /\ WorkInv'
      BY <1>4, <3>1, <3>3, <3>4
    <3>6. TypeOK'
      BY <1>1, <1>2, <2>2, <3>5 DEF TypeOK, MemoryType, Attempted, Active
    <3>7. RowInv'
      <4>1. RowOK(a)'
        BY <1>1, <1>3, <2>2, <3>1, <3>2 DEF RowOK, Returned
      <4>2. \A b \in Row \ {a} : RowOK(b)'
        BY <1>1, <3>2 DEF RowInv, RowOK
      <4> QED
        BY <4>1, <4>2 DEF RowInv
    <3>8. FlowInv'
      <4>1. Fenced(r)'
        BY <1>1, <3>2 DEF Fenced, Unknown, Here
      <4>2. FlowOK(r)'
        <5>1. flow'[r] \notin Closed
          BY <3>2 DEF Closed
        <5>2. \A c \in Calls : status'[<<r, c>>] = "success" => status[<<r, c>>] = "success"
          BY <1>1, <3>2 DEF Row
        <5> QED
          BY <1>1, <5>1, <5>2 DEF FlowInv, FlowOK
      <4>3. ASSUME NEW q \in Runs \ {r} PROVE Fenced(q)' /\ FlowOK(q)'
        <5>1. \A c \in Calls : <<q, c>> \in Row \ {a}
          BY DEF Row, Here
        <5> QED
          BY <1>1, <3>2, <5>1 DEF FlowInv, Fenced, FlowOK, Unknown
      <4> QED
        BY <4>1, <4>2, <4>3 DEF FlowInv
    <3> QED
      BY <3>5, <3>6, <3>7, <3>8
  <2> QED
    BY <1>1, <1>12, <2>1, <2>2 DEF ReplayUnreadable
<1> QED
  BY <1>7, <1>8, <1>10, <1>11, <1>12 DEF Replay

(* An attempt is reserved for a call that had none: nobody else has it.    *)
LEMMA ReserveStep ==
    ASSUME IInv, NEW w \in Workers, Reserve(w)
    PROVE  IInv'
<1> USE DEF IInv
<1>0. PICK r \in Runs, k \in Calls : r = wrun[w] /\ k = at[w]
  BY DEF Reserve, WorkInv, WorkOK
<1> DEFINE a == <<r, k>>
<1>1. /\ pc[w] = "search" /\ wrun[w] = r /\ at[w] = k /\ Here(w) = a /\ a \in Row
      /\ WorkOK(w) /\ RowOK(a) /\ status[a] = "absent" /\ flow[r] \in Open
      /\ UNCHANGED <<run, flow, apply, stored, evidence, posted, owner, wrun, memory,
                     faults>>
  BY <1>0 DEF Reserve, WorkInv, RowInv, Here, Row
<1>2. /\ status' = [status EXCEPT ![a] = "started"]
      /\ recon' = [recon EXCEPT ![a] = "pending"]
      /\ recent' = [recent EXCEPT ![a] = TRUE]
      /\ pc' = [pc EXCEPT ![w] = "send"]
  BY <1>1 DEF Reserve
<1>3. /\ status'[a] = "started" /\ recon'[a] = "pending" /\ pc'[w] = "send"
      /\ \A b \in Row \ {a} : /\ status'[b] = status[b] /\ recon'[b] = recon[b]
                              /\ recent'[b] = recent[b]
      /\ \A v \in Workers \ {w} : pc'[v] = pc[v]
  BY <1>1, <1>2 DEF TypeOK
<1>4. TypeOK'
  BY <1>1, <1>2 DEF TypeOK, Attempted, memory
<1>5. RowInv'
  <2>1. RowOK(a)'
    BY <1>1, <1>3 DEF RowOK, Returned
  <2>2. \A b \in Row \ {a} : RowOK(b)'
    BY <1>1, <1>3 DEF RowInv, RowOK
  <2> QED
    BY <2>1, <2>2 DEF RowInv
<1>6. FlowInv'
  <2>1. Fenced(r)'
    BY <1>1, <1>3 DEF FlowInv, Fenced, Unknown, Row, Open
  <2>2. FlowOK(r)'
    <3>1. flow'[r] \notin Closed
      BY <1>1 DEF Open, Closed
    <3>2. \A c \in Calls : status'[<<r, c>>] = "success" => status[<<r, c>>] = "success"
      BY <1>3 DEF Row
    <3> QED
      BY <1>1, <3>1, <3>2 DEF FlowInv, FlowOK
  <2>3. ASSUME NEW q \in Runs \ {r} PROVE Fenced(q)' /\ FlowOK(q)'
    <3>1. \A c \in Calls : <<q, c>> \in Row \ {a}
      BY DEF Row
    <3> QED
      BY <1>1, <1>3, <3>1 DEF FlowInv, Fenced, FlowOK, Unknown
  <2> QED
    BY <2>1, <2>2, <2>3 DEF FlowInv
<1>7. \A b \in Row : Forward(b)
  BY <1>1, <1>3 DEF Forward
<1>8. \A v \in Workers : Flying(v) => Here(v) \in Row \ {a} /\ status[Here(v)] = "started"
  BY <1>1, FlyingCall
<1>9. WorkInv'
  <2>1. Others(w)
    BY <1>1, <1>3 DEF Others, memory
  <2>2. InFlightKept(w)
    BY <1>1, <1>3, <1>8 DEF InFlightKept
  <2>3. Here(w)' = a /\ wrun' = wrun /\ at' = at /\ seen' = seen /\ got' = got /\ some' = some
    BY <1>1 DEF Here, memory
  <2>4. WorkOK(w)'
    <3>1. /\ seen[w] \subseteq Calls /\ got[w] \subseteq Calls
          /\ \A c \in Calls : Forward(<<r, c>>)
      BY <1>7 DEF TypeOK, Row
    <3>2. posted'[a] = 0
      BY <1>1 DEF RowOK
    <3> QED
      BY <1>1, <1>3, <2>3, <3>1, <3>2 DEF WorkOK, Flying, Forward
  <2> QED
    BY <1>7, <1>8, <2>1, <2>2, <2>3, <2>4, WorkFrom DEF Others, InFlightKept
<1> QED
  BY <1>4, <1>5, <1>6, <1>9

(* A provider that cannot be asked is passed by.                           *)
LEMMA SkipStep ==
    ASSUME IInv, NEW w \in Workers, SkipProvider(w)
    PROVE  IInv'
<1> USE DEF IInv
<1>1. /\ pc[w] = "search" /\ wrun[w] \in Runs /\ at[w] \in Calls /\ WorkOK(w) /\ PassBy(w)
      /\ UNCHANGED <<run, flow, rows, evidence, posted, faults>>
  BY DEF SkipProvider, WorkInv, WorkOK
<1>2. /\ MemoryType' /\ Others(w) /\ wrun' = wrun
      /\ seen' = seen /\ got' = got /\ some' = some
      /\ pc'[w] \in {"apply", "search"}
      /\ pc'[w] = "search" => at'[w] \in Calls
  BY <1>1, PassByEffect
<1>3. TypeOK'
  BY <1>1, <1>2 DEF TypeOK, MemoryType, rows
<1>4. RowInv' /\ FlowInv' /\ \A a \in Row : Forward(a)
  BY <1>1, QuietKeeps DEF rows
<1>5. InFlightKept(w)
  BY <1>1, InFlightQuiet DEF rows
<1>6. ~Flying(w)'
  BY <1>2 DEF Flying
<1>7. WorkOK(w)'
  BY <1>1, <1>2, <1>6 DEF WorkOK, rows
<1>8. WorkInv'
  BY <1>2, <1>4, <1>5, <1>6, <1>7, WorkFrom DEF Others, InFlightKept
<1> QED
  BY <1>3, <1>4, <1>8

(* The request leaves, for the first time.                                 *)
LEMMA SendStep ==
    ASSUME IInv, NEW w \in Workers, Send(w)
    PROVE  IInv'
<1> USE DEF IInv
<1>0. PICK r \in Runs, k \in Calls : r = wrun[w] /\ k = at[w]
  BY DEF Send, WorkInv, WorkOK
<1> DEFINE a == <<r, k>>
<1>1. /\ pc[w] = "send" /\ wrun[w] = r /\ at[w] = k /\ Here(w) = a /\ a \in Row
      /\ WorkOK(w) /\ RowOK(a) /\ status[a] = "started" /\ posted[a] = 0
      /\ UNCHANGED <<run, flow, rows, evidence, owner, wrun, memory, faults>>
  BY <1>0 DEF Send, WorkInv, WorkOK, Flying, RowInv, Here, Row
<1>2. /\ posted' = [posted EXCEPT ![a] = 1]
      /\ pc' = [pc EXCEPT ![w] = "reply"]
  BY <1>1 DEF Send
<1>3. /\ posted'[a] = 1 /\ pc'[w] = "reply"
      /\ \A b \in Row \ {a} : posted'[b] = posted[b]
      /\ \A v \in Workers \ {w} : pc'[v] = pc[v]
  BY <1>1, <1>2 DEF TypeOK
<1>4. TypeOK'
  BY <1>1, <1>2 DEF TypeOK, rows, memory
<1>5. RowInv'
  <2>1. RowOK(a)'
    BY <1>1, <1>3 DEF RowOK, rows, Returned
  <2>2. \A b \in Row \ {a} : RowOK(b)'
    BY <1>1, <1>3 DEF RowInv, RowOK, rows
  <2> QED
    BY <2>1, <2>2 DEF RowInv
<1>6. FlowInv'
  BY <1>1 DEF FlowInv, Fenced, FlowOK, Unknown, rows
<1>7. \A b \in Row : Forward(b)
  BY <1>1 DEF Forward, rows
<1>8. WorkInv'
  <2>1. Flying(w) /\ Flying(w)' /\ Others(w)
    BY <1>1, <1>3 DEF Flying, Others, memory
  <2>2. InFlightKept(w)
    BY <1>1, <1>3, <2>1, InFlightOwn DEF rows
  <2>3. Here(w)' = a
    BY <1>1 DEF Here, memory
  <2>4. WorkOK(w)'
    BY <1>1, <1>3, <2>3 DEF WorkOK, Flying, rows, memory
  <2>5. \A v \in Workers \ {w} : Flying(v) => Here(v) # a
    BY <1>1, <2>1 DEF WorkInv, Alone
  <2> QED
    BY <1>7, <2>1, <2>2, <2>3, <2>4, <2>5, WorkFrom DEF Others, InFlightKept
<1> QED
  BY <1>4, <1>5, <1>6, <1>8

(* The outcome of the call in flight is recorded, or dropped when another  *)
(* executor or an operator has taken the attempt over.                     *)
LEMMA SettleStep ==
    ASSUME IInv, NEW w \in Workers, Flying(w),
           NEW outcome \in {"success", "empty", "failed", "presend", "uncertain"},
           outcome = "presend" => pc[w] = "send",
           Settle(w, outcome)
    PROVE  IInv'
<1> USE DEF IInv
<1>0. PICK r \in Runs, k \in Calls : r = wrun[w] /\ k = at[w]
  BY DEF Flying, WorkInv, WorkOK
<1> DEFINE a == <<r, k>>
<1>1. /\ pc[w] \in {"send", "reply"} /\ wrun[w] = r /\ at[w] = k /\ Here(w) = a /\ a \in Row
      /\ WorkOK(w) /\ RowOK(a) /\ status[a] = "started" /\ ~stored[a]
      /\ recon[a] \in {"pending", "resolved"}
      /\ outcome = "presend" => posted[a] = 0
  <2>1. WorkOK(w) /\ Here(w) = a /\ a \in Row
    BY <1>0 DEF WorkInv, Here, Row
  <2>2. RowOK(a) /\ status[a] = "started" /\ (pc[w] = "send" => posted[a] = 0)
    BY <2>1 DEF RowInv, WorkOK
  <2>3. recon[a] \in {"none", "pending", "resolved"}
    BY <2>1 DEF TypeOK
  <2> QED
    BY <1>0, <2>1, <2>2, <2>3 DEF Flying, RowOK, Returned
<1>2. UNCHANGED <<run, apply, recent, evidence, posted, faults>>
  BY DEF Settle
<1>3. \A v \in Workers \ {w} : Flying(v) => Here(v) \in Row \ {a}
  BY <1>1, FlyingCall DEF WorkInv, Alone
<1>4. ASSUME Raising(w), \A b \in Row : Forward(b), InFlightKept(w)
      PROVE  MemoryType' /\ WorkInv'
  <2>1. /\ MemoryType' /\ Others(w) /\ seen'[w] = {} /\ got'[w] = {}
        /\ pc'[w] = "raise" /\ wrun'[w] \in Runs
    BY <1>1, <1>4, RaisingEffect
  <2> QED
    BY <1>4, <2>1, WipeKeeps
<1>5. CASE AlreadyResolved(w)
  <2>1. Raising(w) /\ UNCHANGED <<flow, status, recon, stored>>
    BY <1>5 DEF AlreadyResolved
  <2>2. RowInv' /\ FlowInv' /\ \A b \in Row : Forward(b)
    BY <1>2, <2>1, QuietKeeps
  <2>3. InFlightKept(w)
    BY <1>2, <2>1, InFlightQuiet
  <2>4. MemoryType' /\ WorkInv'
    BY <1>4, <2>1, <2>2, <2>3
  <2>5. TypeOK'
    BY <1>2, <2>1, <2>4 DEF TypeOK, MemoryType
  <2> QED
    BY <2>2, <2>4, <2>5
<1>6. CASE recon[a] # "resolved" /\ flow[r] = "uncertain" /\ OwnershipLost(w)
  <2>1. /\ Raising(w) /\ UNCHANGED <<flow, recon, stored>> /\ recon[a] = "pending"
        /\ status' = [status EXCEPT ![a] = "uncertain"]
    BY <1>1, <1>6 DEF OwnershipLost
  <2>2. status'[a] = "uncertain" /\ \A b \in Row \ {a} : status'[b] = status[b]
    BY <1>1, <2>1 DEF TypeOK
  <2>3. \A b \in Row : Forward(b)
    BY <1>1, <2>1, <2>2 DEF Forward
  <2>4. InFlightKept(w)
    BY <1>1, <1>2, <2>2, InFlightOwn
  <2>5. MemoryType' /\ WorkInv'
    BY <1>4, <2>1, <2>3, <2>4
  <2>6. TypeOK'
    BY <1>2, <2>1, <2>5 DEF TypeOK, MemoryType, Attempted
  <2>7. RowInv'
    <3>1. RowOK(a)'
      BY <1>1, <1>2, <2>1, <2>2 DEF RowOK, Returned
    <3>2. \A b \in Row \ {a} : RowOK(b)'
      BY <1>2, <2>1, <2>2 DEF RowInv, RowOK
    <3> QED
      BY <3>1, <3>2 DEF RowInv
  <2>8. FlowInv'
    <3>1. \A b \in Row : status'[b] = "success" => status[b] = "success"
      BY <2>2
    <3>2. ASSUME NEW q \in Runs PROVE FlowOK(q)'
      <4>1. FlowOK(q) /\ \A c \in Calls : <<q, c>> \in Row
        BY DEF FlowInv, Row
      <4> QED
        BY <1>2, <2>1, <3>1, <4>1 DEF FlowOK, Unknown
    <3>3. ASSUME NEW q \in Runs PROVE Fenced(q)'
      <4>1. CASE q = r
        <5>1. Fenced(q) /\ flow'[q] = "uncertain"
          BY <1>6, <2>1, <4>1 DEF FlowInv
        <5> QED
          BY <2>1, <5>1 DEF Fenced, Unknown
      <4>2. CASE q # r
        <5>1. Fenced(q) /\ \A c \in Calls : <<q, c>> \in Row \ {a}
          BY <4>2 DEF FlowInv, Row
        <5> QED
          BY <2>1, <2>2, <5>1 DEF Fenced, Unknown
      <4> QED
        BY <4>1, <4>2
    <3> QED
      BY <3>2, <3>3 DEF FlowInv
  <2> QED
    BY <2>5, <2>6, <2>7, <2>8
<1>7. CASE recon[a] # "resolved" /\ flow[r] # "uncertain" /\ Record(w, outcome)
  <2>1. /\ status' = [status EXCEPT ![a] = outcome]
        /\ recon' = [recon EXCEPT ![a] = IF outcome = "uncertain" THEN "pending" ELSE "none"]
        /\ stored' = [stored EXCEPT ![a] = outcome \in Returned]
        /\ recon[a] = "pending"
    BY <1>1, <1>7 DEF Record
  <2>2. /\ status'[a] = outcome
        /\ recon'[a] = IF outcome = "uncertain" THEN "pending" ELSE "none"
        /\ stored'[a] = (outcome \in Returned)
        /\ \A b \in Row \ {a} : /\ status'[b] = status[b] /\ recon'[b] = recon[b]
                                /\ stored'[b] = stored[b]
    BY <1>1, <2>1 DEF TypeOK
  <2>3. /\ flow' \in [Runs -> {"absent"} \union Active \union Closed]
        /\ flow'[r] \in {"uncertain", "apply_pending", "in_progress"}
        /\ flow'[r] = "uncertain" <=> outcome = "uncertain"
        /\ \A q \in Runs \ {r} : flow'[q] = flow[q]
    <3>1. PICK f \in {"uncertain", "apply_pending", "in_progress"} :
             /\ flow' = [flow EXCEPT ![r] = f]
             /\ f = "uncertain" <=> outcome = "uncertain"
      <4>1. CASE outcome = "uncertain"
        BY <1>1, <1>7, <4>1 DEF Record
      <4>2. CASE outcome # "uncertain"
        BY <1>1, <1>7, <4>2 DEF Record
      <4> QED
        BY <4>1, <4>2
    <3> QED
      BY <3>1 DEF TypeOK, Active, Open
  <2>4. \A b \in Row : Forward(b)
    <3>1. Forward(a)
      BY <1>1, <2>1, <2>2 DEF Forward
    <3>2. \A b \in Row \ {a} : Forward(b)
      BY <2>2 DEF Forward
    <3> QED
      BY <3>1, <3>2
  <2>5. InFlightKept(w)
    BY <1>1, <1>2, <2>2, InFlightOwn
  <2>6. MemoryType' /\ WorkInv'
    <3>1. CASE outcome = "uncertain"
      <4>1. Raising(w)
        BY <1>7, <3>1 DEF Record
      <4> QED
        BY <1>4, <2>4, <2>5, <4>1
    <3>2. CASE outcome # "uncertain"
      <4>1. Consume(w, outcome)
        BY <1>7, <3>2 DEF Record
      <4>2. MemoryType' /\ Others(w) /\ pc'[w] \in {"apply", "search"}
        BY <1>1, <4>1, ConsumeEffect
      <4>3. WorkOK(w)'
        BY <1>1, <2>2, <2>4, <4>1, ConsumerKeeps DEF Returned
      <4>4. ~Flying(w)'
        BY <4>2 DEF Flying
      <4> QED
        BY <2>4, <2>5, <4>2, <4>3, <4>4, WorkFrom DEF Others, InFlightKept
    <3> QED
      BY <3>1, <3>2
  <2>7. TypeOK'
    <3>1. status' \in [Row -> {"absent"} \union Attempted]
      BY <2>1 DEF TypeOK, Attempted, Returned, Refusals
    <3>2. recon' \in [Row -> {"none", "pending", "resolved"}]
      BY <2>1 DEF TypeOK
    <3>3. stored' \in [Row -> BOOLEAN]
      <4>1. (outcome \in Returned) \in BOOLEAN
        OBVIOUS
      <4>2. PICK new \in BOOLEAN : new = (outcome \in Returned)
        BY <4>1, Zenon
      <4> QED
        BY <2>1, <4>2 DEF TypeOK
    <3>4. /\ run' \in [Runs -> RunStates] /\ apply' \in [Row -> {"pending", "applied"}]
          /\ recent' \in [Row -> BOOLEAN] /\ evidence' \in [Runs -> SUBSET Calls]
          /\ posted' \in [Row -> Nat] /\ faults' \in Nat
      BY <1>2 DEF TypeOK
    <3> QED
      BY <2>3, <2>6, <3>1, <3>2, <3>3, <3>4 DEF TypeOK, MemoryType
  <2>8. RowInv'
    <3>1. RowOK(a)'
      BY <1>1, <1>2, <2>1, <2>2 DEF RowOK, Returned
    <3>2. \A b \in Row \ {a} : RowOK(b)'
      BY <1>2, <2>2 DEF RowInv, RowOK
    <3> QED
      BY <3>1, <3>2 DEF RowInv
  <2>9. FlowInv'
    <3>1. Fenced(r)'
      <4>1. \A c \in Calls \ {k} : <<r, c>> \in Row \ {a}
        BY DEF Row
      <4>2. \A c \in Calls \ {k} : ~(status[<<r, c>>] = "uncertain" /\ Unknown(<<r, c>>))
        BY <1>7 DEF FlowInv, Fenced
      <4> QED
        BY <2>2, <2>3, <4>1, <4>2 DEF Fenced, Unknown
    <3>2. FlowOK(r)'
      <4>1. flow'[r] \notin Closed
        BY <2>3 DEF Closed
      <4>2. ASSUME NEW c \in Calls
            PROVE  /\ status'[<<r, c>>] = "success" /\ apply'[<<r, c>>] = "applied"
                         => c \in evidence'[r]
                   /\ c \in evidence'[r] => stored'[<<r, c>>]
        <5>1. CASE c = k
          BY <1>1, <1>2, <2>1, <5>1 DEF RowOK, FlowInv, FlowOK
        <5>2. CASE c # k
          <6>1. <<r, c>> \in Row \ {a}
            BY <5>2 DEF Row
          <6> QED
            BY <1>2, <2>2, <6>1 DEF FlowInv, FlowOK
        <5> QED
          BY <5>1, <5>2
      <4> QED
        BY <4>1, <4>2 DEF FlowOK
    <3>3. ASSUME NEW q \in Runs \ {r} PROVE Fenced(q)' /\ FlowOK(q)'
      <4>1. \A c \in Calls : <<q, c>> \in Row \ {a}
        BY DEF Row
      <4>2. Fenced(q) /\ FlowOK(q)
        BY DEF FlowInv
      <4>3. Fenced(q)'
        BY <2>2, <2>3, <4>1, <4>2 DEF Fenced, Unknown
      <4>4. FlowOK(q)'
        BY <1>2, <2>2, <2>3, <4>1, <4>2 DEF FlowOK, Unknown
      <4> QED
        BY <4>3, <4>4
    <3> QED
      BY <3>1, <3>2, <3>3 DEF FlowInv
  <2> QED
    BY <2>6, <2>7, <2>8, <2>9
<1> QED
  BY <1>1, <1>5, <1>6, <1>7 DEF Settle

(* The consumed calls are acknowledged and their results saved at once.    *)
LEMMA ApplyStep ==
    ASSUME IInv, NEW w \in Workers, Apply(w)
    PROVE  IInv'
<1> USE DEF IInv
<1>0. PICK r \in Runs : r = wrun[w]
  BY DEF Apply, WorkInv, WorkOK
<1>1. /\ pc[w] = "apply" /\ WorkOK(w) /\ wrun[w] = r
      /\ UNCHANGED <<status, recon, stored, recent, posted, faults>>
  BY <1>0 DEF Apply, WorkInv
<1>2. InFlightKept(w) /\ \A b \in Row : Forward(b)
  <2>1. InFlightKept(w)
    BY <1>1, InFlightQuiet
  <2>2. \A b \in Row : Forward(b)
    BY <1>1 DEF Forward
  <2> QED
    BY <2>1, <2>2
<1>3. CASE Raising(w) /\ UNCHANGED <<run, flow, apply, evidence>>
  BY <1>1, <1>3, ExitStep DEF rows, TypeOK
<1>4. CASE Acknowledges(w)
  <2>1. /\ flow' = [flow EXCEPT ![r] = "applied"]
        /\ apply' = [a \in Row |-> IF a[1] = r /\ status[a] # "absent"
                                   THEN "applied" ELSE apply[a]]
    BY <1>1, <1>4 DEF Apply
  <2>2. flow'[r] = "applied" /\ \A q \in Runs \ {r} : flow'[q] = flow[q]
    BY <2>1 DEF TypeOK
  <2>3. \A c \in Calls : <<r, c>> \in Row /\ RowOK(<<r, c>>)
    BY DEF RowInv, Row
  <2>4. \A c \in Calls : status[<<r, c>>] # "absent" => c \in seen[w]
    BY <1>1, <1>4 DEF Acknowledges, Attempts
  <2>5. \A c \in Calls : ~Unknown(<<r, c>>)
    <3>1. flow[r] = "applied" \/ \A c \in Attempts(r) : ~Unknown(<<r, c>>)
      BY <1>1, <1>4 DEF Acknowledges
    <3>2. CASE flow[r] = "applied"
      BY <3>2 DEF FlowInv, FlowOK, Closed
    <3>3. CASE \A c \in Attempts(r) : ~Unknown(<<r, c>>)
      BY <2>3, <3>3 DEF Attempts, Unknown, RowOK
    <3> QED
      BY <3>1, <3>2, <3>3
  <2>6. \A c \in Calls : status[<<r, c>>] = "success" => c \in got[w]
    BY <1>1, <2>4 DEF WorkOK
  <2>7. /\ MemoryType' /\ WorkInv'
        /\ run' \in [Runs -> RunStates]
        /\ evidence' \in [Runs -> SUBSET Calls]
        /\ \A q \in Runs \ {r} : evidence'[q] = evidence[q]
        /\ \A c \in Calls : status[<<r, c>>] = "success" => c \in evidence'[r]
        /\ \A c \in evidence'[r] : c \in evidence[r] \/ c \in got[w]
    <3>1. CASE failing[w] /\ ~some[w]
      <4>1. Leave(w) /\ run' = [run EXCEPT ![r] = "failed"] /\ evidence' = evidence
        BY <1>1, <1>4, <3>1 DEF Apply
      <4>2. got[w] = {}
        BY <1>1, <3>1 DEF WorkOK
      <4>3. MemoryType' /\ Others(w) /\ pc'[w] = "idle" /\ seen'[w] = {} /\ got'[w] = {}
        BY <4>1, LeaveEffect
      <4>4. WorkInv'
        BY <1>2, <4>3, WipeKeeps
      <4> QED
        BY <2>6, <4>1, <4>2, <4>3, <4>4 DEF TypeOK, RunStates
    <3>2. CASE ~(failing[w] /\ ~some[w])
      <4>1. /\ evidence' = [evidence EXCEPT ![r] = @ \union got[w]]
            /\ pc' = [pc EXCEPT ![w] = "after"]
            /\ UNCHANGED <<run, owner, wrun, memory>>
        BY <1>1, <1>4, <3>2 DEF Apply
      <4>2. MemoryType' /\ Others(w) /\ pc'[w] = "after"
        BY <4>1 DEF TypeOK, MemoryType, Others, memory
      <4>3. WorkOK(w)' /\ ~Flying(w)'
        BY <1>1, <4>1, <4>2 DEF WorkOK, Flying, memory
      <4>4. WorkInv'
        BY <1>2, <4>2, <4>3, WorkFrom DEF Others, InFlightKept
      <4>5. evidence' \in [Runs -> SUBSET Calls] /\ evidence'[r] = evidence[r] \union got[w]
        BY <4>1 DEF TypeOK
      <4> QED
        BY <2>6, <4>1, <4>2, <4>4, <4>5 DEF TypeOK
    <3> QED
      BY <3>1, <3>2
  <2>8. TypeOK'
    <3>1. flow' \in [Runs -> {"absent"} \union Active \union Closed]
      BY <2>1 DEF TypeOK, Closed
    <3>2. apply' \in [Row -> {"pending", "applied"}]
      BY <2>1 DEF TypeOK
    <3> QED
      BY <1>1, <2>7, <3>1, <3>2 DEF TypeOK, MemoryType
  <2>9. RowInv'
    <3> SUFFICES ASSUME NEW b \in Row PROVE RowOK(b)'
      BY DEF RowInv
    <3>1. RowOK(b)
      BY DEF RowInv
    <3>2. apply'[b] = apply[b] \/ (status[b] # "absent" /\ recon[b] # "pending")
      <4>1. PICK q \in Runs, c \in Calls : b = <<q, c>>
        BY DEF Row
      <4>2. b[1] = q
        BY <4>1
      <4> QED
        BY <2>1, <2>5, <4>1, <4>2 DEF Unknown
    <3> QED
      BY <1>1, <3>1, <3>2 DEF RowOK
  <2>10. FlowInv'
    <3>1. Fenced(r)'
      BY <1>1, <2>2, <2>5 DEF Fenced, Unknown
    <3>2. FlowOK(r)'
      <4>1. \A c \in evidence'[r] : stored[<<r, c>>]
        BY <1>1, <2>7 DEF FlowInv, FlowOK, WorkOK, TypeOK
      <4> QED
        BY <1>1, <2>5, <2>7, <4>1 DEF FlowOK, Unknown
    <3>3. ASSUME NEW q \in Runs \ {r} PROVE Fenced(q)' /\ FlowOK(q)'
      <4>1. \A c \in Calls : <<q, c>> \in Row /\ apply'[<<q, c>>] = apply[<<q, c>>]
        BY <2>1 DEF Row
      <4>2. Fenced(q) /\ FlowOK(q)
        BY DEF FlowInv
      <4>3. Fenced(q)'
        BY <1>1, <2>2, <4>2 DEF Fenced, Unknown
      <4>4. FlowOK(q)'
        BY <1>1, <2>2, <2>7, <4>1, <4>2 DEF FlowOK, Unknown
      <4> QED
        BY <4>3, <4>4
    <3> QED
      BY <3>1, <3>2, <3>3 DEF FlowInv
  <2> QED
    BY <2>7, <2>8, <2>9, <2>10
<1> QED
  BY <1>1, <1>3, <1>4 DEF Apply

(* An operator settles an unknown outcome; the workflow follows from what  *)
(* is left.                                                                *)
LEMMA ResolveStep ==
    ASSUME IInv, NEW a \in Row, Resolve(a)
    PROVE  IInv'
<1> USE DEF IInv
<1>0. PICK r \in Runs, k \in Calls : a = <<r, k>>
  BY DEF Row
<1> DEFINE settled(b) == \/ b = a
                         \/ b[1] = r /\ recon[b] = "none" /\ status[b] \in Refusals
           left == {c \in Attempts(r) : /\ recon'[<<r, c>>] # "resolved"
                                        /\ \/ recon'[<<r, c>>] = "pending"
                                           \/ apply'[<<r, c>>] = "pending"}
<1>1. /\ a[1] = r /\ status[a] \in {"started", "uncertain"} /\ Unknown(a) /\ RowOK(a)
      /\ recon' = [recon EXCEPT ![a] = "resolved"]
      /\ apply' = [b \in Row |-> IF settled(b) THEN "applied" ELSE apply[b]]
      /\ UNCHANGED <<run, status, stored, recent, evidence, posted, owner, pc, wrun,
                     memory, faults>>
  BY <1>0 DEF Resolve, RowInv
<1>2. PICK f \in {"reconciled", "uncertain", "apply_pending", "in_progress"} :
         /\ flow' = [flow EXCEPT ![r] = f]
         /\ f = "reconciled" => left = {}
         /\ f = "uncertain" => \E c \in left : recon'[<<r, c>>] = "pending"
         /\ f # "uncertain" => \A c \in left : recon'[<<r, c>>] # "pending"
  BY <1>0, ZenonT(30) DEF Resolve
<1>3. /\ recon'[a] = "resolved" /\ \A b \in Row \ {a} : recon'[b] = recon[b]
      /\ flow'[r] = f /\ \A q \in Runs \ {r} : flow'[q] = flow[q]
  BY <1>1, <1>2 DEF TypeOK
<1>4. \A c \in Calls : <<r, c>> \in Row /\ RowOK(<<r, c>>)
  BY DEF RowInv, Row
<1>5. TypeOK'
  <2>1. recon' \in [Row -> {"none", "pending", "resolved"}]
    BY <1>1 DEF TypeOK
  <2>2. apply' \in [Row -> {"pending", "applied"}]
    BY <1>1 DEF TypeOK
  <2>3. flow' \in [Runs -> {"absent"} \union Active \union Closed]
    BY <1>2 DEF TypeOK, Active, Open, Closed
  <2> QED
    BY <1>1, <2>1, <2>2, <2>3 DEF TypeOK, memory
<1>6. RowInv'
  <2> SUFFICES ASSUME NEW b \in Row PROVE RowOK(b)'
    BY DEF RowInv
  <2>1. RowOK(b)
    BY DEF RowInv
  <2>2. CASE b = a
    BY <1>1, <1>3, <2>1, <2>2 DEF RowOK
  <2>3. CASE b # a
    <3>1. apply'[b] = apply[b] \/ (recon[b] = "none" /\ status[b] \in Refusals)
      BY <1>1, <2>3
    <3> QED
      BY <1>1, <1>3, <2>1, <2>3, <3>1 DEF RowOK, Refusals
  <2> QED
    BY <2>2, <2>3
<1>7. \A b \in Row : Forward(b)
  BY <1>1, <1>3 DEF Forward
<1>8. WorkInv'
  <2>1. InFlightKept(NoWorker)
    BY <1>1, InFlightQuiet
  <2> QED
    BY <1>1, <1>7, <2>1, WorkFrom, NoneAssumption DEF InFlightKept, memory
<1>9. Fenced(r)'
  <2>1. ASSUME NEW c \in Calls, status[<<r, c>>] = "uncertain", recon'[<<r, c>>] = "pending"
        PROVE  f = "uncertain"
    <3>1. c \in left
      BY <2>1 DEF Attempts
    <3> QED
      BY <1>2, <2>1, <3>1
  <2>2. ASSUME f = "uncertain" PROVE \E c \in Calls : recon'[<<r, c>>] = "pending"
    <3>1. left \subseteq Calls
      BY DEF Attempts
    <3> QED
      BY <1>2, <2>2, <3>1
  <2> QED
    BY <1>1, <1>3, <2>1, <2>2 DEF Fenced, Unknown
<1>10. FlowOK(r)'
  <2>1. ASSUME NEW c \in Calls, status[<<r, c>>] = "success"
        PROVE  /\ c # k /\ recon'[<<r, c>>] = "none"
               /\ apply'[<<r, c>>] = apply[<<r, c>>]
    <3>1. c # k
      BY <1>0, <1>1, <2>1
    <3>2. <<r, c>> # a /\ <<r, c>> \in Row
      BY <1>0, <1>4, <3>1
    <3>3. recon[<<r, c>>] = "none"
      <4>1. RowOK(<<r, c>>) /\ <<r, c>> \in Row
        BY <1>4
      <4> QED
        BY <2>1, <4>1 DEF RowOK
    <3> QED
      BY <1>1, <1>3, <2>1, <3>1, <3>2, <3>3 DEF Refusals
  <2>2. ASSUME NEW c \in Calls, f = "reconciled"
        PROVE  /\ recon'[<<r, c>>] # "pending"
               /\ status[<<r, c>>] = "success" => apply[<<r, c>>] = "applied"
    <3>1. c \notin left
      BY <1>2, <2>2
    <3>2. CASE status[<<r, c>>] = "absent"
      <4>1. RowOK(<<r, c>>) /\ <<r, c>> \in Row \ {a}
        BY <1>1, <1>4, <3>2
      <4> QED
        BY <1>3, <3>2, <4>1 DEF RowOK
    <3>3. CASE status[<<r, c>>] # "absent"
      <4>1. recon'[<<r, c>>] = "resolved" \/ (/\ recon'[<<r, c>>] # "pending"
                                              /\ apply'[<<r, c>>] # "pending")
        BY <3>1, <3>3 DEF Attempts
      <4>2. apply'[<<r, c>>] \in {"pending", "applied"}
        BY <1>4, <1>5 DEF TypeOK
      <4> QED
        BY <2>1, <4>1, <4>2
    <3> QED
      BY <3>2, <3>3
  <2>3. f \in Closed => f = "reconciled"
    BY DEF Closed
  <2> QED
    BY <1>1, <1>3, <2>1, <2>2, <2>3 DEF FlowInv, FlowOK, Unknown
<1>11. ASSUME NEW q \in Runs \ {r} PROVE Fenced(q)' /\ FlowOK(q)'
  <2>1. \A c \in Calls : <<q, c>> \in Row \ {a} /\ <<q, c>>[1] # r
    BY <1>0 DEF Row
  <2>2. \A c \in Calls : /\ recon'[<<q, c>>] = recon[<<q, c>>]
                         /\ apply'[<<q, c>>] = apply[<<q, c>>]
    BY <1>1, <1>3, <2>1
  <2>3. Fenced(q) /\ FlowOK(q)
    BY DEF FlowInv
  <2>4. Fenced(q)'
    BY <1>1, <1>3, <2>2, <2>3 DEF Fenced, Unknown
  <2>5. FlowOK(q)'
    BY <1>1, <1>3, <2>2, <2>3 DEF FlowOK, Unknown
  <2> QED
    BY <2>4, <2>5
<1> QED
  BY <1>5, <1>6, <1>8, <1>9, <1>10, <1>11 DEF FlowInv

(* Initially nothing is recorded.                                          *)
LEMMA InvariantInit == Init => IInv
<1> SUFFICES ASSUME Init PROVE IInv
  OBVIOUS
<1>1. TypeOK
  BY PlanAssumption DEF Init, TypeOK, RunStates
<1>2. RowInv
  BY DEF Init, RowInv, RowOK, Returned
<1>3. FlowInv
  BY DEF Init, FlowInv, Fenced, FlowOK, Unknown, Closed, Row
<1>4. WorkInv
  BY DEF Init, WorkInv, WorkOK, Alone, Flying
<1> QED
  BY <1>1, <1>2, <1>3, <1>4 DEF IInv

(* Only runs, locks or the quota window change.                            *)
LEMMA IdleStep ==
    ASSUME IInv, run' \in [Runs -> RunStates], owner' \in [Runs -> Workers \union {NoWorker}],
           recent' \in [Row -> BOOLEAN], faults' \in Nat,
           \A a \in Row : recent'[a] => recent[a],
           UNCHANGED <<flow, status, recon, apply, stored, evidence, posted, pc, wrun, memory>>
    PROVE  IInv'
<1>1. TypeOK'
  BY DEF IInv, TypeOK, memory
<1>2. RowInv' /\ FlowInv'
  BY QuietKeeps DEF IInv
<1>3. WorkInv'
  BY DEF IInv, WorkInv, WorkOK, Alone, Flying, Here, memory
<1> QED
  BY <1>1, <1>2, <1>3 DEF IInv

(* Every step keeps it.                                                    *)
LEMMA InvariantStep == IInv /\ [Next]_vars => IInv'
<1> SUFFICES ASSUME IInv, [Next]_vars PROVE IInv'
  OBVIOUS
<1>0. TypeOK /\ WorkInv
  BY DEF IInv
<1>1. ASSUME NEW w \in Workers, NEW r \in Runs, Begin(w, r) PROVE IInv'
  BY <1>1, BeginStep
<1>2. ASSUME NEW w \in Workers, Execute(w) PROVE IInv'
  <2>1. CASE Acquire(w)
    BY <2>1, AcquireStep
  <2>2. CASE Replay(w)
    BY <2>2, ReplayStep
  <2>3. CASE Reserve(w)
    BY <2>3, ReserveStep
  <2>4. CASE ReserveRefused(w)
    BY <1>0, <2>4, ExitStep DEF ReserveRefused, TypeOK
  <2>5. CASE SkipProvider(w)
    BY <2>5, SkipStep
  <2>6. CASE Send(w)
    BY <2>6, SendStep
  <2>7. CASE SendFails(w)
    BY <2>7, SettleStep DEF SendFails, Flying
  <2>8. CASE Answer(w)
    BY <2>8, SettleStep DEF Answer, Flying
  <2>9. CASE Apply(w)
    BY <2>9, ApplyStep
  <2>10. CASE FinishRun(w)
    <3>1. run' \in [Runs -> RunStates] /\ faults' \in Nat
      BY <1>0, <2>10 DEF FinishRun, TypeOK, RunStates
    <3> QED
      BY <2>10, <3>1, ExitStep DEF FinishRun
  <2>11. CASE Raise(w)
    <3>1. run' \in [Runs -> RunStates] /\ faults' \in Nat
      BY <1>0, <2>11 DEF Raise, TypeOK, RunStates
    <3> QED
      BY <2>11, <3>1, ExitStep DEF Raise
  <2> QED
    BY <1>2, <2>1, <2>2, <2>3, <2>4, <2>5, <2>6, <2>7, <2>8, <2>9, <2>10, <2>11
    DEF Execute
<1>3. ASSUME NEW w \in Workers, Crash(w) PROVE IInv'
  BY <1>0, <1>3, ExitStep DEF Crash, TypeOK
<1>4. ASSUME NEW w \in Workers, LoseLock(w) PROVE IInv'
  BY <1>0, <1>4, IdleStep DEF LoseLock, Release, rows, TypeOK
<1>5. ASSUME NEW w \in Workers, LocalFailure(w) PROVE IInv'
  BY <1>0, <1>5, ExitStep DEF LocalFailure, TypeOK
<1>6. ASSUME NEW r \in Runs, CreateRun(r) PROVE IInv'
  BY <1>0, <1>6, IdleStep DEF CreateRun, rows, TypeOK, RunStates
<1>7. ASSUME NEW r \in Runs, Resume(r) PROVE IInv'
  BY <1>0, <1>7, IdleStep DEF Resume, rows, TypeOK, RunStates
<1>8. ASSUME NEW a \in Row, Resolve(a) PROVE IInv'
  BY <1>8, ResolveStep
<1>9. CASE WindowMoves
  <2>1. PICK a \in Row : recent' = [recent EXCEPT ![a] = FALSE]
    BY <1>9 DEF WindowMoves
  <2>2. recent' \in [Row -> BOOLEAN]
    BY <1>0, <2>1 DEF TypeOK
  <2> QED
    BY <1>0, <1>9, <2>2, IdleStep DEF WindowMoves, TypeOK
<1>10. CASE UNCHANGED vars
  BY <1>0, <1>10, IdleStep DEF vars, rows, TypeOK
<1> QED
  BY <1>1, <1>2, <1>3, <1>4, <1>5, <1>6, <1>7, <1>8, <1>9, <1>10 DEF Next

-----------------------------------------------------------------------------
(* Theorems *)

(* Redelivered tasks, crashes, lost locks and operators leave the          *)
(* invariant standing (accounting.py, services.py, tasks.py).              *)
THEOREM Invariant == Spec => []IInv
<1>1. Init => IInv
  BY InvariantInit
<1>2. IInv /\ [Next]_vars => IInv'
  BY InvariantStep
<1> QED
  BY <1>1, <1>2, PTL DEF Spec

(* The columns of runs, workflows and attempts keep their types.           *)
THEOREM TypeCorrect == Spec => []TypeOK
<1>1. IInv => TypeOK
  BY DEF IInv
<1> QED
  BY <1>1, Invariant, PTL

(* No logical call is transmitted twice, whoever takes the run up after    *)
(* whom (reserve_web_search_attempt, replay_recorded_web_search).          *)
THEOREM PaidOnceTheorem == Spec => []PaidOnce
<1>1. IInv => PaidOnce
  BY DEF IInv, RowInv, RowOK, PaidOnce
<1> QED
  BY <1>1, Invariant, PTL

(* A workflow is fenced exactly while an outcome an operator has to find   *)
(* out is open (finalize and resolve_web_search_attempt).                  *)
THEOREM UnknownFencedTheorem == Spec => []UnknownFenced
<1>1. IInv => UnknownFenced
  BY DEF IInv, FlowInv, Fenced, UnknownFenced
<1> QED
  BY <1>1, Invariant, PTL

(* A workflow is closed with every recorded result among the evidence      *)
(* (acknowledge_web_search_workflow).                                      *)
THEOREM ResultsKept == Spec => []PaidResultsKept
<1>1. IInv => PaidResultsKept
  BY DEF IInv, FlowInv, FlowOK, PaidResultsKept
<1> QED
  BY <1>1, Invariant, PTL

(* Evidence comes from durable checkpoints only, never from an answer      *)
(* whose attempt was taken over.                                           *)
THEOREM LateDiscarded == Spec => []LateResultsDiscarded
<1>1. IInv => LateResultsDiscarded
  <2> SUFFICES ASSUME IInv, NEW r \in Runs, NEW c \in evidence[r] PROVE stored[<<r, c>>]
    BY DEF LateResultsDiscarded
  <2>1. c \in Calls
    BY DEF IInv, TypeOK
  <2> QED
    BY <2>1 DEF IInv, FlowInv, FlowOK
<1> QED
  BY <1>1, Invariant, PTL

-----------------------------------------------------------------------------
(* Closed workflows *)

(* The answer of a call in flight finds a closed workflow only with its    *)
(* attempt resolved, and then changes nothing.                             *)
LEMMA SettleClosed ==
    ASSUME IInv, NEW w \in Workers, Flying(w), NEW outcome, Settle(w, outcome),
           NEW r \in Runs, flow[r] \in Closed
    PROVE  flow'[r] = flow[r]
<1>1. wrun[w] \in Runs /\ at[w] \in Calls /\ Here(w) \in Row /\ status[Here(w)] = "started"
  BY FlyingCall DEF IInv
<1>2. CASE AlreadyResolved(w)
  BY <1>2 DEF AlreadyResolved
<1>3. CASE OwnershipLost(w)
  BY <1>3 DEF OwnershipLost
<1>4. CASE recon[Here(w)] # "resolved" /\ Record(w, outcome)
  <2>1. Unknown(Here(w))
    <3>1. recon[Here(w)] # "none" /\ recon[Here(w)] \in {"none", "pending", "resolved"}
      BY <1>1 DEF IInv, RowInv, RowOK, TypeOK
    <3> QED
      BY <1>4, <3>1 DEF Unknown
  <2>2. flow[wrun[w]] \notin Closed
    BY <1>1, <2>1 DEF IInv, FlowInv, FlowOK, Here
  <2>3. PICK f : flow' = [flow EXCEPT ![wrun[w]] = f]
    BY <1>4 DEF Record
  <2> QED
    BY <2>2, <2>3 DEF IInv, TypeOK
<1> QED
  BY <1>2, <1>3, <1>4 DEF Settle

(* No step changes a closed workflow.                                      *)
LEMMA ClosedStep ==
    ASSUME IInv, [Next]_vars, NEW r \in Runs, flow[r] \in Closed
    PROVE  flow'[r] = flow[r]
<1>1. ASSUME NEW w \in Workers, Execute(w) PROVE flow'[r] = flow[r]
  <2>1. pc[w] # "idle" => wrun[w] \in Runs
    BY DEF IInv, WorkInv, WorkOK
  <2>2. CASE Acquire(w)
    BY <2>1, <2>2 DEF Acquire, IInv, TypeOK, Closed
  <2>3. CASE Replay(w)
    <3>1. wrun[w] \in Runs /\ at[w] \in Calls
      BY <2>3 DEF Replay, IInv, WorkInv, WorkOK
    <3>2. CASE ReplayStarted(w)
      <4>1. flow[wrun[w]] \notin Closed
        BY <3>1, <3>2 DEF ReplayStarted, IInv, FlowInv, FlowOK, Here
      <4> QED
        BY <3>2, <4>1 DEF ReplayStarted, IInv, TypeOK
    <3>3. CASE ReplayUnreadable(w)
      <4>1. flow' = flow \/ (/\ flow[wrun[w]] \in Active
                             /\ flow' = [flow EXCEPT ![wrun[w]] = "uncertain"])
        BY <3>3 DEF ReplayUnreadable
      <4> QED
        BY <4>1 DEF IInv, TypeOK, Active, Open, Closed
    <3> QED
      BY <2>3, <3>2, <3>3 DEF Replay, ReplayUnknown, ReplayReturned, ReplayRefused
  <2>4. CASE SendFails(w)
    BY <2>4, SettleClosed DEF SendFails, Flying
  <2>5. CASE Answer(w)
    BY <2>5, SettleClosed DEF Answer, Flying
  <2>6. CASE Apply(w)
    <3>1. CASE UNCHANGED flow
      BY <3>1
    <3>2. CASE Acknowledges(w) /\ flow' = [flow EXCEPT ![wrun[w]] = "applied"]
      <4>1. flow[wrun[w]] # "reconciled"
        BY <3>2 DEF Acknowledges, Open
      <4> QED
        BY <3>2, <4>1 DEF IInv, TypeOK, Closed
    <3> QED
      BY <2>6, <3>1, <3>2 DEF Apply
  <2> QED
    BY <1>1, <2>2, <2>3, <2>4, <2>5, <2>6
    DEF Execute, Reserve, ReserveRefused, SkipProvider, Send, FinishRun, Raise
<1>2. ASSUME NEW a \in Row, Resolve(a) PROVE flow'[r] = flow[r]
  <2>1. PICK q \in Runs, k \in Calls : a = <<q, k>>
    BY DEF Row
  <2>2. q # r
    BY <1>2, <2>1 DEF Resolve, IInv, FlowInv, FlowOK
  <2>3. PICK f : flow' = [flow EXCEPT ![q] = f]
    BY <1>2, <2>1 DEF Resolve
  <2> QED
    BY <2>2, <2>3 DEF IInv, TypeOK
<1> QED
  BY <1>1, <1>2
  DEF Next, vars, Begin, Crash, LoseLock, LocalFailure, CreateRun, Resume, WindowMoves

(* A closed workflow is final for late answers, redelivered tasks and      *)
(* operators (finalize, acknowledge and resolve_web_search_attempt).       *)
THEOREM ClosedFinal == Spec => ClosedStays
<1>1. IInv /\ [Next]_vars =>
         [\A r \in Runs : flow[r] \in Closed => flow'[r] = flow[r]]_vars
  BY ClosedStep
<1> QED
  BY <1>1, Invariant, PTL DEF Spec, ClosedStays

-----------------------------------------------------------------------------
(* The quota *)

QuotaInv ==
    /\ Within(Cardinality(Counted), GlobalLimit)
    /\ \A p \in 1..Providers :
          Within(Cardinality({a \in Counted : a[2][2] = p}), ProviderLimit)

(* There are finitely many rows.                                           *)
LEMMA RowsFinite == IsFiniteSet(Row)
<1>1. IsFiniteSet(1..Slots) /\ IsFiniteSet(1..Providers)
  BY PlanAssumption, FS_Interval
<1>2. IsFiniteSet(Calls)
  BY <1>1, FS_Product DEF Calls
<1> QED
  BY <1>2, QuotaAssumption, FS_Product DEF Row

(* Counting what a limit allows: less, or one more below the limit.        *)
LEMMA CountStays ==
    ASSUME NEW S, NEW T, IsFiniteSet(S), NEW limit \in Nat, T \subseteq S,
           Within(Cardinality(S), limit)
    PROVE  Within(Cardinality(T), limit)
<1>1. IsFiniteSet(T) /\ Cardinality(T) <= Cardinality(S)
  BY FS_Subset
<1>2. Cardinality(S) \in Nat /\ Cardinality(T) \in Nat
  BY <1>1, FS_CardinalityType
<1> QED
  BY <1>1, <1>2 DEF Within

(* A set that gained at most one member is still within the limit it was below. *)
LEMMA CountGrows ==
    ASSUME NEW S, NEW T, NEW x, IsFiniteSet(S), NEW limit \in Nat,
           T \subseteq S \union {x}, Below(Cardinality(S), limit)
    PROVE  Within(Cardinality(T), limit)
<1>1. /\ IsFiniteSet(S \union {x})
      /\ Cardinality(S \union {x}) = Cardinality(S)
            \/ Cardinality(S \union {x}) = Cardinality(S) + 1
  BY FS_AddElement
<1>2. Cardinality(S) \in Nat
  BY FS_CardinalityType
<1>3. Within(Cardinality(S \union {x}), limit)
  BY <1>1, <1>2 DEF Below, Within
<1> QED
  BY <1>1, <1>3, CountStays

(* Only a reservation counts a call that did not count before.             *)
LEMMA CountedShrinks ==
    ASSUME IInv, [Next]_vars, \A w \in Workers : ~Reserve(w)
    PROVE  Counted' \subseteq Counted
<1> SUFFICES ASSUME NEW a \in Row, recent'[a], status'[a] \notin {"absent", "presend"}
             PROVE  recent[a] /\ status[a] \notin {"absent", "presend"}
  BY DEF Counted
<1> DEFINE Kept == recent'[a] = recent[a] /\ (status[a] = "presend" => status'[a] = "presend")
<1>1. ASSUME recent[a], status[a] = "presend" => status'[a] = "presend"
      PROVE  recent[a] /\ status[a] \notin {"absent", "presend"}
  BY <1>1 DEF IInv, RowInv, RowOK
<1>2. ASSUME NEW w \in Workers, Execute(w) PROVE Kept
  <2>1. CASE Replay(w)
    BY <2>1
    DEF Replay, ReplayStarted, ReplayUnknown, ReplayReturned, ReplayRefused,
        ReplayUnreadable, Returned, IInv, TypeOK
  <2>2. ASSUME NEW outcome, Flying(w), Settle(w, outcome) PROVE Kept
    <3>1. Here(w) \in Row /\ status[Here(w)] = "started"
      BY <2>2, FlyingCall DEF IInv
    <3>2. PICK new : status' = [status EXCEPT ![Here(w)] = new] \/ status' = status
      BY <2>2 DEF Settle, AlreadyResolved, OwnershipLost, Record
    <3> QED
      BY <2>2, <3>1, <3>2 DEF Settle, IInv, TypeOK
  <2>3. CASE SendFails(w) \/ Answer(w)
    <3>1. Flying(w) /\ \E outcome \in {"success", "empty", "failed", "presend", "uncertain"} :
                          Settle(w, outcome)
      BY <2>3 DEF SendFails, Answer, Flying
    <3> HIDE DEF Kept
    <3> QED
      BY <2>2, <3>1
  <2> QED
    BY <1>2, <2>1, <2>3
    DEF Execute, Acquire, ReserveRefused, SkipProvider, Send, Apply, FinishRun, Raise, rows
<1>3. CASE WindowMoves
  BY <1>3 DEF WindowMoves, IInv, TypeOK
<1>4. CASE ~WindowMoves /\ \A w \in Workers : ~Execute(w)
  <2>1. Kept
    BY <1>4
    DEF Next, vars, rows, Begin, Crash, LoseLock, LocalFailure, CreateRun, Resume, Resolve
  <2> QED
    BY <1>1, <2>1
<1> QED
  BY <1>1, <1>2, <1>3, <1>4

(* The limits are kept by the counted calls.                               *)
LEMMA QuotaStep == IInv /\ QuotaInv /\ [Next]_vars => QuotaInv'
<1> SUFFICES ASSUME IInv, QuotaInv, [Next]_vars PROVE QuotaInv'
  OBVIOUS
<1> DEFINE Of(p) == {a \in Counted : a[2][2] = p}
<1>1. IsFiniteSet(Counted) /\ \A p \in 1..Providers : IsFiniteSet(Of(p))
  BY RowsFinite, FS_Subset DEF Counted
<1>2. CASE \A w \in Workers : ~Reserve(w)
  <2>1. Counted' \subseteq Counted
    BY <1>2, CountedShrinks
  <2>2. Within(Cardinality(Counted'), GlobalLimit)
    BY <1>1, <2>1, CountStays, QuotaAssumption DEF QuotaInv
  <2>3. ASSUME NEW p \in 1..Providers
        PROVE  Within(Cardinality({a \in Counted' : a[2][2] = p}), ProviderLimit)
    <3>1. {a \in Counted' : a[2][2] = p} \subseteq Of(p)
      BY <2>1
    <3>2. Within(Cardinality(Of(p)), ProviderLimit)
      BY DEF QuotaInv
    <3> HIDE DEF Of
    <3> QED
      BY <1>1, <3>1, <3>2, CountStays, QuotaAssumption
  <2> QED
    BY <2>2, <2>3 DEF QuotaInv
<1>3. ASSUME NEW w \in Workers, Reserve(w) PROVE QuotaInv'
  <2>1. PICK r \in Runs, k \in Calls : r = wrun[w] /\ k = at[w]
    BY <1>3 DEF Reserve, IInv, WorkInv, WorkOK
  <2> DEFINE x == <<r, k>>
  <2>2. /\ x = Here(w) /\ x[2][2] = at[w][2]
        /\ Below(Cardinality(Counted), GlobalLimit)
        /\ Below(Cardinality(Of(at[w][2])), ProviderLimit)
    BY <1>3, <2>1 DEF Reserve, WithinQuota, Here
  <2>3. Counted' \subseteq Counted \union {x}
    BY <1>3, <2>2 DEF Reserve, Counted, IInv, TypeOK
  <2>4. Within(Cardinality(Counted'), GlobalLimit)
    BY <1>1, <2>2, <2>3, CountGrows, QuotaAssumption
  <2>5. ASSUME NEW p \in 1..Providers
        PROVE  Within(Cardinality({a \in Counted' : a[2][2] = p}), ProviderLimit)
    <3>1. CASE p = at[w][2]
      <4>1. {a \in Counted' : a[2][2] = p} \subseteq Of(p) \union {x}
        BY <2>3
      <4>2. Below(Cardinality(Of(p)), ProviderLimit)
        BY <2>2, <3>1
      <4> HIDE DEF Of, x
      <4> QED
        BY <1>1, <4>1, <4>2, CountGrows, QuotaAssumption
    <3>2. CASE p # at[w][2]
      <4>1. {a \in Counted' : a[2][2] = p} \subseteq Of(p)
        BY <2>2, <2>3, <3>2
      <4>2. Within(Cardinality(Of(p)), ProviderLimit)
        BY DEF QuotaInv
      <4> HIDE DEF Of
      <4> QED
        BY <1>1, <4>1, <4>2, CountStays, QuotaAssumption
    <3> QED
      BY <3>1, <3>2
  <2> QED
    BY <2>4, <2>5 DEF QuotaInv
<1> QED
  BY <1>2, <1>3

(* Concurrent executors never transmit more calls in a window than the     *)
(* quota allows (reserve_web_search_attempt counts what is in flight).     *)
THEOREM QuotaTheorem == Spec => []QuotaRespected
<1>1. Init => QuotaInv
  <2> SUFFICES ASSUME Init PROVE QuotaInv
    OBVIOUS
  <2>1. Counted = {}
    BY DEF Init, Counted
  <2>2. \A p \in 1..Providers : {a \in Counted : a[2][2] = p} = {}
    BY <2>1
  <2> QED
    BY <2>1, <2>2, FS_EmptySet, QuotaAssumption DEF QuotaInv, Within
<1>2. IInv /\ QuotaInv => QuotaRespected
  <2> SUFFICES ASSUME IInv, QuotaInv PROVE QuotaRespected
    OBVIOUS
  <2>1. Transmitted \subseteq Counted
    BY DEF Transmitted, Counted, IInv, RowInv, RowOK
  <2>2. IsFiniteSet(Counted) /\ IsFiniteSet(Transmitted)
    BY RowsFinite, FS_Subset DEF Counted, Transmitted
  <2>3. Within(Cardinality(Transmitted), GlobalLimit)
    BY <2>1, <2>2, CountStays, QuotaAssumption DEF QuotaInv
  <2>4. ASSUME NEW p \in 1..Providers
        PROVE  Within(Cardinality({a \in Transmitted : a[2][2] = p}), ProviderLimit)
    <3> DEFINE T == {a \in Transmitted : a[2][2] = p}
               S == {a \in Counted : a[2][2] = p}
    <3>1. T \subseteq S /\ IsFiniteSet(S)
      BY <2>1, <2>2, FS_Subset
    <3>2. Within(Cardinality(S), ProviderLimit)
      BY DEF QuotaInv
    <3> HIDE DEF S, T
    <3>3. Within(Cardinality(T), ProviderLimit)
      BY <3>1, <3>2, CountStays, QuotaAssumption
    <3> QED
      BY <3>3 DEF T
  <2> QED
    BY <2>3, <2>4 DEF QuotaRespected
<1> QED
  BY <1>1, <1>2, QuotaStep, Invariant, PTL DEF Spec

=============================================================================
