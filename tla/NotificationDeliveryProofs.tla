---------------------- MODULE NotificationDeliveryProofs ----------------------
(***************************************************************************)
(* At-most-once delivery of notifications for any number of events, tasks  *)
(* and retries.  ChannelInv is the inductive invariant: a Telegram row is  *)
(* handed out once, when it is created, and a task about to send an email  *)
(* is inside the provider's idempotency window.                            *)
(***************************************************************************)
EXTENDS NotificationDelivery, TLAPS

(* A task that is not absent works on a row. *)
LEMMA RowOfTask ==
    ASSUME TypeOK, NEW t \in Tasks, tpc[t] # "absent"
    PROVE  /\ tevent[t] \in Events
           /\ tchannel[t] \in Channels
           /\ RowOf(t) \in Rows
           /\ RowOf(t)[2] = tchannel[t]
  BY DEF TypeOK, RowOf, Rows

(* Every action keeps the shape of rows and tasks. *)
LEMMA TypeStep == TypeOK /\ [Next]_vars => TypeOK'
<1> SUFFICES ASSUME TypeOK, [Next]_vars PROVE TypeOK'
  OBVIOUS
<1> USE NotificationAssumption DEF TypeOK, TaskPCs, FinishedTasks,
        DeliveryStatuses, Channels, Settings, NoSettings
<1>1. ASSUME NEW t \in Tasks, NEW e \in Events, PublishTask(t, e) PROVE TypeOK'
  BY <1>1, RowOfTask
      DEF PublishTask, Advance, Leave, Note, Retry, rowVars, taskVars, histVars
<1>2. ASSUME NEW t \in Tasks, StartTask(t) PROVE TypeOK'
  BY <1>2, RowOfTask
      DEF StartTask, Advance, Leave, Note, Retry, rowVars, taskVars, histVars,
     FirstChannel
<1>3. ASSUME NEW t \in Tasks, NoChannel(t) PROVE TypeOK'
  BY <1>3, RowOfTask
      DEF NoChannel, Advance, Leave, Note, Retry, rowVars, taskVars, histVars
<1>4. ASSUME NEW t \in Tasks, FingerprintConflict(t) PROVE TypeOK'
  BY <1>4, RowOfTask DEF FingerprintConflict, Advance, Leave, Note, Retry,
      rowVars, taskVars, histVars
<1>5. ASSUME NEW t \in Tasks, ClaimRefused(t) PROVE TypeOK'
  <2>1. RowOf(t) \in Rows
    BY <1>5, RowOfTask DEF ClaimRefused
  <2>2. dstatus' \in [Rows -> DeliveryStatuses]
    BY <1>5, <2>1 DEF ClaimRefused
  <2>3. stale' \in [Rows -> BOOLEAN]
    BY <1>5, <2>1 DEF ClaimRefused
  <2>4. tfailure' \in [Tasks -> {"none", "permanent", "retryable"}]
    BY <1>5 DEF ClaimRefused, Note
  <2> QED
    BY <1>5, <2>2, <2>3, <2>4, ZenonT(30) DEF ClaimRefused, Advance, histVars
<1>6. ASSUME NEW t \in Tasks, ClaimChannel(t) PROVE TypeOK'
  <2>1. RowOf(t) \in Rows
    BY <1>6, RowOfTask DEF ClaimChannel
  <2>2. RecipientOf(t) \in Recipients \union {NoRecipient}
    BY DEF RecipientOf
  <2>3. recipient_of' \in [Rows -> Recipients \union {NoRecipient}]
    BY <1>6, <2>1, <2>2 DEF ClaimChannel
  <2> QED
    BY <1>6, <2>1, <2>3 DEF ClaimChannel, histVars
<1>7. ASSUME NEW t \in Tasks, NEW acc \in BOOLEAN, NEW ans \in BOOLEAN,
             Send(t, acc, ans)
      PROVE  TypeOK'
  <2>1. RowOf(t) \in Rows
    BY <1>7, RowOfTask DEF Send
  <2>2. Received(RowOf(t)) \in 0..2
    BY DEF Received
  <2>3. messages' \in [Rows -> 0..2]
    BY <1>7, <2>1, <2>2 DEF Send
  <2> QED
    BY <1>7, <2>3 DEF Send, rowVars
<1>8. ASSUME NEW t \in Tasks, FinishChannel(t) PROVE TypeOK'
  <2>1. RowOf(t) \in Rows
    BY <1>8, RowOfTask DEF FinishChannel
  <2>2. FinalStatus(t) \in DeliveryStatuses
    BY DEF FinalStatus
  <2>3. dstatus' \in [Rows -> DeliveryStatuses]
    BY <1>8, <2>1, <2>2 DEF FinishChannel
  <2>4. stale' \in [Rows -> BOOLEAN]
    BY <1>8, <2>1 DEF FinishChannel
  <2>5. tfailure' \in [Tasks -> {"none", "permanent", "retryable"}]
    BY <1>8 DEF FinishChannel, Note
  <2> QED
    BY <1>8, <2>3, <2>4, <2>5 DEF FinishChannel, Advance
<1>9. ASSUME NEW t \in Tasks, Conclude(t) PROVE TypeOK'
  <2> HIDE DEF TypeOK, Settings, NoSettings
  <2>a. \/ UNCHANGED tretries
        \/ /\ tretries[t] < MaxRetries
           /\ tretries' = [tretries EXCEPT ![t] = tretries[t] + 1]
    BY <1>9 DEF Conclude, CanRetry, Retry
  <2>1. tretries' \in [Tasks -> 0..MaxRetries]
    BY <2>a DEF TypeOK
  <2>2. PICK pc \in TaskPCs : pc # "absent" /\ Leave(t, pc)
    BY <1>9 DEF Conclude, Retry
  <2>3. tevent[t] \in Events
    BY <1>9, RowOfTask DEF Conclude
  <2>4. UNCHANGED <<rowVars, recipient, tevent, histVars>>
    BY <1>9 DEF Conclude
  <2> QED
    BY <2>1, <2>2, <2>3, <2>4
    DEF TypeOK, Settings, NoSettings, Leave, rowVars, histVars
<1>10. ASSUME NEW t \in Tasks, MarkExhausted(t) PROVE TypeOK'
  <2>1. dstatus' \in [Rows -> DeliveryStatuses]
    BY <1>10 DEF MarkExhausted
  <2> QED
    BY <1>10, <2>1 DEF MarkExhausted, Leave, histVars
<1>11. ASSUME NEW t \in Tasks, OtherError(t) PROVE TypeOK'
  <2> HIDE DEF TypeOK, Settings, NoSettings
  <2>a. \/ UNCHANGED tretries
        \/ /\ tretries[t] < MaxRetries
           /\ tretries' = [tretries EXCEPT ![t] = tretries[t] + 1]
    BY <1>11 DEF OtherError, CanRetry, Retry
  <2>1. tretries' \in [Tasks -> 0..MaxRetries]
    BY <2>a DEF TypeOK
  <2>2. PICK pc \in TaskPCs : pc # "absent" /\ Leave(t, pc)
    BY <1>11 DEF OtherError, Retry
  <2>3. tevent[t] \in Events
    BY <1>11, RowOfTask DEF OtherError
  <2>4. UNCHANGED <<rowVars, recipient, tevent, histVars>>
    BY <1>11 DEF OtherError
  <2> QED
    BY <2>1, <2>2, <2>3, <2>4
    DEF TypeOK, Settings, NoSettings, Leave, rowVars, histVars
<1>12. ASSUME NEW t \in Tasks, WorkerLost(t) PROVE TypeOK'
  BY <1>12, RowOfTask
      DEF WorkerLost, Advance, Leave, Note, Retry, rowVars, taskVars, histVars
<1>13. ASSUME NEW k \in Rows, ClaimGoesStale(k) PROVE TypeOK'
  BY <1>13 DEF ClaimGoesStale, rowVars, taskVars, histVars
<1>14. ASSUME NEW k \in Rows, WindowCloses(k) PROVE TypeOK'
  BY <1>14 DEF WindowCloses, rowVars, taskVars, histVars
<1>15. ASSUME NEW k \in Rows, WindowExpires(k) PROVE TypeOK'
  BY <1>15 DEF WindowExpires, rowVars, taskVars, histVars
<1>16. ASSUME NEW k \in Rows, NEW action \in {"sent", "failed"},
             Reconcile(k, action)
      PROVE  TypeOK'
  BY <1>16 DEF Reconcile, rowVars, taskVars, histVars
<1>17. ASSUME NEW c \in Changeable, NEW r \in Recipients \union {NoRecipient},
             ChangeSettings(c, r)
      PROVE  TypeOK'
  BY <1>17 DEF ChangeSettings, rowVars, taskVars, histVars
<1>18. CASE UNCHANGED vars
  BY <1>18 DEF vars, rowVars, taskVars, histVars
<1> HIDE DEF TypeOK, Settings, NoSettings
<1> QED
  BY <1>1, <1>2, <1>3, <1>4, <1>5, <1>6, <1>7, <1>8, <1>9, <1>10, <1>11,
     <1>12, <1>13, <1>14, <1>15, <1>16, <1>17, <1>18
  DEF Next, TaskStep, RunStep, ClaimStep, SendStep, RowStep

(* Every reachable state has its shape; no task retries more often than      *)
(* NOTIFICATION_DELIVERY_MAX_RETRIES.                                        *)
THEOREM TypeCorrect == Spec => []TypeOK
<1>1. Init => TypeOK
  BY NotificationAssumption
  DEF Init, TypeOK, TaskPCs, FinishedTasks, DeliveryStatuses, Channels,
      Settings, NoSettings
<1> QED
  BY <1>1, TypeStep, PTL DEF Spec

-----------------------------------------------------------------------------
(* Who may be about to call a provider.                                      *)

AtSend(t, c) == tpc[t] = "send" /\ tchannel[t] = c

ChannelInv ==
    /\ \A k \in Rows : messages[k] <= 1
    /\ \A k \in Rows : k[2] = "telegram" =>
          /\ dstatus[k] # "pending"
          /\ messages[k] > 0 => dstatus[k] # "absent"
    /\ \A t \in Tasks : AtSend(t, "telegram") =>
          dstatus[RowOf(t)] # "absent" /\ messages[RowOf(t)] = 0
    /\ \A t, u \in Tasks :
          AtSend(t, "telegram") /\ AtSend(u, "telegram") /\ RowOf(t) = RowOf(u)
             => t = u
    /\ \A t \in Tasks : AtSend(t, "email") => window[RowOf(t)] # "expired"

(* A task that stops, or waits for its next attempt, calls no provider. *)
LEMMA LeaveKeepsChannel ==
    ASSUME TypeOK, ChannelInv, NEW t \in Tasks, NEW pc, pc # "send",
           Leave(t, pc), UNCHANGED <<dstatus, window, tevent, messages>>
    PROVE  ChannelInv'
<1>1. \A u \in Tasks : tpc'[u] = "send" =>
          /\ tpc[u] = "send" /\ tchannel'[u] = tchannel[u]
          /\ RowOf(u)' = RowOf(u)
  BY DEF TypeOK, Leave, RowOf
<1> QED
  BY <1>1 DEF ChannelInv, AtSend

(* Every action keeps ChannelInv. *)
LEMMA ChannelStep == TypeOK /\ ChannelInv /\ [Next]_vars => ChannelInv'
<1> SUFFICES ASSUME TypeOK, ChannelInv, [Next]_vars PROVE ChannelInv'
  OBVIOUS
<1> USE DEF TypeOK, ChannelInv, AtSend, RowOf, Channels
<1>1. ASSUME NEW t \in Tasks, NEW e \in Events,
             PublishTask(t, e)
      PROVE  ChannelInv'
  BY <1>1
      DEF PublishTask, Advance, Leave, Note, Retry, rowVars, taskVars, histVars
<1>2. ASSUME NEW t \in Tasks, StartTask(t) PROVE ChannelInv'
  BY <1>2
      DEF StartTask, Advance, Leave, Note, Retry, rowVars, taskVars, histVars
<1>3. ASSUME NEW t \in Tasks, NoChannel(t) PROVE ChannelInv'
  BY <1>3
      DEF NoChannel, Advance, Leave, Note, Retry, rowVars, taskVars, histVars
<1>4. ASSUME NEW t \in Tasks, FingerprintConflict(t) PROVE ChannelInv'
  BY <1>4 DEF FingerprintConflict, Advance, Leave, Note, Retry, rowVars,
      taskVars, histVars
<1>5. ASSUME NEW t \in Tasks, ClaimRefused(t) PROVE ChannelInv'
  <2>1. RowOf(t) \in Rows
    BY <1>5, RowOfTask DEF ClaimRefused
  <2> QED
    BY <1>5, <2>1 DEF ClaimRefused, Advance, histVars
<1>6. ASSUME NEW t \in Tasks, ClaimChannel(t) PROVE ChannelInv'
  <2>1. RowOf(t) \in Rows /\ RowOf(t)[2] = tchannel[t]
    BY <1>6, RowOfTask DEF ClaimChannel
  <2>2. CASE tchannel[t] = "telegram"
    <3>1. dstatus[RowOf(t)] = "absent"
      BY <1>6, <2>1, <2>2 DEF ClaimChannel, ClaimDecision,
         NeedsReview, InFlight, LostTelegram, TooLate, DeliveryStatuses
    <3>2. \A u \in Tasks : tpc[u] = "send" =>
            RowOf(u) \in Rows /\ RowOf(u)[2] = tchannel[u]
      BY RowOfTask
    <3>3. \A u \in Tasks : /\ RowOf(u)' = RowOf(u)
                           /\ AtSend(u, "email")' => AtSend(u, "email")
                           /\ AtSend(u, "telegram")' =>
                                  u = t \/ AtSend(u, "telegram")
      BY <1>6, <2>2 DEF ClaimChannel
    <3>4. UNCHANGED <<window, messages>>
      BY <1>6 DEF ClaimChannel, histVars
    <3>5. dstatus' = [dstatus EXCEPT ![RowOf(t)] = "sending"]
      BY <1>6 DEF ClaimChannel
    <3>6. messages[RowOf(t)] = 0
      BY <2>1, <2>2, <3>1
    <3> HIDE DEF RowOf
    <3>7. \A k \in Rows : /\ dstatus'[k] = dstatus[k] \/ dstatus'[k] = "sending"
                          /\ dstatus[k] # "absent" => dstatus'[k] # "absent"
      BY <3>5
    <3>8. dstatus'[RowOf(t)] = "sending"
      BY <2>1, <3>5
    <3>9. \A u \in Tasks : AtSend(u, "telegram") => RowOf(u) # RowOf(t)
      BY <3>1
    <3>10. \A u, v \in Tasks :
              AtSend(u, "telegram")' /\ AtSend(v, "telegram")'
                 /\ RowOf(u)' = RowOf(v)' => u = v
      BY <3>3, <3>9
    <3>11. \A u \in Tasks : AtSend(u, "telegram")' =>
              (dstatus[RowOf(u)] # "absent" /\ messages[RowOf(u)] = 0)'
      BY <2>1, <3>2, <3>3, <3>4, <3>6, <3>7, <3>8
    <3>12. \A u \in Tasks : AtSend(u,
        "email")' => window'[RowOf(u)'] # "expired"
      BY <3>3, <3>4
    <3>13. \A k \in Rows : k[2] = "telegram" =>
              /\ dstatus'[k] # "pending"
              /\ messages'[k] > 0 => dstatus'[k] # "absent"
      BY <3>4, <3>7
    <3>14. \A k \in Rows : messages'[k] <= 1
      BY <3>4
    <3> QED
      BY <3>10, <3>11, <3>12, <3>13, <3>14
  <2>3. CASE tchannel[t] = "email"
    <3>1. window[RowOf(t)] = "open"
      BY <1>6, <2>1, <2>3 DEF ClaimChannel, ClaimDecision,
         NeedsReview, InFlight, LostTelegram, TooLate
    <3>2. \A u \in Tasks : AtSend(u, "telegram")' =>
            AtSend(u, "telegram") /\ RowOf(u)' = RowOf(u)
      BY <1>6, <2>3 DEF ClaimChannel
    <3>3. \A u \in Tasks : AtSend(u, "email")' =>
            RowOf(u)' = RowOf(u) /\ (AtSend(u, "email") \/ RowOf(u) = RowOf(t))
      BY <1>6, <2>3 DEF ClaimChannel
    <3>4. UNCHANGED <<window, messages>>
      BY <1>6 DEF ClaimChannel, histVars
    <3>5. \A k \in Rows : k[2] = "telegram" => dstatus'[k] = dstatus[k]
      BY <1>6, <2>1, <2>3 DEF ClaimChannel
    <3>6. \A u \in Tasks : tpc[u] = "send" =>
            RowOf(u) \in Rows /\ RowOf(u)[2] = tchannel[u]
      BY RowOfTask
    <3> HIDE DEF RowOf
    <3> QED
      BY <2>1, <3>1, <3>2, <3>3, <3>4, <3>5, <3>6
  <2> QED
    BY <2>2, <2>3
<1>7. ASSUME NEW t \in Tasks, NEW acc \in BOOLEAN, NEW ans \in BOOLEAN,
             Send(t, acc, ans)
      PROVE  ChannelInv'
  <2>1. RowOf(t) \in Rows /\ RowOf(t)[2] = tchannel[t]
    BY <1>7, RowOfTask DEF Send
  <2>2. Received(RowOf(t)) = 1
    BY <1>7, <2>1 DEF Send, Received
  <2> QED
    BY <1>7, <2>1, <2>2 DEF Send, rowVars
<1>8. ASSUME NEW t \in Tasks, FinishChannel(t) PROVE ChannelInv'
  <2>1. RowOf(t) \in Rows /\ RowOf(t)[2] = tchannel[t]
    BY <1>8, RowOfTask DEF FinishChannel
  <2>2. \A k \in Rows : k[2] = "telegram" =>
          /\ dstatus'[k] # "pending"
          /\ dstatus[k] # "absent" => dstatus'[k] # "absent"
    BY <1>8, <2>1 DEF FinishChannel, FinalStatus
  <2>3. \A u \in Tasks : tpc'[u] = "send" =>
          /\ tpc[u] = "send" /\ tchannel'[u] = tchannel[u]
          /\ RowOf(u)' = RowOf(u)
    BY <1>8 DEF FinishChannel, Advance
  <2>4. \A u \in Tasks : tpc[u] = "send" =>
          RowOf(u) \in Rows /\ RowOf(u)[2] = tchannel[u]
    BY RowOfTask
  <2>5. UNCHANGED <<window, messages>>
    BY <1>8 DEF FinishChannel
  <2> HIDE DEF RowOf
  <2> QED
    BY <2>2, <2>3, <2>4, <2>5
<1>9. ASSUME NEW t \in Tasks, Conclude(t) PROVE ChannelInv'
  <2>1. PICK pc \in TaskPCs : pc # "send" /\ Leave(t, pc)
    BY <1>9 DEF Conclude, Retry, TaskPCs, FinishedTasks
  <2> QED
    BY <1>9, <2>1, LeaveKeepsChannel DEF Conclude, rowVars, histVars
<1>10. ASSUME NEW t \in Tasks, MarkExhausted(t) PROVE ChannelInv'
  <2>1. \A k \in Rows : /\ dstatus'[k] # "pending" \/ dstatus[k] = "pending"
                        /\ dstatus[k] # "absent" => dstatus'[k] # "absent"
    BY <1>10 DEF MarkExhausted
  <2>2. \A u \in Tasks : tpc'[u] = "send" =>
          /\ tpc[u] = "send" /\ tchannel'[u] = tchannel[u]
          /\ RowOf(u)' = RowOf(u)
    BY <1>10 DEF MarkExhausted, Leave
  <2>3. \A u \in Tasks : tpc[u] = "send" => RowOf(u) \in Rows
    BY RowOfTask
  <2>4. UNCHANGED <<window, messages>>
    BY <1>10 DEF MarkExhausted, histVars
  <2> HIDE DEF RowOf
  <2> QED
    BY <2>1, <2>2, <2>3, <2>4
<1>11. ASSUME NEW t \in Tasks, OtherError(t) PROVE ChannelInv'
  <2>1. PICK pc \in TaskPCs : pc # "send" /\ Leave(t, pc)
    BY <1>11 DEF OtherError, Retry, TaskPCs, FinishedTasks
  <2> QED
    BY <1>11, <2>1, LeaveKeepsChannel DEF OtherError, rowVars, histVars
<1>12. ASSUME NEW t \in Tasks, WorkerLost(t) PROVE ChannelInv'
  BY <1>12, LeaveKeepsChannel DEF WorkerLost, rowVars, histVars
<1>13. ASSUME NEW k \in Rows, ClaimGoesStale(k) PROVE ChannelInv'
  BY <1>13 DEF ClaimGoesStale, rowVars, taskVars, histVars
<1>14. ASSUME NEW k \in Rows, WindowCloses(k) PROVE ChannelInv'
  BY <1>14 DEF WindowCloses, rowVars, taskVars, histVars
<1>15. ASSUME NEW k \in Rows, WindowExpires(k) PROVE ChannelInv'
  BY <1>15 DEF WindowExpires, rowVars, taskVars, histVars
<1>16. ASSUME NEW k \in Rows, NEW action \in {"sent", "failed"},
             Reconcile(k, action)
      PROVE  ChannelInv'
  BY <1>16 DEF Reconcile, rowVars, taskVars, histVars
<1>17. ASSUME NEW c \in Changeable, NEW r \in Recipients \union {NoRecipient},
             ChangeSettings(c, r)
      PROVE  ChannelInv'
  BY <1>17 DEF ChangeSettings, rowVars, taskVars, histVars
<1>18. CASE UNCHANGED vars
  BY <1>18 DEF vars, rowVars, taskVars, histVars
<1> HIDE DEF TypeOK, ChannelInv
<1> QED
  BY <1>1, <1>2, <1>3, <1>4, <1>5, <1>6, <1>7, <1>8, <1>9, <1>10, <1>11,
     <1>12, <1>13, <1>14, <1>15, <1>16, <1>17, <1>18
  DEF Next, TaskStep, RunStep, ClaimStep, SendStep, RowStep

(* ChannelInv holds in every reachable state. *)
LEMMA ChannelInvariant == Spec => []ChannelInv
<1>1. Init => ChannelInv
  BY DEF Init, ChannelInv, AtSend
<1> QED
  BY <1>1, TypeCorrect, ChannelStep, PTL DEF Spec

(* One event reaches a Telegram chat at most once, for any number of         *)
(* publications, redeliveries, retries and overtaken workers.                *)
THEOREM TelegramOnce == Spec => []TelegramAtMostOnce
<1>1. ChannelInv => TelegramAtMostOnce
  BY DEF ChannelInv, TelegramAtMostOnce, Rows, Channels
<1> QED
  BY <1>1, ChannelInvariant, PTL

(* One event reaches a mailbox at most once: every retry carries the same    *)
(* key inside the provider's idempotency window.                             *)
THEOREM EmailOnce == Spec => []EmailAtMostOnce
<1>1. ChannelInv => EmailAtMostOnce
  BY DEF ChannelInv, EmailAtMostOnce, Rows, Channels
<1> QED
  BY <1>1, ChannelInvariant, PTL

-----------------------------------------------------------------------------
(* No step changes a delivered or reconciled row. *)
LEMMA ClosedStep ==
    TypeOK /\ [Next]_vars => \A k \in Rows : ClosedRowStep(k)
<1> SUFFICES ASSUME TypeOK, [Next]_vars, NEW q \in Rows PROVE ClosedRowStep(q)
  OBVIOUS
<1> USE DEF TypeOK, ClosedRowStep
<1>1. ASSUME NEW t \in Tasks, NEW e \in Events,
             PublishTask(t, e)
      PROVE  ClosedRowStep(q)
  BY <1>1 DEF PublishTask, rowVars
<1>2. ASSUME NEW t \in Tasks, StartTask(t) PROVE ClosedRowStep(q)
  BY <1>2 DEF StartTask, rowVars
<1>3. ASSUME NEW t \in Tasks, NoChannel(t) PROVE ClosedRowStep(q)
  BY <1>3 DEF NoChannel, rowVars
<1>4. ASSUME NEW t \in Tasks, FingerprintConflict(t) PROVE ClosedRowStep(q)
  BY <1>4 DEF FingerprintConflict, rowVars
<1>5. ASSUME NEW t \in Tasks, ClaimRefused(t) PROVE ClosedRowStep(q)
  <2>1. RowOf(t) \in Rows
    BY <1>5, RowOfTask DEF ClaimRefused
  <2>2. dstatus[RowOf(t)] \in {"sent", "failed"}
           => ClaimDecision(RowOf(t)) # "close"
    BY DEF ClaimDecision, NeedsReview
  <2>3. \/ UNCHANGED dstatus
        \/ /\ ClaimDecision(RowOf(t)) = "close"
           /\ dstatus' = [dstatus EXCEPT ![RowOf(t)] = "outcome_uncertain"]
    BY <1>5 DEF ClaimRefused
  <2> QED
    BY <2>1, <2>2, <2>3
<1>6. ASSUME NEW t \in Tasks, ClaimChannel(t) PROVE ClosedRowStep(q)
  <2>1. RowOf(t) \in Rows
    BY <1>6, RowOfTask DEF ClaimChannel
  <2> QED
    BY <1>6, <2>1 DEF ClaimChannel, ClaimDecision,
         NeedsReview, InFlight, LostTelegram, TooLate
<1>7. ASSUME NEW t \in Tasks, NEW acc \in BOOLEAN, NEW ans \in BOOLEAN,
             Send(t, acc, ans)
      PROVE  ClosedRowStep(q)
  BY <1>7 DEF Send, rowVars
<1>8. ASSUME NEW t \in Tasks, FinishChannel(t) PROVE ClosedRowStep(q)
  <2>1. RowOf(t) \in Rows
    BY <1>8, RowOfTask DEF FinishChannel
  <2> QED
    BY <1>8, <2>1 DEF FinishChannel, MayFinish
<1>9. ASSUME NEW t \in Tasks, Conclude(t) PROVE ClosedRowStep(q)
  BY <1>9 DEF Conclude, rowVars
<1>10. ASSUME NEW t \in Tasks, MarkExhausted(t) PROVE ClosedRowStep(q)
  BY <1>10 DEF MarkExhausted, rowVars
<1>11. ASSUME NEW t \in Tasks, OtherError(t) PROVE ClosedRowStep(q)
  BY <1>11 DEF OtherError, rowVars
<1>12. ASSUME NEW t \in Tasks, WorkerLost(t) PROVE ClosedRowStep(q)
  BY <1>12 DEF WorkerLost, rowVars
<1>13. ASSUME NEW k \in Rows, ClaimGoesStale(k) PROVE ClosedRowStep(q)
  BY <1>13 DEF ClaimGoesStale, rowVars
<1>14. ASSUME NEW k \in Rows, WindowCloses(k) PROVE ClosedRowStep(q)
  BY <1>14 DEF WindowCloses, rowVars
<1>15. ASSUME NEW k \in Rows, WindowExpires(k) PROVE ClosedRowStep(q)
  BY <1>15 DEF WindowExpires, rowVars
<1>16. ASSUME NEW k \in Rows, NEW action \in {"sent", "failed"},
             Reconcile(k, action)
      PROVE  ClosedRowStep(q)
  BY <1>16 DEF Reconcile, rowVars
<1>17. ASSUME NEW c \in Changeable, NEW r \in Recipients \union {NoRecipient},
             ChangeSettings(c, r)
      PROVE  ClosedRowStep(q)
  BY <1>17 DEF ChangeSettings, rowVars
<1>18. CASE UNCHANGED vars
  BY <1>18 DEF vars, rowVars
<1> QED
  BY <1>1, <1>2, <1>3, <1>4, <1>5, <1>6, <1>7, <1>8, <1>9, <1>10, <1>11,
     <1>12, <1>13, <1>14, <1>15, <1>16, <1>17, <1>18
  DEF Next, TaskStep, RunStep, ClaimStep, SendStep, RowStep

(* A SENT or FAILED channel is final: late workers, exhausted retries and a   *)
(* second reconciliation leave it alone.                                      *)
THEOREM ClosedForGood == Spec => ClosedRowsStayClosed
<1>1. TypeOK /\ [Next]_vars => [\A k \in Rows : ClosedRowStep(k)]_vars
  BY ClosedStep
<1> QED
  BY <1>1, TypeCorrect, PTL DEF Spec, ClosedRowsStayClosed
==============================================================================
