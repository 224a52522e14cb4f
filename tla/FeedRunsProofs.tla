--------------------------- MODULE FeedRunsProofs ---------------------------
(***************************************************************************)
(* The promises of the durable feed generations for any number of step     *)
(* workers, generations, uploads and faults.                               *)
(*                                                                         *)
(* IInv is the inductive invariant.  NewestInv is the mutex of the account:*)
(* only the newest generation may still own it.  SubmitInv says why an     *)
(* upload newer than the baseline is this generation's: the feed object is *)
(* its own from before the baseline is read until it no longer owns the    *)
(* account.  FlushInv and WorkInv say what a flush or a step worker may    *)
(* rely on while the run still names it as its owner.                      *)
(***************************************************************************)
EXTENDS FeedRuns, TLAPS

(* Only the newest generation owns the account.                            *)
NewestInv ==
    /\ \A g \in Runs : /\ state[g] = "absent" <=> g > made
                       /\ state[g] \in Owning => g = made
                       /\ g > made => posts[g] = 0
    /\ fpc # "idle" => made >= 1 /\ fgen = made

(* A run that has ended is nobody's.                                       *)
ClaimInv ==
    \A g \in Runs : /\ state[g] \notin Active => owner[g] = NoOwner
                    /\ owner[g] = NoOwner => ~leased[g]

(* Every upload after the baseline carries the generation.                 *)
SubmitInv ==
    \A g \in Runs :
        /\ state[g] \in {"absent", "preparing"} => pred[g] = Unread /\ bound[g] = 0
        /\ state[g] \in Submitted =>
              /\ pred[g] \in 0..latest
              /\ object = g
              /\ \A u \in 1..MaxUploads : pred[g] < u /\ u <= latest => content[u] = g

BoundInv ==
    \A g \in Runs : bound[g] # 0 => bound[g] <= latest /\ content[bound[g]] = g

(* Before the boundary the generation has submitted nothing; after it the  *)
(* run is as the flush left it for as long as the flush owns it.           *)
FlushInv ==
    /\ fpc \in {"created", "claimed", "stored", "based"} =>
          /\ posts[fgen] = 0 /\ pred[fgen] = Unread /\ bound[fgen] = 0
          /\ state[fgen] \notin Submitted
    /\ fpc = "boundary" => posts[fgen] = 0
    /\ fpc = "created" => owner[fgen] # Flush
    /\ fpc \in {"stored", "based"} => object = fgen
    /\ fpc = "based" =>
          /\ fbase <= latest
          /\ \A u \in 1..MaxUploads : fbase < u /\ u <= latest => content[u] = fgen
    /\ fpc # "idle" /\ owner[fgen] = Flush =>
          /\ bound[fgen] = 0
          /\ state[fgen] = IF fpc \in {"claimed", "stored", "based", "cleared"}
                           THEN "preparing" ELSE "submit_unknown"

(* What a worker has read is newer than the baseline while it owns the run.*)
WorkInv ==
    \A w \in Workers :
        /\ wpc[w] # "idle" => wgen[w] \in Runs
        /\ wpc[w] \in {"observed", "paged"} /\ owner[wgen[w]] = w =>
              /\ state[wgen[w]] \in Active \ {"preparing"}
              /\ pred[wgen[w]] \in 0..wobs[w]
              /\ wobs[w] <= latest
        /\ wpc[w] = "paged" /\ owner[wgen[w]] = w =>
              /\ bound[wgen[w]] # 0 /\ wobs[w] = bound[wgen[w]]
              /\ wobs[w] <= wpage[w] /\ wpage[w] <= latest

(* A settled listing names the upload of its generation.                   *)
ListInv ==
    \A l \in Listings :
        /\ lstat[l] = "pending" => lsource[l] = 0
        /\ lsource[l] # 0 => lrun[l] \in Runs /\ lsource[l] = bound[lrun[l]]

(* The POST of a generation is sent once.                                  *)
PostInv == \A g \in Runs : posts[g] <= 1

IInv ==
    /\ TypeOK /\ NewestInv /\ ClaimInv /\ SubmitInv /\ BoundInv /\ FlushInv
    /\ WorkInv /\ ListInv /\ PostInv

-----------------------------------------------------------------------------
(* The invariant holds before the first generation.                        *)
LEMMA InvariantInit == Init => IInv
<1> SUFFICES ASSUME Init PROVE IInv
  OBVIOUS
<1> USE FeedRunsAssumption DEF Init, Runs
<1>1. TypeOK
  BY DEF TypeOK, RunType, EvidenceType, ProviderType, FlushType, WorkType,
      ListingType, Active, Terminal
<1>2. NewestInv
  BY DEF NewestInv, Owning, Active
<1>3. ClaimInv
  BY DEF ClaimInv
<1>4. SubmitInv
  BY DEF SubmitInv, Submitted
<1>5. BoundInv
  BY DEF BoundInv
<1>6. FlushInv
  BY DEF FlushInv
<1>7. WorkInv
  BY DEF WorkInv
<1>8. ListInv
  BY DEF ListInv
<1>9. PostInv
  BY DEF PostInv
<1> QED
  BY <1>1, <1>2, <1>3, <1>4, <1>5, <1>6, <1>7, <1>8, <1>9 DEF IInv

(* The run g was moved on by its owner, by an operator or by a fence, or    *)
(* left alone; the other runs were left alone.                             *)
MovedOn(g) ==
    /\ \A h \in Runs : h # g => state'[h] = state[h] /\ owner'[h] = owner[h]
    /\ \/ state'[g] = state[g] /\ owner'[g] = owner[g]
       \/ /\ owner'[g] = NoOwner
          /\ state'[g] \in Submitted => state[g] \in Submitted
          /\ state'[g] = "preparing" => state[g] = "preparing"
          /\ state'[g] # "absent"

(* What _move_locked writes: the run gets its state and loses its claim. *)
LEMMA MoveEffect ==
    ASSUME RunType, NEW g \in Runs, NEW s, NEW b, Move(g, s, b)
    PROVE  /\ state'[g] = s /\ owner'[g] = NoOwner /\ ~leased'[g]
           /\ \A h \in Runs : h # g => /\ state'[h] = state[h] /\ owner'[h] = owner[h]
                                      /\ leased'[h] = leased[h]
  BY DEF RunType, Move

(* A transition inside the submitted states, or out of the active ones.    *)
LEMMA MoveMovedOn ==
    ASSUME RunType, NEW g \in Runs, NEW s, NEW b, Move(g, s, b),
           s \in Submitted => state[g] \in Submitted,
           s = "preparing" => state[g] = "preparing",
           s # "absent"
    PROVE  MovedOn(g)
  BY MoveEffect DEF MovedOn

(* _fence_invalid_owner_locked *)
LEMMA FencedMovedOn ==
    ASSUME RunType, SubmitInv, NEW g \in Runs, NEW safe, safe \in {"cancelled", "superseded"},
           state[g] \in Active, Fenced(g, safe)
    PROVE  MovedOn(g)
<1>1. NeverSubmitted(g) \/ state[g] \in Submitted
  BY DEF SubmitInv, NeverSubmitted, Active, Submitted
<1>2. CASE NeverSubmitted(g)
  <2>1. Move(g, safe, FALSE)
    BY <1>2 DEF Fenced
  <2> QED
    BY <2>1, MoveMovedOn DEF Submitted
<1>3. CASE ~NeverSubmitted(g)
  <2>1. Move(g, "outcome_uncertain", FALSE)
    BY <1>3 DEF Fenced
  <2> QED
    BY <2>1, <1>1, <1>3, MoveMovedOn
<1> QED
  BY <1>2, <1>3

(* A run that moved on within the submitted states keeps its evidence sound. *)
LEMMA SubmitStays ==
    ASSUME SubmitInv, NEW g \in Runs, MovedOn(g), UNCHANGED <<pred, object, latest, content>>,
           \A h \in Runs : bound'[h] = bound[h] \/ state'[h] \in Submitted
    PROVE  SubmitInv'
  BY DEF SubmitInv, MovedOn, Submitted

(* The flush of a run keeps its invariant when another step moves a run on. *)
LEMMA FlushStays ==
    ASSUME FlushInv, fpc # "idle" => fgen \in Runs, NEW g \in Runs, MovedOn(g),
           UNCHANGED <<flushVars, posts, pred, object, latest, content>>,
           \A h \in Runs : bound'[h] = bound[h] \/ (state[h] \in Submitted /\ owner'[h] = NoOwner)
    PROVE  FlushInv'
<1> USE FeedRunsAssumption
<1>1. CASE fpc = "idle"
  BY <1>1 DEF FlushInv, flushVars
<1>2. CASE fpc # "idle"
  <2>1. state'[fgen] \in Submitted => state[fgen] \in Submitted
    BY <1>2 DEF MovedOn
  <2>2. owner'[fgen] = Flush => /\ owner[fgen] = Flush /\ state'[fgen] = state[fgen]
                                /\ bound'[fgen] = bound[fgen]
    BY <1>2 DEF MovedOn
  <2>3. state[fgen] \notin Submitted => bound'[fgen] = bound[fgen]
    BY <1>2
  <2> QED
    BY <1>2, <2>1, <2>2, <2>3 DEF FlushInv, flushVars
<1> QED
  BY <1>1, <1>2

(* A step that takes no claim of a worker keeps what the workers remember. *)
LEMMA WorkStays ==
    ASSUME WorkInv, WorkType, EvidenceType, ProviderType,
           latest' \in Nat, latest <= latest',
           \A w \in Workers : \/ wpc'[w] = "idle"
                              \/ /\ wpc'[w] = wpc[w] /\ wgen'[w] = wgen[w]
                                 /\ wobs'[w] = wobs[w] /\ wpage'[w] = wpage[w],
           \A g \in Runs, w \in Workers :
               owner'[g] = w => /\ owner[g] = w /\ state'[g] = state[g]
                                /\ pred'[g] = pred[g] /\ bound'[g] = bound[g]
    PROVE  WorkInv'
<1> SUFFICES ASSUME NEW w \in Workers, wpc'[w] # "idle"
             PROVE  /\ wgen'[w] \in Runs
                    /\ wpc'[w] \in {"observed", "paged"} /\ owner'[wgen'[w]] = w =>
                          /\ state'[wgen'[w]] \in Active \ {"preparing"}
                          /\ pred'[wgen'[w]] \in 0..wobs'[w]
                          /\ wobs'[w] <= latest'
                    /\ wpc'[w] = "paged" /\ owner'[wgen'[w]] = w =>
                          /\ bound'[wgen'[w]] # 0 /\ wobs'[w] = bound'[wgen'[w]]
                          /\ wobs'[w] <= wpage'[w] /\ wpage'[w] <= latest'
  BY DEF WorkInv
<1>1. /\ wpc'[w] = wpc[w] /\ wgen'[w] = wgen[w]
      /\ wobs'[w] = wobs[w] /\ wpage'[w] = wpage[w] /\ wgen[w] \in Runs
  BY DEF WorkInv
<1>2. wobs[w] \in Nat /\ wpage[w] \in Nat /\ latest \in Nat
  BY DEF WorkType, ProviderType
<1> QED
  BY <1>1, <1>2 DEF WorkInv

(* The new upload carries the feed object; the others keep their content.  *)
LEMMA UploadEffect ==
    ASSUME ProviderType, StartUpload
    PROVE  /\ latest' = latest + 1 /\ latest' \in 0..MaxUploads /\ latest' # 0
           /\ content' \in [1..MaxUploads -> 0..MaxRuns]
           /\ content'[latest'] = object
           /\ \A u \in 1..MaxUploads : u <= latest => content'[u] = content[u]
<1> USE FeedRunsAssumption
<1>1. latest \in 0..MaxUploads /\ latest < MaxUploads /\ latest' = latest + 1
  BY DEF ProviderType, StartUpload
<1>2. latest' \in 1..MaxUploads /\ latest < latest'
  BY <1>1
<1>3. content' = [content EXCEPT ![latest'] = object]
  BY <1>1 DEF StartUpload
<1>4. \A u \in 1..MaxUploads : u <= latest => u # latest'
  BY <1>1, <1>2
<1>5. content' \in [1..MaxUploads -> 0..MaxRuns]
  BY <1>3 DEF ProviderType
<1>6. content'[latest'] = object /\ \A u \in 1..MaxUploads : u <= latest => content'[u] = content[u]
  BY <1>2, <1>3, <1>4 DEF ProviderType
<1> QED
  BY <1>1, <1>2, <1>5, <1>6

(* An upload started by the provider carries the stored object, which is
   that of every submitted run. *)
LEMMA UploadSubmit ==
    ASSUME ProviderType, SubmitInv, StartUpload, UNCHANGED <<state, pred, bound, object>>
    PROVE  SubmitInv'
<1> USE FeedRunsAssumption
<1>1. ASSUME NEW g \in Runs, state[g] \in Submitted
      PROVE  /\ pred[g] \in 0..latest'
             /\ \A u \in 1..MaxUploads : pred[g] < u /\ u <= latest' => content'[u] = g
  <2>1. pred[g] \in 0..latest /\ object = g
    BY <1>1 DEF SubmitInv
  <2>2. \A u \in 1..MaxUploads : u <= latest' => u <= latest \/ u = latest'
    BY UploadEffect DEF ProviderType
  <2>3. pred[g] \in 0..latest'
    BY <2>1, UploadEffect, SMTT(30) DEF ProviderType
  <2> QED
    BY <1>1, <2>1, <2>2, <2>3, UploadEffect DEF SubmitInv
<1> QED
  BY <1>1 DEF SubmitInv

(* A started upload keeps the types of the provider's record. *)
LEMMA UploadProvider ==
    ASSUME ProviderType, StartUpload, object' = object, inflight' \in [Runs -> BOOLEAN]
    PROVE  ProviderType'
<1>1. processed' \in BOOLEAN
  BY DEF StartUpload
<1> QED
  BY <1>1, UploadEffect DEF ProviderType

(* Every step keeps it. *)
LEMMA InvariantStep == IInv /\ [Next]_vars => IInv'
<1> SUFFICES ASSUME IInv, [Next]_vars PROVE IInv'
  OBVIOUS
<1> USE FeedRunsAssumption DEF IInv, TypeOK
<1>1. CASE CreateRun
  <2>1. RunType'
    BY <1>1
    DEF RunType, Active, Terminal, CreateRun, Replaceable, NeverSubmitted, Runs
  <2>2. EvidenceType'
    BY <1>1 DEF EvidenceType, CreateRun, evidenceVars
  <2>3. ProviderType'
    BY <1>1 DEF ProviderType, CreateRun, providerVars
  <2>4. FlushType'
    BY <1>1 DEF FlushType, CreateRun, Replaceable, NeverSubmitted, Runs
  <2>5. WorkType'
    BY <1>1 DEF WorkType, CreateRun, workVars
  <2>6. ListingType'
    <3>1. made' \in 0..MaxRuns
      BY <1>1 DEF CreateRun, FlushType
    <3> QED
      BY <1>1, <3>1 DEF ListingType, CreateRun
  <2>7. NewestInv'
    BY <1>1
    DEF NewestInv, ClaimInv, FlushInv, RunType, FlushType, ListingType, Owning,
        Active, CreateRun, Replaceable, NeverSubmitted, Runs
  <2>8. ClaimInv'
    <3>1. UNCHANGED <<owner, leased>>
      BY <1>1 DEF CreateRun
    <3>2. ASSUME NEW g \in Runs, state'[g] \notin Active, owner[g] # NoOwner
          PROVE  FALSE
      <4>1. state[g] \in Active
        BY <3>2 DEF ClaimInv
      <4>2. Replaceable(g)
        BY <1>1, <4>1 DEF CreateRun, Owning
      <4> QED
        BY <3>2, <4>2 DEF Replaceable
    <3> QED
      BY <3>1, <3>2 DEF ClaimInv
  <2>9. SubmitInv'
    BY <1>1
    DEF NewestInv, ClaimInv, SubmitInv, FlushInv, WorkInv, RunType,
        EvidenceType, ProviderType, FlushType, Submitted, Owning, Active,
        CreateRun, Replaceable, NeverSubmitted, evidenceVars, providerVars,
        Runs
  <2>10. BoundInv'
    BY <1>1 DEF BoundInv, CreateRun, evidenceVars, providerVars
  <2>11. FlushInv'
    BY <1>1
    DEF NewestInv, ClaimInv, SubmitInv, FlushInv, WorkInv, RunType,
        EvidenceType, ProviderType, FlushType, ListingType, Submitted, Active,
        CreateRun, Replaceable, NeverSubmitted, evidenceVars, providerVars,
        Runs
  <2>12. WorkInv'
    <3>1. UNCHANGED <<owner, pred, bound, latest, workVars>> /\ latest \in Nat
      BY <1>1 DEF CreateRun, evidenceVars, providerVars, ProviderType
    <3>2. ASSUME NEW g \in Runs, NEW w \in Workers, owner'[g] = w
          PROVE  state'[g] = state[g]
      <4>1. state[g] \in Active /\ owner[g] # NoOwner
        BY <3>1, <3>2 DEF ClaimInv
      <4>2. Replaceable(g)
        BY <1>1, <4>1 DEF CreateRun, Owning
      <4> QED
        BY <4>1, <4>2 DEF Replaceable
    <3> QED
      BY <3>1, <3>2, WorkStays DEF workVars
  <2>13. ListInv'
    BY <1>1
    DEF BoundInv, WorkInv, ListInv, EvidenceType, ListingType, CreateRun,
        Replaceable, NeverSubmitted, evidenceVars
  <2>14. PostInv'
    BY <1>1 DEF PostInv, CreateRun
  <2> QED
    BY <2>1, <2>2, <2>3, <2>4, <2>5, <2>6, <2>7, <2>8, <2>9, <2>10, <2>11,
        <2>12, <2>13, <2>14
<1>2. CASE ClaimRun
  <2>1. fgen \in Runs /\ fgen = made
    BY <1>2 DEF NewestInv, FlushType, Runs, ClaimRun
  <2>2. RunType'
    BY <1>2, <2>1
    DEF RunType, Active, Terminal, ClaimRun, EndFlush, Fenced, NeverSubmitted,
        Move, claimVars
  <2>3. EvidenceType'
    BY <1>2, <2>1 DEF EvidenceType, ClaimRun, evidenceVars
  <2>4. ProviderType'
    BY <1>2, <2>1 DEF ProviderType, ClaimRun, providerVars
  <2>5. FlushType'
    BY <1>2, <2>1
    DEF FlushType, ClaimRun, EndFlush, Fenced, NeverSubmitted, Move, Runs
  <2>6. WorkType'
    BY <1>2, <2>1 DEF WorkType, ClaimRun, workVars
  <2>7. ListingType'
    BY <1>2, <2>1 DEF ListingType, ClaimRun, listingVars
  <2>8. NewestInv'
    BY <1>2, <2>1
    DEF NewestInv, ClaimInv, FlushInv, RunType, FlushType, ListingType, Owning,
        Active, ClaimRun, EndFlush, Fenced, NeverSubmitted, Move, claimVars,
        Runs
  <2>9. ClaimInv'
    BY <1>2, <2>1
    DEF ClaimInv, NewestInv, FlushInv, RunType, Active, ClaimRun, EndFlush,
        Fenced, NeverSubmitted, Move, claimVars
  <2>10. SubmitInv'
    <3>1. \/ UNCHANGED claimVars
          \/ state' = state /\ owner' = [owner EXCEPT ![fgen] = Flush]
          \/ Fenced(fgen, "cancelled") /\ state[fgen] \in Active
      BY <1>2, <2>1 DEF ClaimRun, FlushInv, claimVars, Active
    <3>2. UNCHANGED <<pred, bound, object, latest, content>>
      BY <1>2, <2>1 DEF ClaimRun, evidenceVars, providerVars
    <3>3. CASE state' = state
      BY <3>2, <3>3 DEF SubmitInv
    <3>4. CASE Fenced(fgen, "cancelled") /\ state[fgen] \in Active
      BY <1>2, <2>1, <3>2, <3>4, FencedMovedOn, SubmitStays
    <3> QED
      BY <3>1, <3>3, <3>4 DEF claimVars
  <2>11. BoundInv'
    BY <1>2, <2>1 DEF BoundInv, ClaimRun, evidenceVars, providerVars
  <2>12. FlushInv'
    BY <1>2, <2>1
    DEF NewestInv, ClaimInv, SubmitInv, FlushInv, WorkInv, RunType,
        EvidenceType, ProviderType, FlushType, ListingType, Submitted, Active,
        ClaimRun, EndFlush, Fenced, NeverSubmitted, Move, claimVars,
        evidenceVars, providerVars, Runs
  <2>13. WorkInv'
    BY <1>2, <2>1
    DEF ClaimInv, SubmitInv, BoundInv, FlushInv, NewestInv, WorkInv, RunType,
        EvidenceType, ProviderType, WorkType, Active, ClaimRun, EndFlush,
        Fenced, NeverSubmitted, Move, claimVars, evidenceVars, providerVars,
        workVars
  <2>14. ListInv'
    BY <1>2, <2>1 DEF ListInv, ClaimRun, evidenceVars, listingVars
  <2>15. PostInv'
    BY <1>2, <2>1 DEF PostInv, ClaimRun
  <2> QED
    BY <2>2, <2>3, <2>4, <2>5, <2>6, <2>7, <2>8, <2>9, <2>10, <2>11, <2>12,
        <2>13, <2>14, <2>15
<1>3. CASE GiveUpPreparing
  <2>1. fgen \in Runs /\ fgen = made
    BY <1>3 DEF NewestInv, FlushType, Runs, GiveUpPreparing
  <2>2. RunType'
    BY <1>3, <2>1
    DEF RunType, Active, Terminal, GiveUpPreparing, EndFlush, Move, Valid,
        Fault, claimVars
  <2>3. EvidenceType'
    BY <1>3, <2>1 DEF EvidenceType, GiveUpPreparing, evidenceVars
  <2>4. ProviderType'
    BY <1>3, <2>1 DEF ProviderType, GiveUpPreparing, providerVars
  <2>5. FlushType'
    BY <1>3, <2>1
    DEF FlushType, GiveUpPreparing, EndFlush, Move, Valid, Fault, Runs
  <2>6. WorkType'
    BY <1>3, <2>1 DEF WorkType, GiveUpPreparing, workVars
  <2>7. ListingType'
    BY <1>3, <2>1
    DEF ListingType, GiveUpPreparing, EndFlush, Move, Valid, Fault, listingVars
  <2>8. NewestInv'
    BY <1>3, <2>1
    DEF NewestInv, ClaimInv, FlushInv, RunType, FlushType, ListingType, Owning,
        Active, GiveUpPreparing, EndFlush, Move, Valid, Fault, claimVars, Runs
  <2>9. ClaimInv'
    BY <1>3, <2>1
    DEF ClaimInv, NewestInv, FlushInv, RunType, Active, GiveUpPreparing,
        EndFlush, Move, Valid, Fault, claimVars
  <2>10. SubmitInv'
    <3>1. \/ UNCHANGED claimVars
          \/ /\ \E s \in {"preparing", "failed"}, b \in BOOLEAN : Move(fgen, s, b)
             /\ state[fgen] = "preparing"
      BY <1>3, <2>1 DEF GiveUpPreparing, Valid, FlushInv
    <3>2. MovedOn(fgen)
      <4>1. CASE UNCHANGED claimVars
        BY <4>1 DEF claimVars, MovedOn
      <4>2. CASE ~UNCHANGED claimVars
        BY <1>3, <2>1, <3>1, <4>2, MoveMovedOn DEF Submitted
      <4> QED
        BY <4>1, <4>2
    <3>3. UNCHANGED <<pred, bound, object, latest, content>>
      BY <1>3, <2>1 DEF GiveUpPreparing, evidenceVars, providerVars
    <3> QED
      BY <1>3, <2>1, <3>2, <3>3, SubmitStays
  <2>11. BoundInv'
    BY <1>3, <2>1 DEF BoundInv, GiveUpPreparing, evidenceVars, providerVars
  <2>12. FlushInv'
    BY <1>3, <2>1
    DEF NewestInv, ClaimInv, SubmitInv, FlushInv, WorkInv, RunType,
        EvidenceType, ProviderType, FlushType, ListingType, Submitted, Active,
        GiveUpPreparing, EndFlush, Move, Valid, Fault, claimVars, evidenceVars,
        providerVars, Runs
  <2>13. WorkInv'
    <3>1. UNCHANGED <<latest, workVars>> /\ latest \in Nat
      BY <1>3, <2>1 DEF GiveUpPreparing, providerVars, ProviderType
    <3>2. \A g \in Runs : \/ owner'[g] \in {Flush, NoOwner}
                          \/ /\ owner'[g] = owner[g] /\ state'[g] = state[g]
                             /\ pred'[g] = pred[g] /\ bound'[g] = bound[g]
      BY <1>3, <2>1
      DEF GiveUpPreparing, Move, Valid, claimVars, evidenceVars, RunType,
          EvidenceType
    <3> QED
      BY <3>1, <3>2, WorkStays DEF workVars
  <2>14. ListInv'
    BY <1>3, <2>1 DEF ListInv, GiveUpPreparing, evidenceVars, listingVars
  <2>15. PostInv'
    BY <1>3, <2>1 DEF PostInv, GiveUpPreparing
  <2> QED
    BY <2>2, <2>3, <2>4, <2>5, <2>6, <2>7, <2>8, <2>9, <2>10, <2>11, <2>12,
        <2>13, <2>14, <2>15
<1>4. CASE StoreObject
  <2>1. fgen \in Runs /\ fgen = made
    BY <1>4 DEF NewestInv, FlushType, Runs, StoreObject
  <2>2. RunType'
    BY <1>4, <2>1 DEF RunType, StoreObject, runVars
  <2>3. EvidenceType'
    BY <1>4, <2>1 DEF EvidenceType, StoreObject, runVars
  <2>4. ProviderType'
    BY <1>4, <2>1 DEF ProviderType, StoreObject, providerVars, Runs
  <2>5. FlushType'
    BY <1>4, <2>1 DEF FlushType, StoreObject, Runs
  <2>6. WorkType'
    BY <1>4, <2>1 DEF WorkType, StoreObject, workVars
  <2>7. ListingType'
    BY <1>4, <2>1 DEF ListingType, StoreObject, listingVars
  <2>8. NewestInv'
    BY <1>4, <2>1
    DEF NewestInv, ClaimInv, FlushInv, RunType, FlushType, ListingType, Owning,
        Active, StoreObject, runVars, Runs
  <2>9. ClaimInv'
    BY <1>4, <2>1 DEF ClaimInv, StoreObject, runVars
  <2>10. SubmitInv'
    <3>1. UNCHANGED <<state, pred, bound, latest, content>> /\ object' = fgen
      BY <1>4, <2>1 DEF StoreObject, runVars, providerVars
    <3>2. \A g \in Runs : state[g] \in Submitted => g = fgen
      BY <1>4, <2>1 DEF NewestInv, Owning, Submitted, Active
    <3> QED
      BY <3>1, <3>2 DEF SubmitInv
  <2>11. BoundInv'
    BY <1>4, <2>1 DEF BoundInv, StoreObject, runVars, providerVars
  <2>12. FlushInv'
    BY <1>4, <2>1
    DEF NewestInv, ClaimInv, SubmitInv, FlushInv, WorkInv, RunType,
        EvidenceType, ProviderType, FlushType, ListingType, Submitted, Active,
        StoreObject, runVars, providerVars, Runs
  <2>13. WorkInv'
    <3>1. UNCHANGED <<latest, state, owner, pred, bound, workVars>> /\ latest \in Nat
      BY <1>4, <2>1 DEF StoreObject, runVars, providerVars, ProviderType
    <3> QED
      BY <3>1, WorkStays DEF workVars
  <2>14. ListInv'
    BY <1>4, <2>1 DEF ListInv, StoreObject, runVars, listingVars
  <2>15. PostInv'
    BY <1>4, <2>1 DEF PostInv, StoreObject
  <2> QED
    BY <2>2, <2>3, <2>4, <2>5, <2>6, <2>7, <2>8, <2>9, <2>10, <2>11, <2>12,
        <2>13, <2>14, <2>15
<1>5. CASE ReadBaseline
  <2>1. fgen \in Runs /\ fgen = made
    BY <1>5 DEF NewestInv, FlushType, Runs, ReadBaseline
  <2>2. RunType'
    BY <1>5, <2>1
    DEF RunType, Active, Terminal, ReadBaseline, EndFlush, Fenced,
        NeverSubmitted, Move, claimVars
  <2>3. EvidenceType'
    BY <1>5, <2>1 DEF EvidenceType, ReadBaseline, evidenceVars
  <2>4. ProviderType'
    BY <1>5, <2>1 DEF ProviderType, ReadBaseline, providerVars
  <2>5. FlushType'
    <3>1. latest \in 0..MaxUploads
      BY DEF ProviderType
    <3>2. fbase' \in 0..MaxUploads
      BY <1>5, <2>1, <3>1 DEF FlushType, ReadBaseline, EndFlush
    <3>3. fpc' \in {"idle", "based"} /\ fgen' \in {0, fgen}
      BY <1>5, <2>1 DEF ReadBaseline, EndFlush
    <3>4. UNCHANGED <<live, made>>
      BY <1>5, <2>1 DEF ReadBaseline
    <3> QED
      BY <3>2, <3>3, <3>4 DEF FlushType
  <2>6. WorkType'
    BY <1>5, <2>1 DEF WorkType, ReadBaseline, workVars
  <2>7. ListingType'
    BY <1>5, <2>1 DEF ListingType, ReadBaseline, listingVars
  <2>8. NewestInv'
    BY <1>5, <2>1
    DEF NewestInv, ClaimInv, FlushInv, RunType, FlushType, ListingType, Owning,
        Active, ReadBaseline, EndFlush, Fenced, NeverSubmitted, Move,
        claimVars, Runs
  <2>9. ClaimInv'
    BY <1>5, <2>1
    DEF ClaimInv, NewestInv, FlushInv, RunType, Active, ReadBaseline, EndFlush,
        Fenced, NeverSubmitted, Move, claimVars
  <2>10. SubmitInv'
    <3>1. \/ UNCHANGED claimVars
          \/ state' = state /\ owner' = [owner EXCEPT ![fgen] = Flush]
          \/ Fenced(fgen, "cancelled") /\ state[fgen] \in Active
      BY <1>5, <2>1 DEF ReadBaseline, FlushInv, claimVars, Active
    <3>2. UNCHANGED <<pred, bound, object, latest, content>>
      BY <1>5, <2>1 DEF ReadBaseline, evidenceVars, providerVars
    <3>3. CASE state' = state
      BY <3>2, <3>3 DEF SubmitInv
    <3>4. CASE Fenced(fgen, "cancelled") /\ state[fgen] \in Active
      BY <1>5, <2>1, <3>2, <3>4, FencedMovedOn, SubmitStays
    <3> QED
      BY <3>1, <3>3, <3>4 DEF claimVars
  <2>11. BoundInv'
    BY <1>5, <2>1 DEF BoundInv, ReadBaseline, evidenceVars, providerVars
  <2>12. FlushInv'
    BY <1>5, <2>1, SMTT(30)
    DEF NewestInv, ClaimInv, SubmitInv, FlushInv, WorkInv, RunType,
        EvidenceType, ProviderType, FlushType, ListingType, Submitted, Active,
        ReadBaseline, EndFlush, Fenced, NeverSubmitted, Move, claimVars,
        evidenceVars, providerVars, Runs
  <2>13. WorkInv'
    BY <1>5, <2>1, SMTT(30)
    DEF ClaimInv, SubmitInv, BoundInv, FlushInv, NewestInv, WorkInv, RunType,
        EvidenceType, ProviderType, WorkType, Active, ReadBaseline, EndFlush,
        Fenced, NeverSubmitted, Move, claimVars, evidenceVars, providerVars,
        workVars
  <2>14. ListInv'
    BY <1>5, <2>1 DEF ListInv, ReadBaseline, evidenceVars, listingVars
  <2>15. PostInv'
    BY <1>5, <2>1 DEF PostInv, ReadBaseline
  <2> QED
    BY <2>2, <2>3, <2>4, <2>5, <2>6, <2>7, <2>8, <2>9, <2>10, <2>11, <2>12,
        <2>13, <2>14, <2>15
<1>6. CASE PersistBoundary
  <2>1. fgen \in Runs /\ fgen = made
    BY <1>6 DEF NewestInv, FlushType, Runs, PersistBoundary
  <2>2. RunType'
    BY <1>6, <2>1
    DEF RunType, Active, Terminal, PersistBoundary, EndFlush, Fenced,
        NeverSubmitted, Move, claimVars
  <2>3. EvidenceType'
    <3>1. fbase \in 0..MaxUploads
      BY DEF FlushType
    <3>2. pred' \in [Runs -> 0..MaxUploads \union {Unread}]
      BY <1>6, <2>1, <3>1 DEF EvidenceType, PersistBoundary, evidenceVars
    <3>3. UNCHANGED <<bound, age, negatives, reported>>
      BY <1>6, <2>1 DEF PersistBoundary, evidenceVars
    <3> QED
      BY <3>2, <3>3 DEF EvidenceType
  <2>4. ProviderType'
    BY <1>6, <2>1 DEF ProviderType, PersistBoundary, providerVars
  <2>5. FlushType'
    BY <1>6, <2>1
    DEF FlushType, PersistBoundary, EndFlush, Fenced, NeverSubmitted, Move,
        Runs
  <2>6. WorkType'
    BY <1>6, <2>1 DEF WorkType, PersistBoundary, workVars
  <2>7. ListingType'
    BY <1>6, <2>1 DEF ListingType, PersistBoundary, listingVars
  <2>8. NewestInv'
    BY <1>6, <2>1
    DEF NewestInv, ClaimInv, FlushInv, RunType, FlushType, ListingType, Owning,
        Active, PersistBoundary, EndFlush, Fenced, NeverSubmitted, Move,
        claimVars, Runs
  <2>9. ClaimInv'
    BY <1>6, <2>1
    DEF ClaimInv, NewestInv, FlushInv, RunType, Active, PersistBoundary,
        EndFlush, Fenced, NeverSubmitted, Move, claimVars
  <2>10. SubmitInv'
    <3>1. UNCHANGED <<bound, object, latest, content>>
      BY <1>6, <2>1 DEF PersistBoundary, evidenceVars, providerVars
    <3>2. CASE UNCHANGED <<claimVars, evidenceVars>>
      BY <3>1, <3>2 DEF SubmitInv, claimVars, evidenceVars
    <3>3. CASE /\ owner[fgen] = Flush /\ Fenced(fgen, "cancelled") /\ UNCHANGED evidenceVars
      <4>1. state[fgen] \in Active
        BY <1>6, <2>1, <3>3 DEF FlushInv, PersistBoundary, Active
      <4> QED
        BY <1>6, <2>1, <3>1, <3>3, <4>1, FencedMovedOn, SubmitStays
        DEF evidenceVars
    <3>4. CASE /\ state' = [state EXCEPT ![fgen] = "submit_unknown"]
               /\ pred' = [pred EXCEPT ![fgen] = fbase]
      <4>1. /\ state'[fgen] = "submit_unknown" /\ pred'[fgen] = fbase
            /\ \A h \in Runs : h # fgen => state'[h] = state[h] /\ pred'[h] = pred[h]
        BY <1>6, <2>1, <3>4 DEF RunType, EvidenceType
      <4>2. /\ fbase \in 0..latest /\ object = fgen
            /\ \A u \in 1..MaxUploads : fbase < u /\ u <= latest => content[u] = fgen
        BY <1>6, <2>1 DEF PersistBoundary, FlushInv, FlushType, ProviderType
      <4> QED
        BY <3>1, <4>1, <4>2 DEF SubmitInv
    <3> QED
      BY <1>6, <2>1, <3>2, <3>3, <3>4 DEF PersistBoundary
  <2>11. BoundInv'
    BY <1>6, <2>1 DEF BoundInv, PersistBoundary, evidenceVars, providerVars
  <2>12. FlushInv'
    <3>1. UNCHANGED <<bound, object, latest, content, posts>>
      BY <1>6, <2>1 DEF PersistBoundary, evidenceVars, providerVars
    <3>2. CASE fpc' = "idle"
      BY <3>2 DEF FlushInv
    <3>3. CASE fpc' # "idle"
      <4>1. /\ fpc' = "boundary" /\ fgen' = fgen /\ owner' = owner /\ fpc = "based"
            /\ state' = [state EXCEPT ![fgen] = "submit_unknown"]
        BY <1>6, <2>1, <3>3 DEF PersistBoundary, EndFlush
      <4>2. state'[fgen] = "submit_unknown"
        BY <1>6, <2>1, <4>1 DEF RunType
      <4> QED
        BY <3>1, <4>1, <4>2 DEF FlushInv
    <3> QED
      BY <3>2, <3>3
  <2>13. WorkInv'
    <3>1. UNCHANGED <<latest, workVars>> /\ latest \in Nat
      BY <1>6, <2>1 DEF PersistBoundary, providerVars, ProviderType
    <3>2. \A g \in Runs : \/ owner'[g] \in {Flush, NoOwner}
                          \/ /\ owner'[g] = owner[g] /\ state'[g] = state[g]
                             /\ pred'[g] = pred[g] /\ bound'[g] = bound[g]
      BY <1>6, <2>1
      DEF PersistBoundary, EndFlush, Fenced, Move, claimVars, evidenceVars,
          RunType, EvidenceType
    <3> QED
      BY <3>1, <3>2, WorkStays DEF workVars
  <2>14. ListInv'
    BY <1>6, <2>1 DEF ListInv, PersistBoundary, evidenceVars, listingVars
  <2>15. PostInv'
    BY <1>6, <2>1 DEF PostInv, PersistBoundary
  <2> QED
    BY <2>2, <2>3, <2>4, <2>5, <2>6, <2>7, <2>8, <2>9, <2>10, <2>11, <2>12,
        <2>13, <2>14, <2>15
<1>7. CASE TriggerAutoload
  <2>1. fgen \in Runs /\ fgen = made
    BY <1>7 DEF NewestInv, FlushType, Runs, TriggerAutoload
  <2>2. RunType'
    BY <1>7, <2>1 DEF RunType, TriggerAutoload, runVars
  <2>3. EvidenceType'
    BY <1>7, <2>1 DEF EvidenceType, TriggerAutoload, runVars
  <2>4. ProviderType'
    <3>1. \/ StartUpload /\ UNCHANGED inflight
          \/ UNCHANGED <<latest, content, processed>>
      BY <1>7, <2>1 DEF TriggerAutoload, providerVars
    <3>2. object' = object /\ inflight' \in [Runs -> BOOLEAN]
      BY <1>7, <2>1 DEF TriggerAutoload, providerVars, ProviderType
    <3>3. CASE StartUpload
      BY <3>2, <3>3, UploadProvider
    <3>4. CASE UNCHANGED <<latest, content, processed>>
      BY <3>2, <3>4 DEF ProviderType
    <3> QED
      BY <3>1, <3>3, <3>4
  <2>5. FlushType'
    BY <1>7, <2>1 DEF FlushType, TriggerAutoload, StartUpload, Fault, Runs
  <2>6. WorkType'
    BY <1>7, <2>1 DEF WorkType, TriggerAutoload, workVars
  <2>7. ListingType'
    BY <1>7, <2>1
    DEF ListingType, TriggerAutoload, StartUpload, Fault, listingVars
  <2>8. NewestInv'
    BY <1>7, <2>1
    DEF NewestInv, ClaimInv, FlushInv, RunType, FlushType, ListingType, Owning,
        Active, TriggerAutoload, StartUpload, Fault, runVars, Runs
  <2>9. ClaimInv'
    BY <1>7, <2>1 DEF ClaimInv, TriggerAutoload, runVars
  <2>10. SubmitInv'
    <3>1. \/ StartUpload /\ UNCHANGED inflight
          \/ UNCHANGED <<latest, content, processed>>
      BY <1>7, <2>1 DEF TriggerAutoload, providerVars
    <3>2. UNCHANGED <<state, pred, bound, object>>
      BY <1>7, <2>1 DEF TriggerAutoload, runVars
    <3>3. CASE StartUpload
      BY <3>2, <3>3, UploadSubmit
    <3>4. CASE UNCHANGED <<latest, content, processed>>
      BY <3>2, <3>4 DEF SubmitInv
    <3> QED
      BY <3>1, <3>3, <3>4
  <2>11. BoundInv'
    <3>1. \/ StartUpload /\ UNCHANGED inflight
          \/ UNCHANGED <<latest, content, processed>>
      BY <1>7, <2>1 DEF TriggerAutoload, providerVars
    <3>2. UNCHANGED bound
      BY <1>7, <2>1 DEF TriggerAutoload, runVars
    <3>3. CASE StartUpload
      <4>1. ASSUME NEW g \in Runs, bound[g] # 0
            PROVE  bound[g] <= latest' /\ content'[bound[g]] = g
        <5>1. bound[g] \in 1..MaxUploads /\ bound[g] <= latest /\ content[bound[g]] = g
          BY <4>1 DEF BoundInv, EvidenceType
        <5>2. latest \in Nat /\ latest' = latest + 1
          BY <3>3, UploadEffect DEF ProviderType
        <5>3. content'[bound[g]] = content[bound[g]]
          BY <3>3, <5>1, UploadEffect
        <5> QED
          BY <5>1, <5>2, <5>3
      <4> QED
        BY <3>2, <4>1 DEF BoundInv
    <3>4. CASE UNCHANGED <<latest, content, processed>>
      BY <3>2, <3>4 DEF BoundInv
    <3> QED
      BY <3>1, <3>3, <3>4
  <2>12. FlushInv'
    BY <1>7, <2>1
    DEF NewestInv, ClaimInv, SubmitInv, FlushInv, WorkInv, RunType,
        EvidenceType, ProviderType, FlushType, ListingType, Submitted, Active,
        TriggerAutoload, StartUpload, Fault, runVars, providerVars, Runs
  <2>13. WorkInv'
    <3>1. \/ StartUpload /\ UNCHANGED inflight
          \/ UNCHANGED <<latest, content, processed>>
      BY <1>7, <2>1 DEF TriggerAutoload, providerVars
    <3>2. latest' \in Nat /\ latest <= latest'
      BY <3>1, UploadEffect DEF ProviderType
    <3>3. UNCHANGED <<state, owner, pred, bound, workVars>>
      BY <1>7, <2>1 DEF TriggerAutoload, runVars
    <3> QED
      BY <3>2, <3>3, WorkStays DEF workVars
  <2>14. ListInv'
    BY <1>7, <2>1 DEF ListInv, TriggerAutoload, runVars, listingVars
  <2>15. PostInv'
    BY <1>7, <2>1
    DEF PostInv, FlushInv, ListingType, TriggerAutoload, StartUpload, Fault
  <2> QED
    BY <2>2, <2>3, <2>4, <2>5, <2>6, <2>7, <2>8, <2>9, <2>10, <2>11, <2>12,
        <2>13, <2>14, <2>15
<1>8. CASE RecordPost
  <2>1. fgen \in Runs /\ fgen = made
    BY <1>8 DEF NewestInv, FlushType, Runs, RecordPost
  <2>2. RunType'
    BY <1>8, <2>1
    DEF RunType, Active, Terminal, RecordPost, EndFlush, Move, Valid, claimVars
  <2>3. EvidenceType'
    BY <1>8, <2>1 DEF EvidenceType, RecordPost, evidenceVars
  <2>4. ProviderType'
    BY <1>8, <2>1 DEF ProviderType, RecordPost, providerVars
  <2>5. FlushType'
    BY <1>8, <2>1 DEF FlushType, RecordPost, EndFlush, Move, Valid, Runs
  <2>6. WorkType'
    BY <1>8, <2>1 DEF WorkType, RecordPost, workVars
  <2>7. ListingType'
    BY <1>8, <2>1 DEF ListingType, RecordPost, listingVars
  <2>8. NewestInv'
    BY <1>8, <2>1
    DEF NewestInv, ClaimInv, FlushInv, RunType, FlushType, ListingType, Owning,
        Active, RecordPost, EndFlush, Move, Valid, claimVars, Runs
  <2>9. ClaimInv'
    BY <1>8, <2>1
    DEF ClaimInv, NewestInv, FlushInv, RunType, Active, RecordPost, EndFlush,
        Move, Valid, claimVars
  <2>10. SubmitInv'
    <3>1. \/ UNCHANGED claimVars
          \/ \E s \in {"polling", "submit_unknown", "failed"}, b \in BOOLEAN :
                Move(fgen, s, b) /\ state[fgen] = "submit_unknown"
      BY <1>8, <2>1 DEF RecordPost, Valid, FlushInv
    <3>2. MovedOn(fgen)
      <4>1. CASE UNCHANGED claimVars
        BY <4>1 DEF claimVars, MovedOn
      <4>2. CASE ~UNCHANGED claimVars
        BY <1>8, <2>1, <3>1, <4>2, MoveMovedOn DEF Submitted
      <4> QED
        BY <4>1, <4>2
    <3>3. UNCHANGED <<pred, bound, object, latest, content>>
      BY <1>8, <2>1 DEF RecordPost, evidenceVars, providerVars
    <3> QED
      BY <1>8, <2>1, <3>2, <3>3, SubmitStays
  <2>11. BoundInv'
    BY <1>8, <2>1 DEF BoundInv, RecordPost, evidenceVars, providerVars
  <2>12. FlushInv'
    BY <1>8, <2>1
    DEF NewestInv, ClaimInv, SubmitInv, FlushInv, WorkInv, RunType,
        EvidenceType, ProviderType, FlushType, ListingType, Submitted, Active,
        RecordPost, EndFlush, Move, Valid, claimVars, evidenceVars,
        providerVars, Runs
  <2>13. WorkInv'
    <3>1. UNCHANGED <<latest, workVars>> /\ latest \in Nat
      BY <1>8, <2>1 DEF RecordPost, providerVars, ProviderType
    <3>2. \A g \in Runs : \/ owner'[g] \in {Flush, NoOwner}
                          \/ /\ owner'[g] = owner[g] /\ state'[g] = state[g]
                             /\ pred'[g] = pred[g] /\ bound'[g] = bound[g]
      BY <1>8, <2>1
      DEF RecordPost, Move, Valid, claimVars, evidenceVars, RunType,
          EvidenceType
    <3> QED
      BY <3>1, <3>2, WorkStays DEF workVars
  <2>14. ListInv'
    BY <1>8, <2>1 DEF ListInv, RecordPost, evidenceVars, listingVars
  <2>15. PostInv'
    BY <1>8, <2>1 DEF PostInv, RecordPost
  <2> QED
    BY <2>2, <2>3, <2>4, <2>5, <2>6, <2>7, <2>8, <2>9, <2>10, <2>11, <2>12,
        <2>13, <2>14, <2>15
<1>9. CASE ClearBoundary
  <2>1. fgen \in Runs /\ fgen = made
    BY <1>9 DEF NewestInv, FlushType, Runs, ClearBoundary
  <2>2. RunType'
    BY <1>9, <2>1
    DEF RunType, Active, Terminal, ClearBoundary, EndFlush, Move, Valid,
        claimVars
  <2>3. EvidenceType'
    BY <1>9, <2>1 DEF EvidenceType, ClearBoundary, EndFlush, Move, Valid
  <2>4. ProviderType'
    BY <1>9, <2>1 DEF ProviderType, ClearBoundary, providerVars
  <2>5. FlushType'
    BY <1>9, <2>1 DEF FlushType, ClearBoundary, EndFlush, Move, Valid, Runs
  <2>6. WorkType'
    BY <1>9, <2>1 DEF WorkType, ClearBoundary, workVars
  <2>7. ListingType'
    BY <1>9, <2>1 DEF ListingType, ClearBoundary, listingVars
  <2>8. NewestInv'
    BY <1>9, <2>1
    DEF NewestInv, ClaimInv, FlushInv, RunType, FlushType, ListingType, Owning,
        Active, ClearBoundary, EndFlush, Move, Valid, claimVars, Runs
  <2>9. ClaimInv'
    BY <1>9, <2>1
    DEF ClaimInv, NewestInv, FlushInv, RunType, Active, ClearBoundary,
        EndFlush, Move, Valid, claimVars
  <2>10. SubmitInv'
    <3>1. UNCHANGED <<bound, object, latest, content>>
      BY <1>9, <2>1 DEF ClearBoundary, evidenceVars, providerVars
    <3>2. CASE UNCHANGED <<claimVars, pred>>
      BY <3>1, <3>2 DEF SubmitInv, claimVars
    <3>3. CASE Move(fgen, "failed", FALSE) /\ UNCHANGED pred
      BY <1>9, <2>1, <3>1, <3>3, MoveMovedOn, SubmitStays DEF Submitted
    <3>4. CASE /\ state' = [state EXCEPT ![fgen] = "preparing"]
               /\ pred' = [pred EXCEPT ![fgen] = Unread] /\ owner[fgen] = Flush
      <4>1. /\ state'[fgen] = "preparing" /\ pred'[fgen] = Unread
            /\ \A h \in Runs : h # fgen => state'[h] = state[h] /\ pred'[h] = pred[h]
        BY <1>9, <2>1, <3>4 DEF RunType, EvidenceType
      <4>2. bound[fgen] = 0
        BY <1>9, <2>1, <3>4 DEF ClearBoundary, FlushInv
      <4> QED
        BY <3>1, <4>1, <4>2 DEF SubmitInv, Submitted
    <3> QED
      BY <1>9, <2>1, <3>2, <3>3, <3>4 DEF ClearBoundary
  <2>11. BoundInv'
    BY <1>9, <2>1 DEF BoundInv, ClearBoundary, providerVars
  <2>12. FlushInv'
    <3>1. CASE fpc' = "idle"
      BY <3>1 DEF FlushInv
    <3>2. CASE fpc' # "idle"
      <4>1. /\ fpc = "limited" /\ fpc' = "cleared" /\ owner[fgen] = Flush
            /\ state' = [state EXCEPT ![fgen] = "preparing"]
            /\ UNCHANGED <<owner, fgen, bound>>
        BY <1>9, <3>2 DEF ClearBoundary, EndFlush
      <4>2. state'[fgen] = "preparing" /\ bound'[fgen] = 0
        BY <2>1, <4>1 DEF RunType, FlushInv
      <4> QED
        BY <4>1, <4>2 DEF FlushInv
    <3> QED
      BY <3>1, <3>2
  <2>13. WorkInv'
    <3>1. UNCHANGED <<latest, workVars>> /\ latest \in Nat
      BY <1>9, <2>1 DEF ClearBoundary, providerVars, ProviderType
    <3>2. \A g \in Runs : \/ owner'[g] \in {Flush, NoOwner}
                          \/ /\ owner'[g] = owner[g] /\ state'[g] = state[g]
                             /\ pred'[g] = pred[g] /\ bound'[g] = bound[g]
      BY <1>9, <2>1
      DEF ClearBoundary, Move, Valid, claimVars, evidenceVars, RunType,
          EvidenceType
    <3> QED
      BY <3>1, <3>2, WorkStays DEF workVars
  <2>14. ListInv'
    BY <1>9, <2>1 DEF ListInv, ClearBoundary, listingVars
  <2>15. PostInv'
    BY <1>9, <2>1 DEF PostInv, ClearBoundary
  <2> QED
    BY <2>2, <2>3, <2>4, <2>5, <2>6, <2>7, <2>8, <2>9, <2>10, <2>11, <2>12,
        <2>13, <2>14, <2>15
<1>10. CASE FlushCrash
  <2>1. fgen \in Runs /\ fgen = made
    BY <1>10 DEF NewestInv, FlushType, Runs, FlushCrash
  <2>2. RunType'
    BY <1>10, <2>1 DEF RunType, FlushCrash, runVars
  <2>3. EvidenceType'
    BY <1>10, <2>1 DEF EvidenceType, FlushCrash, runVars
  <2>4. ProviderType'
    BY <1>10, <2>1 DEF ProviderType, FlushCrash, providerVars
  <2>5. FlushType'
    BY <1>10, <2>1 DEF FlushType, FlushCrash, EndFlush, Fault, Runs
  <2>6. WorkType'
    BY <1>10, <2>1 DEF WorkType, FlushCrash, workVars
  <2>7. ListingType'
    BY <1>10, <2>1 DEF ListingType, FlushCrash, EndFlush, Fault, listingVars
  <2>8. NewestInv'
    BY <1>10, <2>1
    DEF NewestInv, ClaimInv, FlushInv, RunType, FlushType, ListingType, Owning,
        Active, FlushCrash, EndFlush, Fault, runVars, Runs
  <2>9. ClaimInv'
    BY <1>10, <2>1 DEF ClaimInv, FlushCrash, runVars
  <2>10. SubmitInv'
    BY <1>10, <2>1 DEF SubmitInv, FlushCrash, runVars, providerVars
  <2>11. BoundInv'
    BY <1>10, <2>1 DEF BoundInv, FlushCrash, runVars, providerVars
  <2>12. FlushInv'
    BY <1>10, <2>1
    DEF NewestInv, ClaimInv, SubmitInv, FlushInv, WorkInv, RunType,
        EvidenceType, ProviderType, FlushType, ListingType, Submitted, Active,
        FlushCrash, EndFlush, Fault, runVars, providerVars, Runs
  <2>13. WorkInv'
    BY <1>10, <2>1 DEF WorkInv, FlushCrash, runVars, providerVars, workVars
  <2>14. ListInv'
    BY <1>10, <2>1 DEF ListInv, FlushCrash, runVars, listingVars
  <2>15. PostInv'
    BY <1>10, <2>1 DEF PostInv, FlushCrash
  <2> QED
    BY <2>2, <2>3, <2>4, <2>5, <2>6, <2>7, <2>8, <2>9, <2>10, <2>11, <2>12,
        <2>13, <2>14, <2>15
<1>11. ASSUME NEW g \in Runs, LatePost(g)
      PROVE  IInv'
  <2>1. RunType'
    BY <1>11 DEF RunType, LatePost, runVars
  <2>2. EvidenceType'
    BY <1>11 DEF EvidenceType, LatePost, runVars
  <2>3. ProviderType'
    <3>1. StartUpload /\ object' = object
      BY <1>11 DEF LatePost
    <3>2. inflight' \in [Runs -> BOOLEAN]
      BY <1>11 DEF LatePost, ProviderType
    <3> QED
      BY <3>1, <3>2, UploadProvider
  <2>4. FlushType'
    BY <1>11 DEF FlushType, LatePost, flushVars
  <2>5. WorkType'
    BY <1>11 DEF WorkType, LatePost, workVars
  <2>6. ListingType'
    BY <1>11 DEF ListingType, LatePost, listingVars
  <2>7. NewestInv'
    BY <1>11 DEF NewestInv, LatePost, runVars, flushVars
  <2>8. ClaimInv'
    BY <1>11 DEF ClaimInv, LatePost, runVars
  <2>9. SubmitInv'
    <3>1. StartUpload /\ UNCHANGED <<state, pred, bound, object>>
      BY <1>11 DEF LatePost, runVars
    <3> QED
      BY <3>1, UploadSubmit
  <2>10. BoundInv'
    BY <1>11
    DEF SubmitInv, BoundInv, WorkInv, ClaimInv, EvidenceType, ProviderType,
        LatePost, StartUpload, runVars
  <2>11. FlushInv'
    BY <1>11
    DEF NewestInv, ClaimInv, SubmitInv, FlushInv, WorkInv, RunType,
        EvidenceType, ProviderType, FlushType, ListingType, Submitted, Active,
        LatePost, StartUpload, runVars, flushVars, Runs
  <2>12. WorkInv'
    <3>1. latest' \in Nat /\ latest <= latest'
      BY <1>11, UploadEffect DEF LatePost, ProviderType, providerVars
    <3>2. UNCHANGED <<state, owner, pred, bound, workVars>>
      BY <1>11 DEF LatePost, runVars
    <3> QED
      BY <3>1, <3>2, WorkStays DEF workVars
  <2>13. ListInv'
    BY <1>11 DEF ListInv, LatePost, runVars, listingVars
  <2>14. PostInv'
    BY <1>11 DEF PostInv, LatePost
  <2> QED
    BY <2>1, <2>2, <2>3, <2>4, <2>5, <2>6, <2>7, <2>8, <2>9, <2>10, <2>11,
        <2>12, <2>13, <2>14
<1>12. ASSUME NEW g \in Runs, LostPost(g)
      PROVE  IInv'
  <2>1. RunType'
    BY <1>12 DEF RunType, LostPost, runVars
  <2>2. EvidenceType'
    BY <1>12 DEF EvidenceType, LostPost, runVars
  <2>3. ProviderType'
    BY <1>12 DEF ProviderType, LostPost, Runs
  <2>4. FlushType'
    BY <1>12 DEF FlushType, LostPost, flushVars
  <2>5. WorkType'
    BY <1>12 DEF WorkType, LostPost, workVars
  <2>6. ListingType'
    BY <1>12 DEF ListingType, LostPost, listingVars
  <2>7. NewestInv'
    BY <1>12 DEF NewestInv, LostPost, runVars, flushVars
  <2>8. ClaimInv'
    BY <1>12 DEF ClaimInv, LostPost, runVars
  <2>9. SubmitInv'
    BY <1>12 DEF SubmitInv, LostPost, runVars
  <2>10. BoundInv'
    BY <1>12 DEF BoundInv, LostPost, runVars
  <2>11. FlushInv'
    BY <1>12 DEF FlushInv, LostPost, runVars, flushVars
  <2>12. WorkInv'
    BY <1>12 DEF WorkInv, LostPost, runVars, workVars
  <2>13. ListInv'
    BY <1>12 DEF ListInv, LostPost, runVars, listingVars
  <2>14. PostInv'
    BY <1>12 DEF PostInv, LostPost
  <2> QED
    BY <2>1, <2>2, <2>3, <2>4, <2>5, <2>6, <2>7, <2>8, <2>9, <2>10, <2>11,
        <2>12, <2>13, <2>14
<1>13. ASSUME NEW g \in Runs, BecomeDue(g)
      PROVE  IInv'
  <2>1. RunType'
    BY <1>13 DEF RunType, Active, Terminal, BecomeDue
  <2>2. EvidenceType'
    BY <1>13 DEF EvidenceType, BecomeDue, evidenceVars
  <2>3. ProviderType'
    BY <1>13 DEF ProviderType, BecomeDue, providerVars
  <2>4. FlushType'
    BY <1>13 DEF FlushType, BecomeDue, flushVars
  <2>5. WorkType'
    BY <1>13 DEF WorkType, BecomeDue, workVars
  <2>6. ListingType'
    BY <1>13 DEF ListingType, BecomeDue, listingVars
  <2>7. NewestInv'
    BY <1>13 DEF NewestInv, BecomeDue, flushVars
  <2>8. ClaimInv'
    BY <1>13 DEF ClaimInv, BecomeDue
  <2>9. SubmitInv'
    BY <1>13 DEF SubmitInv, BecomeDue, evidenceVars, providerVars
  <2>10. BoundInv'
    BY <1>13 DEF BoundInv, BecomeDue, evidenceVars, providerVars
  <2>11. FlushInv'
    BY <1>13 DEF FlushInv, BecomeDue, evidenceVars, providerVars, flushVars
  <2>12. WorkInv'
    BY <1>13 DEF WorkInv, BecomeDue, evidenceVars, providerVars, workVars
  <2>13. ListInv'
    BY <1>13 DEF ListInv, BecomeDue, evidenceVars, listingVars
  <2>14. PostInv'
    BY <1>13 DEF PostInv, BecomeDue
  <2> QED
    BY <2>1, <2>2, <2>3, <2>4, <2>5, <2>6, <2>7, <2>8, <2>9, <2>10, <2>11,
        <2>12, <2>13, <2>14
<1>14. ASSUME NEW g \in Runs, Age(g)
      PROVE  IInv'
  <2>1. RunType'
    BY <1>14 DEF RunType, Age, claimVars
  <2>2. EvidenceType'
    BY <1>14 DEF EvidenceType, Age
  <2>3. ProviderType'
    BY <1>14 DEF ProviderType, Age, providerVars
  <2>4. FlushType'
    BY <1>14 DEF FlushType, Age, flushVars
  <2>5. WorkType'
    BY <1>14 DEF WorkType, Age, workVars
  <2>6. ListingType'
    BY <1>14 DEF ListingType, Age, listingVars
  <2>7. NewestInv'
    BY <1>14 DEF NewestInv, Age, claimVars, flushVars
  <2>8. ClaimInv'
    BY <1>14 DEF ClaimInv, Age, claimVars
  <2>9. SubmitInv'
    BY <1>14 DEF SubmitInv, Age, claimVars, providerVars
  <2>10. BoundInv'
    BY <1>14 DEF BoundInv, Age, providerVars
  <2>11. FlushInv'
    BY <1>14 DEF FlushInv, Age, claimVars, providerVars, flushVars
  <2>12. WorkInv'
    BY <1>14 DEF WorkInv, Age, claimVars, providerVars, workVars
  <2>13. ListInv'
    BY <1>14 DEF ListInv, Age, listingVars
  <2>14. PostInv'
    BY <1>14 DEF PostInv, Age
  <2> QED
    BY <2>1, <2>2, <2>3, <2>4, <2>5, <2>6, <2>7, <2>8, <2>9, <2>10, <2>11,
        <2>12, <2>13, <2>14
<1>15. ASSUME NEW g \in Runs, LeaseExpires(g)
      PROVE  IInv'
  <2>1. RunType'
    BY <1>15 DEF RunType, Active, Terminal, LeaseExpires
  <2>2. EvidenceType'
    BY <1>15 DEF EvidenceType, LeaseExpires, evidenceVars
  <2>3. ProviderType'
    BY <1>15 DEF ProviderType, LeaseExpires, providerVars
  <2>4. FlushType'
    BY <1>15 DEF FlushType, LeaseExpires, flushVars
  <2>5. WorkType'
    BY <1>15 DEF WorkType, LeaseExpires, workVars
  <2>6. ListingType'
    BY <1>15 DEF ListingType, LeaseExpires, listingVars
  <2>7. NewestInv'
    BY <1>15 DEF NewestInv, LeaseExpires, flushVars
  <2>8. ClaimInv'
    BY <1>15 DEF ClaimInv, NewestInv, FlushInv, RunType, Active, LeaseExpires
  <2>9. SubmitInv'
    BY <1>15 DEF SubmitInv, LeaseExpires, evidenceVars, providerVars
  <2>10. BoundInv'
    BY <1>15 DEF BoundInv, LeaseExpires, evidenceVars, providerVars
  <2>11. FlushInv'
    BY <1>15 DEF FlushInv, LeaseExpires, evidenceVars, providerVars, flushVars
  <2>12. WorkInv'
    BY <1>15 DEF WorkInv, LeaseExpires, evidenceVars, providerVars, workVars
  <2>13. ListInv'
    BY <1>15 DEF ListInv, LeaseExpires, evidenceVars, listingVars
  <2>14. PostInv'
    BY <1>15 DEF PostInv, LeaseExpires
  <2> QED
    BY <2>1, <2>2, <2>3, <2>4, <2>5, <2>6, <2>7, <2>8, <2>9, <2>10, <2>11,
        <2>12, <2>13, <2>14
<1>16. ASSUME NEW g \in Runs, LeaseOverrun(g)
      PROVE  IInv'
  <2>1. RunType'
    BY <1>16 DEF RunType, Active, Terminal, LeaseOverrun, Fault
  <2>2. EvidenceType'
    BY <1>16 DEF EvidenceType, LeaseOverrun, evidenceVars
  <2>3. ProviderType'
    BY <1>16 DEF ProviderType, LeaseOverrun, providerVars
  <2>4. FlushType'
    BY <1>16 DEF FlushType, LeaseOverrun, flushVars
  <2>5. WorkType'
    BY <1>16 DEF WorkType, LeaseOverrun, workVars
  <2>6. ListingType'
    BY <1>16 DEF ListingType, LeaseOverrun, Fault, listingVars
  <2>7. NewestInv'
    BY <1>16 DEF NewestInv, LeaseOverrun, flushVars
  <2>8. ClaimInv'
    BY <1>16
    DEF ClaimInv, NewestInv, FlushInv, RunType, Active, LeaseOverrun, Fault
  <2>9. SubmitInv'
    BY <1>16 DEF SubmitInv, LeaseOverrun, evidenceVars, providerVars
  <2>10. BoundInv'
    BY <1>16 DEF BoundInv, LeaseOverrun, evidenceVars, providerVars
  <2>11. FlushInv'
    BY <1>16 DEF FlushInv, LeaseOverrun, evidenceVars, providerVars, flushVars
  <2>12. WorkInv'
    BY <1>16 DEF WorkInv, LeaseOverrun, evidenceVars, providerVars, workVars
  <2>13. ListInv'
    BY <1>16 DEF ListInv, LeaseOverrun, evidenceVars, listingVars
  <2>14. PostInv'
    BY <1>16 DEF PostInv, LeaseOverrun
  <2> QED
    BY <2>1, <2>2, <2>3, <2>4, <2>5, <2>6, <2>7, <2>8, <2>9, <2>10, <2>11,
        <2>12, <2>13, <2>14
<1>17. CASE ScheduledUpload
  <2>1. RunType'
    BY <1>17 DEF RunType, ScheduledUpload, runVars
  <2>2. EvidenceType'
    BY <1>17 DEF EvidenceType, ScheduledUpload, runVars
  <2>3. ProviderType'
    <3>1. StartUpload /\ object' = object
      BY <1>17 DEF ScheduledUpload
    <3>2. inflight' \in [Runs -> BOOLEAN]
      BY <1>17 DEF ScheduledUpload, ProviderType
    <3> QED
      BY <3>1, <3>2, UploadProvider
  <2>4. FlushType'
    BY <1>17 DEF FlushType, ScheduledUpload, flushVars
  <2>5. WorkType'
    BY <1>17 DEF WorkType, ScheduledUpload, workVars
  <2>6. ListingType'
    BY <1>17 DEF ListingType, ScheduledUpload, StartUpload, Fault, listingVars
  <2>7. NewestInv'
    BY <1>17 DEF NewestInv, ScheduledUpload, runVars, flushVars
  <2>8. ClaimInv'
    BY <1>17 DEF ClaimInv, ScheduledUpload, runVars
  <2>9. SubmitInv'
    <3>1. StartUpload /\ UNCHANGED <<state, pred, bound, object>>
      BY <1>17 DEF ScheduledUpload, runVars
    <3> QED
      BY <3>1, UploadSubmit
  <2>10. BoundInv'
    BY <1>17
    DEF SubmitInv, BoundInv, WorkInv, ClaimInv, EvidenceType, ProviderType,
        ScheduledUpload, StartUpload, Fault, runVars
  <2>11. FlushInv'
    BY <1>17
    DEF NewestInv, ClaimInv, SubmitInv, FlushInv, WorkInv, RunType,
        EvidenceType, ProviderType, FlushType, ListingType, Submitted, Active,
        ScheduledUpload, StartUpload, Fault, runVars, flushVars, Runs
  <2>12. WorkInv'
    <3>1. latest' \in Nat /\ latest <= latest'
      BY <1>17, UploadEffect DEF ScheduledUpload, ProviderType, providerVars
    <3>2. UNCHANGED <<state, owner, pred, bound, workVars>>
      BY <1>17 DEF ScheduledUpload, runVars
    <3> QED
      BY <3>1, <3>2, WorkStays DEF workVars
  <2>13. ListInv'
    BY <1>17 DEF ListInv, ScheduledUpload, runVars, listingVars
  <2>14. PostInv'
    BY <1>17 DEF PostInv, ScheduledUpload
  <2> QED
    BY <2>1, <2>2, <2>3, <2>4, <2>5, <2>6, <2>7, <2>8, <2>9, <2>10, <2>11,
        <2>12, <2>13, <2>14
<1>18. CASE ProviderFinishes
  <2>1. RunType'
    BY <1>18 DEF RunType, ProviderFinishes, runVars
  <2>2. EvidenceType'
    BY <1>18 DEF EvidenceType, ProviderFinishes, runVars
  <2>3. ProviderType'
    BY <1>18 DEF ProviderType, ProviderFinishes, Runs
  <2>4. FlushType'
    BY <1>18 DEF FlushType, ProviderFinishes, flushVars
  <2>5. WorkType'
    BY <1>18 DEF WorkType, ProviderFinishes, workVars
  <2>6. ListingType'
    BY <1>18 DEF ListingType, ProviderFinishes, listingVars
  <2>7. NewestInv'
    BY <1>18 DEF NewestInv, ProviderFinishes, runVars, flushVars
  <2>8. ClaimInv'
    BY <1>18 DEF ClaimInv, ProviderFinishes, runVars
  <2>9. SubmitInv'
    BY <1>18 DEF SubmitInv, ProviderFinishes, runVars
  <2>10. BoundInv'
    BY <1>18 DEF BoundInv, ProviderFinishes, runVars
  <2>11. FlushInv'
    BY <1>18 DEF FlushInv, ProviderFinishes, runVars, flushVars
  <2>12. WorkInv'
    BY <1>18 DEF WorkInv, ProviderFinishes, runVars, workVars
  <2>13. ListInv'
    BY <1>18 DEF ListInv, ProviderFinishes, runVars, listingVars
  <2>14. PostInv'
    BY <1>18 DEF PostInv, ProviderFinishes
  <2> QED
    BY <2>1, <2>2, <2>3, <2>4, <2>5, <2>6, <2>7, <2>8, <2>9, <2>10, <2>11,
        <2>12, <2>13, <2>14
<1>19. ASSUME NEW w \in Workers, FailOrphan(w)
      PROVE  IInv'
  <2>1. wgen[w] \in Runs
    BY <1>19 DEF WorkInv, FailOrphan
  <2>2. RunType'
    BY <1>19, <2>1
    DEF RunType, Active, Terminal, FailOrphan, Move, Valid, EndStep, claimVars
  <2>3. EvidenceType'
    BY <1>19, <2>1 DEF EvidenceType, FailOrphan, evidenceVars
  <2>4. ProviderType'
    BY <1>19, <2>1 DEF ProviderType, FailOrphan, providerVars
  <2>5. FlushType'
    BY <1>19, <2>1 DEF FlushType, FailOrphan, flushVars
  <2>6. WorkType'
    BY <1>19, <2>1 DEF WorkType, FailOrphan, Move, Valid, EndStep, Runs
  <2>7. ListingType'
    BY <1>19, <2>1 DEF ListingType, FailOrphan, listingVars
  <2>8. NewestInv'
    BY <1>19, <2>1, SMTT(30)
    DEF NewestInv, ClaimInv, FlushInv, RunType, FlushType, ListingType, Owning,
        Active, FailOrphan, Move, Valid, EndStep, claimVars, flushVars, Runs
  <2>9. ClaimInv'
    BY <1>19, <2>1
    DEF ClaimInv, NewestInv, FlushInv, RunType, Active, FailOrphan, Move,
        Valid, EndStep, claimVars
  <2>10. SubmitInv'
    <3>1. UNCHANGED claimVars \/ Move(wgen[w], "failed", FALSE)
      BY <1>19, <2>1 DEF FailOrphan
    <3>2. MovedOn(wgen[w])
      BY <1>19, <2>1, <3>1, MoveMovedOn DEF claimVars, MovedOn, Submitted
    <3>3. UNCHANGED <<pred, object, latest, content>>
      BY <1>19, <2>1 DEF FailOrphan, evidenceVars, providerVars
    <3>4. \A h \in Runs : bound'[h] = bound[h] \/ state'[h] \in Submitted
      BY <1>19, <2>1, <3>1, MoveEffect
      DEF FailOrphan, evidenceVars, EvidenceType, Submitted
    <3> QED
      BY <1>19, <2>1, <3>2, <3>3, <3>4, SubmitStays
  <2>11. BoundInv'
    BY <1>19, <2>1 DEF BoundInv, FailOrphan, evidenceVars, providerVars
  <2>12. FlushInv'
    <3>1. UNCHANGED claimVars \/ Move(wgen[w], "failed", FALSE)
      BY <1>19, <2>1 DEF FailOrphan
    <3>2. MovedOn(wgen[w])
      BY <1>19, <2>1, <3>1, MoveMovedOn DEF claimVars, MovedOn, Submitted
    <3>3. UNCHANGED <<flushVars, posts, pred, object, latest, content>>
      BY <1>19, <2>1 DEF FailOrphan, evidenceVars, providerVars
    <3>4. \A h \in Runs : \/ bound'[h] = bound[h]
                          \/ state[h] \in Submitted /\ owner'[h] = NoOwner
      BY <1>19, <2>1, <3>1, MoveEffect
      DEF FailOrphan, evidenceVars, EvidenceType, Submitted
    <3>5. fpc # "idle" => fgen \in Runs
      BY DEF NewestInv, FlushType, Runs
    <3> QED
      BY <1>19, <2>1, <3>2, <3>3, <3>4, <3>5, FlushStays
  <2>13. WorkInv'
    <3>1. UNCHANGED claimVars \/ Move(wgen[w], "failed", FALSE)
      BY <1>19, <2>1 DEF FailOrphan
    <3>2. MovedOn(wgen[w])
      BY <1>19, <2>1, <3>1, MoveMovedOn DEF claimVars, MovedOn, Submitted
    <3>3. latest' = latest /\ latest \in Nat
      BY <1>19, <2>1 DEF FailOrphan, providerVars, ProviderType
    <3>4. \A v \in Workers : \/ wpc'[v] = "idle"
                            \/ /\ wpc'[v] = wpc[v] /\ wgen'[v] = wgen[v]
                               /\ wobs'[v] = wobs[v] /\ wpage'[v] = wpage[v]
      BY <1>19, <2>1 DEF FailOrphan, EndStep, WorkType
    <3>5. pred' = pred /\ (\A g \in Runs : bound'[g] = bound[g] \/ owner'[g] = NoOwner)
      BY <1>19, <2>1, <3>1, MoveEffect
      DEF FailOrphan, evidenceVars, EvidenceType
    <3>6. \A g \in Runs, v \in Workers :
              owner'[g] = v => /\ owner[g] = v /\ state'[g] = state[g]
                               /\ pred'[g] = pred[g] /\ bound'[g] = bound[g]
      BY <1>19, <2>1, <3>2, <3>5 DEF MovedOn
    <3> QED
      BY <3>3, <3>4, <3>6, WorkStays
  <2>14. ListInv'
    BY <1>19, <2>1 DEF ListInv, FailOrphan, evidenceVars, listingVars
  <2>15. PostInv'
    BY <1>19, <2>1 DEF PostInv, FailOrphan
  <2> QED
    BY <2>2, <2>3, <2>4, <2>5, <2>6, <2>7, <2>8, <2>9, <2>10, <2>11, <2>12,
        <2>13, <2>14, <2>15
<1>20. ASSUME NEW w \in Workers, StepStale(w)
      PROVE  IInv'
  <2>1. wgen[w] \in Runs
    BY <1>20 DEF WorkInv, StepStale
  <2>2. RunType'
    BY <1>20, <2>1 DEF RunType, StepStale, runVars
  <2>3. EvidenceType'
    BY <1>20, <2>1 DEF EvidenceType, StepStale, runVars
  <2>4. ProviderType'
    BY <1>20, <2>1 DEF ProviderType, StepStale, providerVars
  <2>5. FlushType'
    BY <1>20, <2>1 DEF FlushType, StepStale, flushVars
  <2>6. WorkType'
    BY <1>20, <2>1 DEF WorkType, StepStale, EndStep, Runs
  <2>7. ListingType'
    BY <1>20, <2>1 DEF ListingType, StepStale, listingVars
  <2>8. NewestInv'
    BY <1>20, <2>1 DEF NewestInv, StepStale, runVars, flushVars
  <2>9. ClaimInv'
    BY <1>20, <2>1 DEF ClaimInv, StepStale, runVars
  <2>10. SubmitInv'
    BY <1>20, <2>1 DEF SubmitInv, StepStale, runVars, providerVars
  <2>11. BoundInv'
    BY <1>20, <2>1 DEF BoundInv, StepStale, runVars, providerVars
  <2>12. FlushInv'
    BY <1>20, <2>1 DEF FlushInv, StepStale, runVars, providerVars, flushVars
  <2>13. WorkInv'
    <3>1. UNCHANGED <<latest, state, owner, pred, bound>> /\ latest \in Nat
      BY <1>20, <2>1 DEF StepStale, runVars, providerVars, ProviderType
    <3>2. \A v \in Workers : \/ wpc'[v] = "idle"
                            \/ /\ wpc'[v] = wpc[v] /\ wgen'[v] = wgen[v]
                               /\ wobs'[v] = wobs[v] /\ wpage'[v] = wpage[v]
      BY <1>20, <2>1 DEF StepStale, EndStep, WorkType
    <3> QED
      BY <3>1, <3>2, WorkStays
  <2>14. ListInv'
    BY <1>20, <2>1 DEF ListInv, StepStale, runVars, listingVars
  <2>15. PostInv'
    BY <1>20, <2>1 DEF PostInv, StepStale
  <2> QED
    BY <2>2, <2>3, <2>4, <2>5, <2>6, <2>7, <2>8, <2>9, <2>10, <2>11, <2>12,
        <2>13, <2>14, <2>15
<1>21. ASSUME NEW w \in Workers, Observe(w)
      PROVE  IInv'
  <2>1. wgen[w] \in Runs
    BY <1>21 DEF WorkInv, Observe
  <2>2. RunType'
    BY <1>21, <2>1 DEF RunType, Observe, runVars
  <2>3. EvidenceType'
    BY <1>21, <2>1 DEF EvidenceType, Observe, runVars
  <2>4. ProviderType'
    BY <1>21, <2>1 DEF ProviderType, Observe, providerVars
  <2>5. FlushType'
    BY <1>21, <2>1 DEF FlushType, Observe, flushVars
  <2>6. WorkType'
    <3>1. latest \in 0..MaxUploads
      BY DEF ProviderType
    <3> QED
      BY <1>21, <2>1, <3>1 DEF WorkType, Observe
  <2>7. ListingType'
    BY <1>21, <2>1 DEF ListingType, Observe, listingVars
  <2>8. NewestInv'
    BY <1>21, <2>1 DEF NewestInv, Observe, runVars, flushVars
  <2>9. ClaimInv'
    BY <1>21, <2>1 DEF ClaimInv, Observe, runVars
  <2>10. SubmitInv'
    BY <1>21, <2>1 DEF SubmitInv, Observe, runVars, providerVars
  <2>11. BoundInv'
    BY <1>21, <2>1 DEF BoundInv, Observe, runVars, providerVars
  <2>12. FlushInv'
    BY <1>21, <2>1 DEF FlushInv, Observe, runVars, providerVars, flushVars
  <2>13. WorkInv'
    <3>1. UNCHANGED <<latest, state, owner, leased, pred, bound, wgen, wpage>>
      BY <1>21, <2>1 DEF Observe, runVars, providerVars
    <3>2. /\ wpc' = [wpc EXCEPT ![w] = "observed"] /\ wobs' = [wobs EXCEPT ![w] = latest]
          /\ state[wgen[w]] \in Active \ {"preparing"}
      BY <1>21, <2>1 DEF Observe
    <3>3. pred[wgen[w]] \in 0..latest /\ latest \in 0..MaxUploads
      BY <1>21, <2>1, <3>2 DEF SubmitInv, Submitted, Active, ProviderType
    <3>4. ASSUME NEW v \in Workers, v # w
          PROVE  wpc'[v] = wpc[v] /\ wobs'[v] = wobs[v]
      BY <3>2, <3>4 DEF WorkType
    <3>5. wpc'[w] = "observed" /\ wobs'[w] = latest
      BY <3>2 DEF WorkType
    <3> QED
      BY <1>21, <2>1, <3>1, <3>2, <3>3, <3>4, <3>5 DEF WorkInv
  <2>14. ListInv'
    BY <1>21, <2>1 DEF ListInv, Observe, runVars, listingVars
  <2>15. PostInv'
    BY <1>21, <2>1 DEF PostInv, Observe
  <2> QED
    BY <2>2, <2>3, <2>4, <2>5, <2>6, <2>7, <2>8, <2>9, <2>10, <2>11, <2>12,
        <2>13, <2>14, <2>15
<1>22. ASSUME NEW w \in Workers, Overdue(w)
      PROVE  IInv'
  <2>1. wgen[w] \in Runs
    BY <1>22 DEF WorkInv, Overdue
  <2>2. RunType'
    BY <1>22, <2>1
    DEF RunType, Active, Terminal, Overdue, Move, Valid, EndStep, PastDeadline
  <2>3. EvidenceType'
    BY <1>22, <2>1 DEF EvidenceType, Overdue, evidenceVars
  <2>4. ProviderType'
    BY <1>22, <2>1 DEF ProviderType, Overdue, providerVars
  <2>5. FlushType'
    BY <1>22, <2>1 DEF FlushType, Overdue, flushVars
  <2>6. WorkType'
    BY <1>22, <2>1
    DEF WorkType, Overdue, Move, Valid, EndStep, PastDeadline, Runs
  <2>7. ListingType'
    BY <1>22, <2>1 DEF ListingType, Overdue, listingVars
  <2>8. NewestInv'
    BY <1>22, <2>1
    DEF NewestInv, ClaimInv, FlushInv, RunType, FlushType, ListingType, Owning,
        Active, Overdue, Move, Valid, EndStep, PastDeadline, flushVars, Runs
  <2>9. ClaimInv'
    BY <1>22, <2>1
    DEF ClaimInv, NewestInv, FlushInv, RunType, Active, Overdue, Move, Valid,
        EndStep, PastDeadline
  <2>10. SubmitInv'
    <3>1. Move(wgen[w], "outcome_uncertain", FALSE) /\ state[wgen[w]] \in Submitted
      BY <1>22, <2>1 DEF Overdue, PastDeadline, Submitted
    <3>2. MovedOn(wgen[w])
      BY <1>22, <2>1, <3>1, MoveMovedOn DEF claimVars, MovedOn, Submitted
    <3>3. UNCHANGED <<pred, object, latest, content>>
      BY <1>22, <2>1 DEF Overdue, evidenceVars, providerVars
    <3>4. \A h \in Runs : bound'[h] = bound[h] \/ state'[h] \in Submitted
      BY <1>22, <2>1, <3>1, MoveEffect
      DEF Overdue, evidenceVars, EvidenceType, Submitted
    <3> QED
      BY <1>22, <2>1, <3>2, <3>3, <3>4, SubmitStays
  <2>11. BoundInv'
    BY <1>22, <2>1 DEF BoundInv, Overdue, evidenceVars, providerVars
  <2>12. FlushInv'
    <3>1. Move(wgen[w], "outcome_uncertain", FALSE) /\ state[wgen[w]] \in Submitted
      BY <1>22, <2>1 DEF Overdue, PastDeadline, Submitted
    <3>2. MovedOn(wgen[w])
      BY <1>22, <2>1, <3>1, MoveMovedOn DEF claimVars, MovedOn, Submitted
    <3>3. UNCHANGED <<flushVars, posts, pred, object, latest, content>>
      BY <1>22, <2>1 DEF Overdue, evidenceVars, providerVars
    <3>4. \A h \in Runs : \/ bound'[h] = bound[h]
                          \/ state[h] \in Submitted /\ owner'[h] = NoOwner
      BY <1>22, <2>1, <3>1, MoveEffect
      DEF Overdue, evidenceVars, EvidenceType, Submitted
    <3>5. fpc # "idle" => fgen \in Runs
      BY DEF NewestInv, FlushType, Runs
    <3> QED
      BY <1>22, <2>1, <3>2, <3>3, <3>4, <3>5, FlushStays
  <2>13. WorkInv'
    <3>1. Move(wgen[w], "outcome_uncertain", FALSE) /\ state[wgen[w]] \in Submitted
      BY <1>22, <2>1 DEF Overdue, PastDeadline, Submitted
    <3>2. MovedOn(wgen[w])
      BY <1>22, <2>1, <3>1, MoveMovedOn DEF claimVars, MovedOn, Submitted
    <3>3. latest' = latest /\ latest \in Nat
      BY <1>22, <2>1 DEF Overdue, providerVars, ProviderType
    <3>4. \A v \in Workers : \/ wpc'[v] = "idle"
                            \/ /\ wpc'[v] = wpc[v] /\ wgen'[v] = wgen[v]
                               /\ wobs'[v] = wobs[v] /\ wpage'[v] = wpage[v]
      BY <1>22, <2>1 DEF Overdue, EndStep, WorkType
    <3>5. pred' = pred /\ (\A g \in Runs : bound'[g] = bound[g] \/ owner'[g] = NoOwner)
      BY <1>22, <2>1, <3>1, MoveEffect DEF Overdue, evidenceVars, EvidenceType
    <3>6. \A g \in Runs, v \in Workers :
              owner'[g] = v => /\ owner[g] = v /\ state'[g] = state[g]
                               /\ pred'[g] = pred[g] /\ bound'[g] = bound[g]
      BY <1>22, <2>1, <3>2, <3>5 DEF MovedOn
    <3> QED
      BY <3>3, <3>4, <3>6, WorkStays
  <2>14. ListInv'
    BY <1>22, <2>1 DEF ListInv, Overdue, evidenceVars, listingVars
  <2>15. PostInv'
    BY <1>22, <2>1 DEF PostInv, Overdue
  <2> QED
    BY <2>2, <2>3, <2>4, <2>5, <2>6, <2>7, <2>8, <2>9, <2>10, <2>11, <2>12,
        <2>13, <2>14, <2>15
<1>23. ASSUME NEW w \in Workers, ReadFails(w)
      PROVE  IInv'
  <2>1. wgen[w] \in Runs
    BY <1>23 DEF WorkInv, ReadFails
  <2>2. RunType'
    BY <1>23, <2>1
    DEF RunType, Active, Terminal, ReadFails, Move, Valid, EndStep, Fault
  <2>3. EvidenceType'
    BY <1>23, <2>1 DEF EvidenceType, ReadFails, evidenceVars
  <2>4. ProviderType'
    BY <1>23, <2>1 DEF ProviderType, ReadFails, providerVars
  <2>5. FlushType'
    BY <1>23, <2>1 DEF FlushType, ReadFails, flushVars
  <2>6. WorkType'
    BY <1>23, <2>1 DEF WorkType, ReadFails, Move, Valid, EndStep, Fault, Runs
  <2>7. ListingType'
    BY <1>23, <2>1
    DEF ListingType, ReadFails, Move, Valid, EndStep, Fault, listingVars
  <2>8. NewestInv'
    BY <1>23, <2>1
    DEF NewestInv, ClaimInv, FlushInv, RunType, FlushType, ListingType, Owning,
        Active, ReadFails, Move, Valid, EndStep, Fault, flushVars, Runs
  <2>9. ClaimInv'
    BY <1>23, <2>1
    DEF ClaimInv, NewestInv, FlushInv, RunType, Active, ReadFails, Move, Valid,
        EndStep, Fault
  <2>10. SubmitInv'
    <3>1. \E s \in Submitted : Move(wgen[w], s, TRUE) /\ state[wgen[w]] \in Submitted
      BY <1>23, <2>1 DEF ReadFails, Active, Submitted
    <3>2. MovedOn(wgen[w])
      BY <1>23, <2>1, <3>1, MoveMovedOn DEF claimVars, MovedOn, Submitted
    <3>3. UNCHANGED <<pred, object, latest, content>>
      BY <1>23, <2>1 DEF ReadFails, evidenceVars, providerVars
    <3>4. \A h \in Runs : bound'[h] = bound[h] \/ state'[h] \in Submitted
      BY <1>23, <2>1, <3>1, MoveEffect
      DEF ReadFails, evidenceVars, EvidenceType, Submitted
    <3> QED
      BY <1>23, <2>1, <3>2, <3>3, <3>4, SubmitStays
  <2>11. BoundInv'
    BY <1>23, <2>1 DEF BoundInv, ReadFails, evidenceVars, providerVars
  <2>12. FlushInv'
    <3>1. \E s \in Submitted : Move(wgen[w], s, TRUE) /\ state[wgen[w]] \in Submitted
      BY <1>23, <2>1 DEF ReadFails, Active, Submitted
    <3>2. MovedOn(wgen[w])
      BY <1>23, <2>1, <3>1, MoveMovedOn DEF claimVars, MovedOn, Submitted
    <3>3. UNCHANGED <<flushVars, posts, pred, object, latest, content>>
      BY <1>23, <2>1 DEF ReadFails, evidenceVars, providerVars
    <3>4. \A h \in Runs : \/ bound'[h] = bound[h]
                          \/ state[h] \in Submitted /\ owner'[h] = NoOwner
      BY <1>23, <2>1, <3>1, MoveEffect
      DEF ReadFails, evidenceVars, EvidenceType, Submitted
    <3>5. fpc # "idle" => fgen \in Runs
      BY DEF NewestInv, FlushType, Runs
    <3> QED
      BY <1>23, <2>1, <3>2, <3>3, <3>4, <3>5, FlushStays
  <2>13. WorkInv'
    <3>1. \E s \in Submitted : Move(wgen[w], s, TRUE) /\ state[wgen[w]] \in Submitted
      BY <1>23, <2>1 DEF ReadFails, Active, Submitted
    <3>2. MovedOn(wgen[w])
      BY <1>23, <2>1, <3>1, MoveMovedOn DEF claimVars, MovedOn, Submitted
    <3>3. latest' = latest /\ latest \in Nat
      BY <1>23, <2>1 DEF ReadFails, providerVars, ProviderType
    <3>4. \A v \in Workers : \/ wpc'[v] = "idle"
                            \/ /\ wpc'[v] = wpc[v] /\ wgen'[v] = wgen[v]
                               /\ wobs'[v] = wobs[v] /\ wpage'[v] = wpage[v]
      BY <1>23, <2>1 DEF ReadFails, EndStep, WorkType
    <3>5. pred' = pred /\ (\A g \in Runs : bound'[g] = bound[g] \/ owner'[g] = NoOwner)
      BY <1>23, <2>1, <3>1, MoveEffect
      DEF ReadFails, evidenceVars, EvidenceType
    <3>6. \A g \in Runs, v \in Workers :
              owner'[g] = v => /\ owner[g] = v /\ state'[g] = state[g]
                               /\ pred'[g] = pred[g] /\ bound'[g] = bound[g]
      BY <1>23, <2>1, <3>2, <3>5 DEF MovedOn
    <3> QED
      BY <3>3, <3>4, <3>6, WorkStays
  <2>14. ListInv'
    BY <1>23, <2>1 DEF ListInv, ReadFails, evidenceVars, listingVars
  <2>15. PostInv'
    BY <1>23, <2>1 DEF PostInv, ReadFails
  <2> QED
    BY <2>2, <2>3, <2>4, <2>5, <2>6, <2>7, <2>8, <2>9, <2>10, <2>11, <2>12,
        <2>13, <2>14, <2>15
<1>24. ASSUME NEW w \in Workers, Bind(w)
      PROVE  IInv'
  <2>1. wgen[w] \in Runs
    BY <1>24 DEF WorkInv, Bind
  <2>2. RunType'
    BY <1>24, <2>1
    DEF RunType, Active, Terminal, Bind, Move, Valid, EndStep, Foreign
  <2>3. EvidenceType'
    <3>1. wobs[w] \in 0..MaxUploads
      BY DEF WorkType
    <3> QED
      BY <1>24, <2>1, <3>1 DEF EvidenceType, Bind
  <2>4. ProviderType'
    BY <1>24, <2>1 DEF ProviderType, Bind, providerVars
  <2>5. FlushType'
    BY <1>24, <2>1 DEF FlushType, Bind, flushVars
  <2>6. WorkType'
    BY <1>24, <2>1 DEF WorkType, Bind, Move, Valid, EndStep, Foreign, Runs
  <2>7. ListingType'
    BY <1>24, <2>1 DEF ListingType, Bind, listingVars
  <2>8. NewestInv'
    BY <1>24, <2>1
    DEF NewestInv, ClaimInv, FlushInv, RunType, FlushType, ListingType, Owning,
        Active, Bind, Move, Valid, EndStep, Foreign, flushVars, Runs
  <2>9. ClaimInv'
    BY <1>24, <2>1
    DEF ClaimInv, NewestInv, FlushInv, RunType, Active, Bind, Move, Valid,
        EndStep, Foreign
  <2>10. SubmitInv'
    <3>1. Move(wgen[w], "polling", TRUE) /\ state[wgen[w]] \in Submitted
      BY <1>24, <2>1 DEF Bind, Submitted
    <3>2. MovedOn(wgen[w])
      BY <1>24, <2>1, <3>1, MoveMovedOn DEF Submitted
    <3>3. \A h \in Runs : h # wgen[w] => bound'[h] = bound[h]
      BY <1>24, <2>1 DEF Bind, EvidenceType
    <3>4. owner'[wgen[w]] = NoOwner /\ state'[wgen[w]] = "polling"
      BY <1>24, <2>1, <3>1, MoveEffect
    <3>5. UNCHANGED <<flushVars, posts, pred, object, latest, content>>
      BY <1>24, <2>1 DEF Bind, providerVars
    <3>6. \A h \in Runs : bound'[h] = bound[h] \/ state'[h] \in Submitted
      BY <3>3, <3>4 DEF Submitted
    <3> QED
      BY <1>24, <2>1, <3>2, <3>5, <3>6, SubmitStays
  <2>11. BoundInv'
    <3>1. /\ owner[wgen[w]] = w /\ wpc[w] = "observed" /\ wobs[w] # pred[wgen[w]]
          /\ state[wgen[w]] \in Submitted
      BY <1>24, <2>1 DEF Bind, Valid, Foreign, Submitted
    <3>2. /\ pred[wgen[w]] \in 0..wobs[w] /\ wobs[w] <= latest
          /\ wobs[w] \in 0..MaxUploads /\ latest \in Nat
      BY <1>24, <2>1, <3>1 DEF WorkInv, WorkType, ProviderType
    <3>3. wobs[w] \in 1..MaxUploads /\ pred[wgen[w]] < wobs[w]
      BY <3>1, <3>2
    <3>4. content[wobs[w]] = wgen[w]
      BY <1>24, <2>1, <3>1, <3>2, <3>3 DEF SubmitInv
    <3>5. bound' = [bound EXCEPT ![wgen[w]] = wobs[w]] /\ UNCHANGED <<latest, content>>
      BY <1>24, <2>1 DEF Bind, providerVars
    <3> QED
      BY <1>24, <2>1, <3>2, <3>4, <3>5 DEF BoundInv, EvidenceType
  <2>12. FlushInv'
    <3>1. Move(wgen[w], "polling", TRUE) /\ state[wgen[w]] \in Submitted
      BY <1>24, <2>1 DEF Bind, Submitted
    <3>2. MovedOn(wgen[w])
      BY <1>24, <2>1, <3>1, MoveMovedOn DEF Submitted
    <3>3. \A h \in Runs : h # wgen[w] => bound'[h] = bound[h]
      BY <1>24, <2>1 DEF Bind, EvidenceType
    <3>4. owner'[wgen[w]] = NoOwner /\ state'[wgen[w]] = "polling"
      BY <1>24, <2>1, <3>1, MoveEffect
    <3>5. UNCHANGED <<flushVars, posts, pred, object, latest, content>>
      BY <1>24, <2>1 DEF Bind, providerVars
    <3>6. \A h \in Runs : bound'[h] = bound[h] \/ (state[h] \in Submitted /\ owner'[h] = NoOwner)
      BY <3>1, <3>3, <3>4
    <3>9. fpc # "idle" => fgen \in Runs
      BY DEF NewestInv, FlushType, Runs
    <3> QED
      BY <1>24, <2>1, <3>2, <3>5, <3>6, <3>9, FlushStays
  <2>13. WorkInv'
    <3>1. Move(wgen[w], "polling", TRUE) /\ state[wgen[w]] \in Submitted
      BY <1>24, <2>1 DEF Bind, Submitted
    <3>2. MovedOn(wgen[w])
      BY <1>24, <2>1, <3>1, MoveMovedOn DEF claimVars, MovedOn, Submitted
    <3>3. latest' = latest /\ latest \in Nat
      BY <1>24, <2>1 DEF Bind, providerVars, ProviderType
    <3>4. \A v \in Workers : \/ wpc'[v] = "idle"
                            \/ /\ wpc'[v] = wpc[v] /\ wgen'[v] = wgen[v]
                               /\ wobs'[v] = wobs[v] /\ wpage'[v] = wpage[v]
      BY <1>24, <2>1 DEF Bind, EndStep, WorkType
    <3>5. pred' = pred /\ (\A g \in Runs : bound'[g] = bound[g] \/ owner'[g] = NoOwner)
      BY <1>24, <2>1, <3>1, MoveEffect, ZenonT(30) DEF Bind, evidenceVars, EvidenceType
    <3>6. \A g \in Runs, v \in Workers :
              owner'[g] = v => /\ owner[g] = v /\ state'[g] = state[g]
                               /\ pred'[g] = pred[g] /\ bound'[g] = bound[g]
      BY <1>24, <2>1, <3>2, <3>5 DEF MovedOn
    <3> QED
      BY <3>3, <3>4, <3>6, WorkStays
  <2>14. ListInv'
    BY <1>24, <2>1
    DEF BoundInv, WorkInv, ListInv, EvidenceType, ListingType, Bind, Move,
        Valid, EndStep, Foreign, listingVars
  <2>15. PostInv'
    BY <1>24, <2>1 DEF PostInv, Bind
  <2> QED
    BY <2>2, <2>3, <2>4, <2>5, <2>6, <2>7, <2>8, <2>9, <2>10, <2>11, <2>12,
        <2>13, <2>14, <2>15
<1>25. ASSUME NEW w \in Workers, NotYetThere(w)
      PROVE  IInv'
  <2>1. wgen[w] \in Runs
    BY <1>25 DEF WorkInv, NotYetThere
  <2>2. RunType'
    BY <1>25, <2>1, ZenonT(30)
    DEF RunType, Active, Terminal, NotYetThere, Move, Valid, EndStep, Foreign
  <2>3. EvidenceType'
    BY <1>25, <2>1 DEF EvidenceType, NotYetThere, Move, Valid, EndStep, Foreign
  <2>4. ProviderType'
    BY <1>25, <2>1 DEF ProviderType, NotYetThere, providerVars
  <2>5. FlushType'
    BY <1>25, <2>1 DEF FlushType, NotYetThere, flushVars
  <2>6. WorkType'
    BY <1>25, <2>1
    DEF WorkType, NotYetThere, Move, Valid, EndStep, Foreign, Runs
  <2>7. ListingType'
    BY <1>25, <2>1 DEF ListingType, NotYetThere, listingVars
  <2>8. NewestInv'
    BY <1>25, <2>1
    DEF NewestInv, ClaimInv, FlushInv, RunType, FlushType, ListingType, Owning,
        Active, NotYetThere, Move, Valid, EndStep, Foreign, flushVars, Runs
  <2>9. ClaimInv'
    BY <1>25, <2>1
    DEF ClaimInv, NewestInv, FlushInv, RunType, Active, NotYetThere, Move,
        Valid, EndStep, Foreign
  <2>10. SubmitInv'
    <3>1. \E s \in Submitted, b \in BOOLEAN : Move(wgen[w], s, b) /\ state[wgen[w]] \in Submitted
      BY <1>25, <2>1 DEF NotYetThere, Submitted
    <3>2. MovedOn(wgen[w])
      BY <1>25, <2>1, <3>1, MoveMovedOn DEF claimVars, MovedOn, Submitted
    <3>3. UNCHANGED <<pred, object, latest, content>>
      BY <1>25, <2>1 DEF NotYetThere, evidenceVars, providerVars
    <3>4. \A h \in Runs : bound'[h] = bound[h] \/ state'[h] \in Submitted
      BY <1>25, <2>1, <3>1, MoveEffect
      DEF NotYetThere, evidenceVars, EvidenceType, Submitted
    <3> QED
      BY <1>25, <2>1, <3>2, <3>3, <3>4, SubmitStays
  <2>11. BoundInv'
    BY <1>25, <2>1 DEF BoundInv, NotYetThere, providerVars
  <2>12. FlushInv'
    <3>1. \E s \in Submitted, b \in BOOLEAN : Move(wgen[w], s, b) /\ state[wgen[w]] \in Submitted
      BY <1>25, <2>1 DEF NotYetThere, Submitted
    <3>2. MovedOn(wgen[w])
      BY <1>25, <2>1, <3>1, MoveMovedOn DEF claimVars, MovedOn, Submitted
    <3>3. UNCHANGED <<flushVars, posts, pred, object, latest, content>>
      BY <1>25, <2>1 DEF NotYetThere, evidenceVars, providerVars
    <3>4. \A h \in Runs : \/ bound'[h] = bound[h]
                          \/ state[h] \in Submitted /\ owner'[h] = NoOwner
      BY <1>25, <2>1, <3>1, MoveEffect
      DEF NotYetThere, evidenceVars, EvidenceType, Submitted
    <3>5. fpc # "idle" => fgen \in Runs
      BY DEF NewestInv, FlushType, Runs
    <3> QED
      BY <1>25, <2>1, <3>2, <3>3, <3>4, <3>5, FlushStays
  <2>13. WorkInv'
    <3>1. \E s \in Submitted, b \in BOOLEAN : Move(wgen[w], s, b) /\ state[wgen[w]] \in Submitted
      BY <1>25, <2>1 DEF NotYetThere, Submitted
    <3>2. MovedOn(wgen[w])
      BY <1>25, <2>1, <3>1, MoveMovedOn DEF claimVars, MovedOn, Submitted
    <3>3. latest' = latest /\ latest \in Nat
      BY <1>25, <2>1 DEF NotYetThere, providerVars, ProviderType
    <3>4. \A v \in Workers : \/ wpc'[v] = "idle"
                            \/ /\ wpc'[v] = wpc[v] /\ wgen'[v] = wgen[v]
                               /\ wobs'[v] = wobs[v] /\ wpage'[v] = wpage[v]
      BY <1>25, <2>1 DEF NotYetThere, EndStep, WorkType
    <3>5. pred' = pred /\ (\A g \in Runs : bound'[g] = bound[g] \/ owner'[g] = NoOwner)
      BY <1>25, <2>1, <3>1, MoveEffect
      DEF NotYetThere, evidenceVars, EvidenceType
    <3>6. \A g \in Runs, v \in Workers :
              owner'[g] = v => /\ owner[g] = v /\ state'[g] = state[g]
                               /\ pred'[g] = pred[g] /\ bound'[g] = bound[g]
      BY <1>25, <2>1, <3>2, <3>5 DEF MovedOn
    <3> QED
      BY <3>3, <3>4, <3>6, WorkStays
  <2>14. ListInv'
    BY <1>25, <2>1 DEF ListInv, NotYetThere, listingVars
  <2>15. PostInv'
    BY <1>25, <2>1 DEF PostInv, NotYetThere
  <2> QED
    BY <2>2, <2>3, <2>4, <2>5, <2>6, <2>7, <2>8, <2>9, <2>10, <2>11, <2>12,
        <2>13, <2>14, <2>15
<1>26. ASSUME NEW w \in Workers, IdentityMoved(w)
      PROVE  IInv'
  <2>1. wgen[w] \in Runs
    BY <1>26 DEF WorkInv, IdentityMoved
  <2>2. RunType'
    BY <1>26, <2>1
    DEF RunType, Active, Terminal, IdentityMoved, Move, Valid, EndStep
  <2>3. EvidenceType'
    BY <1>26, <2>1 DEF EvidenceType, IdentityMoved, evidenceVars
  <2>4. ProviderType'
    BY <1>26, <2>1 DEF ProviderType, IdentityMoved, providerVars
  <2>5. FlushType'
    BY <1>26, <2>1 DEF FlushType, IdentityMoved, flushVars
  <2>6. WorkType'
    BY <1>26, <2>1 DEF WorkType, IdentityMoved, Move, Valid, EndStep, Runs
  <2>7. ListingType'
    BY <1>26, <2>1 DEF ListingType, IdentityMoved, listingVars
  <2>8. NewestInv'
    BY <1>26, <2>1
    DEF NewestInv, ClaimInv, FlushInv, RunType, FlushType, ListingType, Owning,
        Active, IdentityMoved, Move, Valid, EndStep, flushVars, Runs
  <2>9. ClaimInv'
    BY <1>26, <2>1
    DEF ClaimInv, NewestInv, FlushInv, RunType, Active, IdentityMoved, Move,
        Valid, EndStep
  <2>10. SubmitInv'
    <3>1. Move(wgen[w], "outcome_uncertain", FALSE) /\ state[wgen[w]] \in Submitted
      BY <1>26, <2>1 DEF IdentityMoved, Submitted, Active, Valid, WorkInv
    <3>2. MovedOn(wgen[w])
      BY <1>26, <2>1, <3>1, MoveMovedOn DEF claimVars, MovedOn, Submitted
    <3>3. UNCHANGED <<pred, object, latest, content>>
      BY <1>26, <2>1 DEF IdentityMoved, evidenceVars, providerVars
    <3>4. \A h \in Runs : bound'[h] = bound[h] \/ state'[h] \in Submitted
      BY <1>26, <2>1, <3>1, MoveEffect
      DEF IdentityMoved, evidenceVars, EvidenceType, Submitted
    <3> QED
      BY <1>26, <2>1, <3>2, <3>3, <3>4, SubmitStays
  <2>11. BoundInv'
    BY <1>26, <2>1 DEF BoundInv, IdentityMoved, evidenceVars, providerVars
  <2>12. FlushInv'
    <3>1. Move(wgen[w], "outcome_uncertain", FALSE) /\ state[wgen[w]] \in Submitted
      BY <1>26, <2>1 DEF IdentityMoved, Submitted, Active, Valid, WorkInv
    <3>2. MovedOn(wgen[w])
      BY <1>26, <2>1, <3>1, MoveMovedOn DEF claimVars, MovedOn, Submitted
    <3>3. UNCHANGED <<flushVars, posts, pred, object, latest, content>>
      BY <1>26, <2>1 DEF IdentityMoved, evidenceVars, providerVars
    <3>4. \A h \in Runs : \/ bound'[h] = bound[h]
                          \/ state[h] \in Submitted /\ owner'[h] = NoOwner
      BY <1>26, <2>1, <3>1, MoveEffect
      DEF IdentityMoved, evidenceVars, EvidenceType, Submitted
    <3>5. fpc # "idle" => fgen \in Runs
      BY DEF NewestInv, FlushType, Runs
    <3> QED
      BY <1>26, <2>1, <3>2, <3>3, <3>4, <3>5, FlushStays
  <2>13. WorkInv'
    <3>1. Move(wgen[w], "outcome_uncertain", FALSE) /\ state[wgen[w]] \in Submitted
      BY <1>26, <2>1 DEF IdentityMoved, Submitted, Active, Valid, WorkInv
    <3>2. MovedOn(wgen[w])
      BY <1>26, <2>1, <3>1, MoveMovedOn DEF claimVars, MovedOn, Submitted
    <3>3. latest' = latest /\ latest \in Nat
      BY <1>26, <2>1 DEF IdentityMoved, providerVars, ProviderType
    <3>4. \A v \in Workers : \/ wpc'[v] = "idle"
                            \/ /\ wpc'[v] = wpc[v] /\ wgen'[v] = wgen[v]
                               /\ wobs'[v] = wobs[v] /\ wpage'[v] = wpage[v]
      BY <1>26, <2>1 DEF IdentityMoved, EndStep, WorkType
    <3>5. pred' = pred /\ (\A g \in Runs : bound'[g] = bound[g] \/ owner'[g] = NoOwner)
      BY <1>26, <2>1, <3>1, MoveEffect
      DEF IdentityMoved, evidenceVars, EvidenceType
    <3>6. \A g \in Runs, v \in Workers :
              owner'[g] = v => /\ owner[g] = v /\ state'[g] = state[g]
                               /\ pred'[g] = pred[g] /\ bound'[g] = bound[g]
      BY <1>26, <2>1, <3>2, <3>5 DEF MovedOn
    <3> QED
      BY <3>3, <3>4, <3>6, WorkStays
  <2>14. ListInv'
    BY <1>26, <2>1 DEF ListInv, IdentityMoved, evidenceVars, listingVars
  <2>15. PostInv'
    BY <1>26, <2>1 DEF PostInv, IdentityMoved
  <2> QED
    BY <2>2, <2>3, <2>4, <2>5, <2>6, <2>7, <2>8, <2>9, <2>10, <2>11, <2>12,
        <2>13, <2>14, <2>15
<1>27. ASSUME NEW w \in Workers, StartReporting(w)
      PROVE  IInv'
  <2>1. wgen[w] \in Runs
    BY <1>27 DEF WorkInv, StartReporting
  <2>2. RunType'
    BY <1>27, <2>1
    DEF RunType, Active, Terminal, StartReporting, Move, Valid, EndStep
  <2>3. EvidenceType'
    BY <1>27, <2>1 DEF EvidenceType, StartReporting, evidenceVars
  <2>4. ProviderType'
    BY <1>27, <2>1 DEF ProviderType, StartReporting, providerVars
  <2>5. FlushType'
    BY <1>27, <2>1 DEF FlushType, StartReporting, flushVars
  <2>6. WorkType'
    BY <1>27, <2>1 DEF WorkType, StartReporting, Move, Valid, EndStep, Runs
  <2>7. ListingType'
    BY <1>27, <2>1 DEF ListingType, StartReporting, listingVars
  <2>8. NewestInv'
    BY <1>27, <2>1
    DEF NewestInv, ClaimInv, FlushInv, RunType, FlushType, ListingType, Owning,
        Active, StartReporting, Move, Valid, EndStep, flushVars, Runs
  <2>9. ClaimInv'
    BY <1>27, <2>1
    DEF ClaimInv, NewestInv, FlushInv, RunType, Active, StartReporting, Move,
        Valid, EndStep
  <2>10. SubmitInv'
    <3>1. Move(wgen[w], "reporting", TRUE) /\ state[wgen[w]] \in Submitted
      BY <1>27, <2>1 DEF StartReporting, Submitted
    <3>2. MovedOn(wgen[w])
      BY <1>27, <2>1, <3>1, MoveMovedOn DEF claimVars, MovedOn, Submitted
    <3>3. UNCHANGED <<pred, object, latest, content>>
      BY <1>27, <2>1 DEF StartReporting, evidenceVars, providerVars
    <3>4. \A h \in Runs : bound'[h] = bound[h] \/ state'[h] \in Submitted
      BY <1>27, <2>1, <3>1, MoveEffect
      DEF StartReporting, evidenceVars, EvidenceType, Submitted
    <3> QED
      BY <1>27, <2>1, <3>2, <3>3, <3>4, SubmitStays
  <2>11. BoundInv'
    BY <1>27, <2>1 DEF BoundInv, StartReporting, evidenceVars, providerVars
  <2>12. FlushInv'
    <3>1. Move(wgen[w], "reporting", TRUE) /\ state[wgen[w]] \in Submitted
      BY <1>27, <2>1 DEF StartReporting, Submitted
    <3>2. MovedOn(wgen[w])
      BY <1>27, <2>1, <3>1, MoveMovedOn DEF claimVars, MovedOn, Submitted
    <3>3. UNCHANGED <<flushVars, posts, pred, object, latest, content>>
      BY <1>27, <2>1 DEF StartReporting, evidenceVars, providerVars
    <3>4. \A h \in Runs : \/ bound'[h] = bound[h]
                          \/ state[h] \in Submitted /\ owner'[h] = NoOwner
      BY <1>27, <2>1, <3>1, MoveEffect
      DEF StartReporting, evidenceVars, EvidenceType, Submitted
    <3>5. fpc # "idle" => fgen \in Runs
      BY DEF NewestInv, FlushType, Runs
    <3> QED
      BY <1>27, <2>1, <3>2, <3>3, <3>4, <3>5, FlushStays
  <2>13. WorkInv'
    <3>1. Move(wgen[w], "reporting", TRUE) /\ state[wgen[w]] \in Submitted
      BY <1>27, <2>1 DEF StartReporting, Submitted
    <3>2. MovedOn(wgen[w])
      BY <1>27, <2>1, <3>1, MoveMovedOn DEF claimVars, MovedOn, Submitted
    <3>3. latest' = latest /\ latest \in Nat
      BY <1>27, <2>1 DEF StartReporting, providerVars, ProviderType
    <3>4. \A v \in Workers : \/ wpc'[v] = "idle"
                            \/ /\ wpc'[v] = wpc[v] /\ wgen'[v] = wgen[v]
                               /\ wobs'[v] = wobs[v] /\ wpage'[v] = wpage[v]
      BY <1>27, <2>1 DEF StartReporting, EndStep, WorkType
    <3>5. pred' = pred /\ (\A g \in Runs : bound'[g] = bound[g] \/ owner'[g] = NoOwner)
      BY <1>27, <2>1, <3>1, MoveEffect
      DEF StartReporting, evidenceVars, EvidenceType
    <3>6. \A g \in Runs, v \in Workers :
              owner'[g] = v => /\ owner[g] = v /\ state'[g] = state[g]
                               /\ pred'[g] = pred[g] /\ bound'[g] = bound[g]
      BY <1>27, <2>1, <3>2, <3>5 DEF MovedOn
    <3> QED
      BY <3>3, <3>4, <3>6, WorkStays
  <2>14. ListInv'
    BY <1>27, <2>1 DEF ListInv, StartReporting, evidenceVars, listingVars
  <2>15. PostInv'
    BY <1>27, <2>1 DEF PostInv, StartReporting
  <2> QED
    BY <2>2, <2>3, <2>4, <2>5, <2>6, <2>7, <2>8, <2>9, <2>10, <2>11, <2>12,
        <2>13, <2>14, <2>15
<1>28. ASSUME NEW w \in Workers, ReadPage(w)
      PROVE  IInv'
  <2>1. wgen[w] \in Runs
    BY <1>28 DEF WorkInv, ReadPage
  <2>2. RunType'
    BY <1>28, <2>1 DEF RunType, ReadPage, runVars
  <2>3. EvidenceType'
    BY <1>28, <2>1 DEF EvidenceType, ReadPage, runVars
  <2>4. ProviderType'
    BY <1>28, <2>1 DEF ProviderType, ReadPage, providerVars
  <2>5. FlushType'
    BY <1>28, <2>1 DEF FlushType, ReadPage, flushVars
  <2>6. WorkType'
    <3>1. latest \in 0..MaxUploads
      BY DEF ProviderType
    <3> QED
      BY <1>28, <2>1, <3>1 DEF WorkType, ReadPage
  <2>7. ListingType'
    BY <1>28, <2>1 DEF ListingType, ReadPage, listingVars
  <2>8. NewestInv'
    BY <1>28, <2>1 DEF NewestInv, ReadPage, runVars, flushVars
  <2>9. ClaimInv'
    BY <1>28, <2>1 DEF ClaimInv, ReadPage, runVars
  <2>10. SubmitInv'
    BY <1>28, <2>1 DEF SubmitInv, ReadPage, runVars, providerVars
  <2>11. BoundInv'
    BY <1>28, <2>1 DEF BoundInv, ReadPage, runVars, providerVars
  <2>12. FlushInv'
    BY <1>28, <2>1 DEF FlushInv, ReadPage, runVars, providerVars, flushVars
  <2>13. WorkInv'
    BY <1>28, <2>1, SMTT(30)
    DEF ClaimInv, SubmitInv, BoundInv, FlushInv, NewestInv, WorkInv, RunType,
        EvidenceType, ProviderType, WorkType, Active, ReadPage, Valid, runVars,
        providerVars
  <2>14. ListInv'
    BY <1>28, <2>1 DEF ListInv, ReadPage, runVars, listingVars
  <2>15. PostInv'
    BY <1>28, <2>1 DEF PostInv, ReadPage
  <2> QED
    BY <2>2, <2>3, <2>4, <2>5, <2>6, <2>7, <2>8, <2>9, <2>10, <2>11, <2>12,
        <2>13, <2>14, <2>15
<1>29. ASSUME NEW w \in Workers, CommitPage(w)
      PROVE  IInv'
  <2>1. wgen[w] \in Runs
    BY <1>29 DEF WorkInv, CommitPage
  <2>2. RunType'
    <3>1. \E s \in Active \union Terminal, b \in BOOLEAN : Move(wgen[w], s, b)
      BY <1>29, <2>1 DEF CommitPage, Active, Terminal, Valid, WorkInv
    <3> QED
      BY <1>29, <2>1, <3>1 DEF RunType, Move
  <2>3. EvidenceType'
    BY <1>29, <2>1, ZenonT(30)
    DEF EvidenceType, CommitPage, Move, Valid, EndStep, SameUpload, Tagged
  <2>4. ProviderType'
    BY <1>29, <2>1 DEF ProviderType, CommitPage, providerVars
  <2>5. FlushType'
    BY <1>29, <2>1 DEF FlushType, CommitPage, flushVars
  <2>6. WorkType'
    BY <1>29, <2>1
    DEF WorkType, CommitPage, Move, Valid, EndStep, SameUpload, Tagged, Runs
  <2>7. ListingType'
    <3>1. wpage[w] \in 0..MaxUploads
      BY DEF WorkType
    <3>2. UNCHANGED <<lrun, posts, faults>>
      BY <1>29, <2>1 DEF CommitPage, listingVars
    <3>3. CASE UNCHANGED listingVars
      BY <3>2, <3>3 DEF ListingType, listingVars
    <3>4. CASE ~UNCHANGED listingVars
      <4>1. PICK ok \in SUBSET Tagged(wgen[w]), bad \in SUBSET Tagged(wgen[w]) :
              /\ lstat' = [l \in Listings |-> IF l \in ok THEN "active"
                                              ELSE IF l \in bad THEN "rejected" ELSE lstat[l]]
              /\ lsource' = [l \in Listings |-> IF l \in ok \union bad THEN wpage[w] ELSE lsource[l]]
        BY <1>29, <2>1, <3>4, ZenonT(30) DEF CommitPage
      <4>2. lstat' \in [Listings -> {"draft", "pending", "active", "rejected"}]
        BY <4>1 DEF ListingType
      <4>3. lsource' \in [Listings -> 0..MaxUploads]
        BY <3>1, <4>1 DEF ListingType
      <4> QED
        BY <3>2, <4>2, <4>3 DEF ListingType
    <3> QED
      BY <3>3, <3>4
  <2>8. NewestInv'
    <3>1. \E s \in Submitted \union {"succeeded"}, b \in BOOLEAN :
             Move(wgen[w], s, b) /\ state[wgen[w]] \in Submitted
      BY <1>29, <2>1 DEF CommitPage, Submitted, Active, Valid, WorkInv
    <3>2. UNCHANGED <<made, posts, fpc, fgen>>
      BY <1>29, <2>1 DEF CommitPage, flushVars
    <3>3. /\ \A h \in Runs : h # wgen[w] => state'[h] = state[h]
          /\ state'[wgen[w]] \in Submitted \union {"succeeded"}
      BY <1>29, <2>1, <3>1, MoveEffect
    <3> QED
      BY <1>29, <2>1, <3>1, <3>2, <3>3 DEF NewestInv, Submitted, Owning, Active
  <2>9. ClaimInv'
    BY <1>29, <2>1
    DEF ClaimInv, NewestInv, FlushInv, RunType, Active, CommitPage, Move,
        Valid, EndStep, SameUpload, Tagged
  <2>10. SubmitInv'
    <3>1. \E s \in Submitted \union {"succeeded"}, b \in BOOLEAN :
             Move(wgen[w], s, b) /\ state[wgen[w]] \in Submitted
      BY <1>29, <2>1 DEF CommitPage, Submitted, Active, Valid, WorkInv
    <3>2. MovedOn(wgen[w])
      BY <1>29, <2>1, <3>1, MoveMovedOn DEF claimVars, MovedOn, Submitted
    <3>3. UNCHANGED <<pred, object, latest, content>>
      BY <1>29, <2>1 DEF CommitPage, evidenceVars, providerVars
    <3>4. \A h \in Runs : bound'[h] = bound[h] \/ state'[h] \in Submitted
      BY <1>29, <2>1, <3>1, MoveEffect
      DEF CommitPage, evidenceVars, EvidenceType, Submitted
    <3> QED
      BY <1>29, <2>1, <3>2, <3>3, <3>4, SubmitStays
  <2>11. BoundInv'
    BY <1>29, <2>1 DEF BoundInv, CommitPage, providerVars
  <2>12. FlushInv'
    <3>1. \E s \in Submitted \union {"succeeded"}, b \in BOOLEAN :
             Move(wgen[w], s, b) /\ state[wgen[w]] \in Submitted
      BY <1>29, <2>1 DEF CommitPage, Submitted, Active, Valid, WorkInv
    <3>2. MovedOn(wgen[w])
      BY <1>29, <2>1, <3>1, MoveMovedOn DEF claimVars, MovedOn, Submitted
    <3>3. UNCHANGED <<flushVars, posts, pred, object, latest, content>>
      BY <1>29, <2>1 DEF CommitPage, evidenceVars, providerVars
    <3>4. \A h \in Runs : \/ bound'[h] = bound[h]
                          \/ state[h] \in Submitted /\ owner'[h] = NoOwner
      BY <1>29, <2>1, <3>1, MoveEffect
      DEF CommitPage, evidenceVars, EvidenceType, Submitted
    <3>5. fpc # "idle" => fgen \in Runs
      BY DEF NewestInv, FlushType, Runs
    <3> QED
      BY <1>29, <2>1, <3>2, <3>3, <3>4, <3>5, FlushStays
  <2>13. WorkInv'
    <3>1. \E s \in Submitted \union {"succeeded"}, b \in BOOLEAN :
             Move(wgen[w], s, b) /\ state[wgen[w]] \in Submitted
      BY <1>29, <2>1 DEF CommitPage, Submitted, Active, Valid, WorkInv
    <3>2. MovedOn(wgen[w])
      BY <1>29, <2>1, <3>1, MoveMovedOn DEF claimVars, MovedOn, Submitted
    <3>3. latest' = latest /\ latest \in Nat
      BY <1>29, <2>1 DEF CommitPage, providerVars, ProviderType
    <3>4. \A v \in Workers : \/ wpc'[v] = "idle"
                            \/ /\ wpc'[v] = wpc[v] /\ wgen'[v] = wgen[v]
                               /\ wobs'[v] = wobs[v] /\ wpage'[v] = wpage[v]
      BY <1>29, <2>1 DEF CommitPage, EndStep, WorkType
    <3>5. pred' = pred /\ (\A g \in Runs : bound'[g] = bound[g] \/ owner'[g] = NoOwner)
      BY <1>29, <2>1, <3>1, MoveEffect
      DEF CommitPage, evidenceVars, EvidenceType
    <3>6. \A g \in Runs, v \in Workers :
              owner'[g] = v => /\ owner[g] = v /\ state'[g] = state[g]
                               /\ pred'[g] = pred[g] /\ bound'[g] = bound[g]
      BY <1>29, <2>1, <3>2, <3>5 DEF MovedOn
    <3> QED
      BY <3>3, <3>4, <3>6, WorkStays
  <2>14. ListInv'
    <3>1. UNCHANGED <<lrun, bound>>
      BY <1>29, <2>1 DEF CommitPage, listingVars
    <3>2. CASE UNCHANGED listingVars
      BY <3>1, <3>2 DEF ListInv, listingVars
    <3>3. CASE ~UNCHANGED listingVars
      <4>1. PICK ok \in SUBSET Tagged(wgen[w]), bad \in SUBSET Tagged(wgen[w]) :
              /\ SameUpload(w)
              /\ lstat' = [l \in Listings |-> IF l \in ok THEN "active"
                                              ELSE IF l \in bad THEN "rejected" ELSE lstat[l]]
              /\ lsource' = [l \in Listings |-> IF l \in ok \union bad THEN wpage[w] ELSE lsource[l]]
        BY <1>29, <2>1, <3>3, ZenonT(30) DEF CommitPage
      <4>2. wpage[w] = bound[wgen[w]]
        BY <1>29, <2>1, <4>1
        DEF CommitPage, Valid, WorkInv, SameUpload, WorkType, ProviderType
      <4> QED
        BY <1>29, <2>1, <3>1, <4>1, <4>2 DEF ListInv, Tagged, ListingType
    <3> QED
      BY <3>2, <3>3
  <2>15. PostInv'
    BY <1>29, <2>1 DEF PostInv, CommitPage
  <2> QED
    BY <2>2, <2>3, <2>4, <2>5, <2>6, <2>7, <2>8, <2>9, <2>10, <2>11, <2>12,
        <2>13, <2>14, <2>15
<1>30. ASSUME NEW w \in Workers, StepCrash(w)
      PROVE  IInv'
  <2>1. wgen[w] \in Runs
    BY <1>30 DEF WorkInv, StepCrash
  <2>2. RunType'
    BY <1>30, <2>1 DEF RunType, StepCrash, runVars
  <2>3. EvidenceType'
    BY <1>30, <2>1 DEF EvidenceType, StepCrash, runVars
  <2>4. ProviderType'
    BY <1>30, <2>1 DEF ProviderType, StepCrash, providerVars
  <2>5. FlushType'
    BY <1>30, <2>1 DEF FlushType, StepCrash, flushVars
  <2>6. WorkType'
    BY <1>30, <2>1 DEF WorkType, StepCrash, EndStep, Fault, Runs
  <2>7. ListingType'
    BY <1>30, <2>1 DEF ListingType, StepCrash, EndStep, Fault, listingVars
  <2>8. NewestInv'
    BY <1>30, <2>1 DEF NewestInv, StepCrash, runVars, flushVars
  <2>9. ClaimInv'
    BY <1>30, <2>1 DEF ClaimInv, StepCrash, runVars
  <2>10. SubmitInv'
    BY <1>30, <2>1 DEF SubmitInv, StepCrash, runVars, providerVars
  <2>11. BoundInv'
    BY <1>30, <2>1 DEF BoundInv, StepCrash, runVars, providerVars
  <2>12. FlushInv'
    BY <1>30, <2>1 DEF FlushInv, StepCrash, runVars, providerVars, flushVars
  <2>13. WorkInv'
    <3>1. UNCHANGED <<latest, state, owner, pred, bound>> /\ latest \in Nat
      BY <1>30, <2>1 DEF StepCrash, runVars, providerVars, ProviderType
    <3>2. \A v \in Workers : \/ wpc'[v] = "idle"
                            \/ /\ wpc'[v] = wpc[v] /\ wgen'[v] = wgen[v]
                               /\ wobs'[v] = wobs[v] /\ wpage'[v] = wpage[v]
      BY <1>30, <2>1 DEF StepCrash, EndStep, WorkType
    <3> QED
      BY <3>1, <3>2, WorkStays
  <2>14. ListInv'
    BY <1>30, <2>1 DEF ListInv, StepCrash, runVars, listingVars
  <2>15. PostInv'
    BY <1>30, <2>1 DEF PostInv, StepCrash
  <2> QED
    BY <2>2, <2>3, <2>4, <2>5, <2>6, <2>7, <2>8, <2>9, <2>10, <2>11, <2>12,
        <2>13, <2>14, <2>15
<1>31. ASSUME NEW w \in Workers, NEW g \in Runs, StepClaim(w, g)
      PROVE  IInv'
  <2>1. RunType'
    BY <1>31 DEF RunType, Active, Terminal, StepClaim
  <2>2. EvidenceType'
    BY <1>31 DEF EvidenceType, StepClaim, evidenceVars
  <2>3. ProviderType'
    BY <1>31 DEF ProviderType, StepClaim, providerVars
  <2>4. FlushType'
    BY <1>31 DEF FlushType, StepClaim, flushVars
  <2>5. WorkType'
    BY <1>31 DEF WorkType, StepClaim, Runs
  <2>6. ListingType'
    BY <1>31 DEF ListingType, StepClaim, listingVars
  <2>7. NewestInv'
    BY <1>31 DEF NewestInv, StepClaim, flushVars
  <2>8. ClaimInv'
    BY <1>31 DEF ClaimInv, NewestInv, FlushInv, RunType, Active, StepClaim
  <2>9. SubmitInv'
    BY <1>31 DEF SubmitInv, StepClaim, evidenceVars, providerVars
  <2>10. BoundInv'
    BY <1>31 DEF BoundInv, StepClaim, evidenceVars, providerVars
  <2>11. FlushInv'
    <3>1. UNCHANGED <<flushVars, posts, pred, bound, state, object, latest, content>>
      BY <1>31 DEF StepClaim, evidenceVars, providerVars
    <3>2. \A h \in Runs : owner'[h] = Flush => owner[h] = Flush
      BY <1>31 DEF StepClaim, RunType
    <3>9. fpc # "idle" => fgen \in Runs
      BY DEF NewestInv, FlushType, Runs
    <3>3. CASE fpc = "idle"
      BY <3>1, <3>3 DEF FlushInv, flushVars
    <3>4. CASE fpc # "idle"
      BY <3>1, <3>2, <3>4, <3>9 DEF FlushInv, flushVars
    <3> QED
      BY <3>3, <3>4
  <2>12. WorkInv'
    BY <1>31, SMTT(30)
    DEF ClaimInv, SubmitInv, BoundInv, FlushInv, NewestInv, WorkInv, RunType,
        EvidenceType, ProviderType, WorkType, Active, StepClaim, evidenceVars,
        providerVars
  <2>13. ListInv'
    BY <1>31 DEF ListInv, StepClaim, evidenceVars, listingVars
  <2>14. PostInv'
    BY <1>31 DEF PostInv, StepClaim
  <2> QED
    BY <2>1, <2>2, <2>3, <2>4, <2>5, <2>6, <2>7, <2>8, <2>9, <2>10, <2>11,
        <2>12, <2>13, <2>14
<1>32. ASSUME NEW l \in Listings, Publish(l)
      PROVE  IInv'
  <2>1. RunType'
    BY <1>32 DEF RunType, Publish, runVars
  <2>2. EvidenceType'
    BY <1>32 DEF EvidenceType, Publish, runVars
  <2>3. ProviderType'
    BY <1>32 DEF ProviderType, Publish, providerVars
  <2>4. FlushType'
    BY <1>32 DEF FlushType, Publish, flushVars
  <2>5. WorkType'
    BY <1>32 DEF WorkType, Publish, workVars
  <2>6. ListingType'
    BY <1>32 DEF ListingType, Publish
  <2>7. NewestInv'
    BY <1>32 DEF NewestInv, Publish, runVars, flushVars
  <2>8. ClaimInv'
    BY <1>32 DEF ClaimInv, Publish, runVars
  <2>9. SubmitInv'
    BY <1>32 DEF SubmitInv, Publish, runVars, providerVars
  <2>10. BoundInv'
    BY <1>32 DEF BoundInv, Publish, runVars, providerVars
  <2>11. FlushInv'
    BY <1>32 DEF FlushInv, Publish, runVars, providerVars, flushVars
  <2>12. WorkInv'
    BY <1>32 DEF WorkInv, Publish, runVars, providerVars, workVars
  <2>13. ListInv'
    BY <1>32
    DEF BoundInv, WorkInv, ListInv, EvidenceType, ListingType, Publish, runVars
  <2>14. PostInv'
    BY <1>32 DEF PostInv, Publish
  <2> QED
    BY <2>1, <2>2, <2>3, <2>4, <2>5, <2>6, <2>7, <2>8, <2>9, <2>10, <2>11,
        <2>12, <2>13, <2>14
<1>41. ASSUME NEW l \in Listings, PublishAgain(l)
      PROVE  IInv'
  <2>1. RunType'
    BY <1>41 DEF RunType, PublishAgain, runVars
  <2>2. EvidenceType'
    BY <1>41 DEF EvidenceType, PublishAgain, runVars
  <2>3. ProviderType'
    BY <1>41 DEF ProviderType, PublishAgain, providerVars
  <2>4. FlushType'
    BY <1>41 DEF FlushType, PublishAgain, flushVars
  <2>5. WorkType'
    BY <1>41 DEF WorkType, PublishAgain, workVars
  <2>6. ListingType'
    BY <1>41 DEF FlushType, RunType, ListingType, PublishAgain
  <2>7. NewestInv'
    BY <1>41 DEF NewestInv, PublishAgain, runVars, flushVars
  <2>8. ClaimInv'
    BY <1>41 DEF ClaimInv, PublishAgain, runVars
  <2>9. SubmitInv'
    BY <1>41 DEF SubmitInv, PublishAgain, runVars, providerVars
  <2>10. BoundInv'
    BY <1>41 DEF BoundInv, PublishAgain, runVars, providerVars
  <2>11. FlushInv'
    BY <1>41 DEF FlushInv, PublishAgain, runVars, providerVars, flushVars
  <2>12. WorkInv'
    BY <1>41 DEF WorkInv, PublishAgain, runVars, providerVars, workVars
  <2>13. ListInv'
    BY <1>41
    DEF BoundInv, WorkInv, ListInv, EvidenceType, ListingType, PublishAgain, runVars
  <2>14. PostInv'
    BY <1>41 DEF PostInv, PublishAgain
  <2> QED
    BY <2>1, <2>2, <2>3, <2>4, <2>5, <2>6, <2>7, <2>8, <2>9, <2>10, <2>11,
        <2>12, <2>13, <2>14
<1>33. CASE Deactivate
  <2>1. RunType'
    BY <1>33
    DEF RunType, Active, Terminal, Deactivate, Fenced, NeverSubmitted, Move,
        Fault, claimVars
  <2>2. EvidenceType'
    BY <1>33 DEF EvidenceType, Deactivate, evidenceVars
  <2>3. ProviderType'
    BY <1>33 DEF ProviderType, Deactivate, providerVars
  <2>4. FlushType'
    BY <1>33
    DEF FlushType, Deactivate, Fenced, NeverSubmitted, Move, Fault, flushVars,
        Runs
  <2>5. WorkType'
    BY <1>33 DEF WorkType, Deactivate, workVars
  <2>6. ListingType'
    BY <1>33
    DEF ListingType, Deactivate, Fenced, NeverSubmitted, Move, Fault,
        listingVars
  <2>7. NewestInv'
    BY <1>33
    DEF NewestInv, ClaimInv, FlushInv, RunType, FlushType, ListingType, Owning,
        Active, Deactivate, Fenced, NeverSubmitted, Move, Fault, claimVars,
        flushVars, Runs
  <2>8. ClaimInv'
    BY <1>33
    DEF ClaimInv, NewestInv, FlushInv, RunType, Active, Deactivate, Fenced,
        NeverSubmitted, Move, Fault, claimVars
  <2>9. SubmitInv'
    <3>1. \/ UNCHANGED claimVars
          \/ \E g \in Runs : state[g] \in Active /\ Fenced(g, "cancelled")
      BY <1>33 DEF Deactivate
    <3>2. \E g \in Runs : MovedOn(g)
      <4>1. CASE UNCHANGED claimVars
        BY <4>1 DEF claimVars, MovedOn, Runs
      <4>2. CASE \E g \in Runs : state[g] \in Active /\ Fenced(g, "cancelled")
        BY <4>2, FencedMovedOn
      <4> QED
        BY <3>1, <4>1, <4>2
    <3>3. PICK g \in Runs : MovedOn(g)
      BY <3>2
    <3>4. UNCHANGED <<pred, bound, object, latest, content, flushVars, workVars, posts>>
      BY <1>33 DEF Deactivate, evidenceVars, providerVars
    <3> QED
      BY <3>3, <3>4, SubmitStays
  <2>10. BoundInv'
    BY <1>33 DEF BoundInv, Deactivate, evidenceVars, providerVars
  <2>11. FlushInv'
    <3>1. \/ UNCHANGED claimVars
          \/ \E g \in Runs : state[g] \in Active /\ Fenced(g, "cancelled")
      BY <1>33 DEF Deactivate
    <3>2. \E g \in Runs : MovedOn(g)
      <4>1. CASE UNCHANGED claimVars
        BY <4>1 DEF claimVars, MovedOn, Runs
      <4>2. CASE \E g \in Runs : state[g] \in Active /\ Fenced(g, "cancelled")
        BY <4>2, FencedMovedOn
      <4> QED
        BY <3>1, <4>1, <4>2
    <3>3. PICK g \in Runs : MovedOn(g)
      BY <3>2
    <3>4. UNCHANGED <<pred, bound, object, latest, content, flushVars, workVars, posts>>
      BY <1>33 DEF Deactivate, evidenceVars, providerVars
    <3>5. fpc # "idle" => fgen \in Runs
      BY DEF NewestInv, FlushType, Runs
    <3> QED
      BY <3>3, <3>4, <3>5, FlushStays
  <2>12. WorkInv'
    <3>1. \/ UNCHANGED claimVars
          \/ \E g \in Runs : state[g] \in Active /\ Fenced(g, "cancelled")
      BY <1>33 DEF Deactivate
    <3>2. \E g \in Runs : MovedOn(g)
      <4>1. CASE UNCHANGED claimVars
        BY <4>1 DEF claimVars, MovedOn, Runs
      <4>2. CASE \E g \in Runs : state[g] \in Active /\ Fenced(g, "cancelled")
        BY <4>2, FencedMovedOn
      <4> QED
        BY <3>1, <4>1, <4>2
    <3>3. PICK g \in Runs : MovedOn(g)
      BY <3>2
    <3>4. UNCHANGED <<pred, bound, object, latest, content, flushVars, workVars, posts>>
      BY <1>33 DEF Deactivate, evidenceVars, providerVars
    <3>5. latest \in Nat
      BY DEF ProviderType
    <3>6. \A h \in Runs, w \in Workers : owner'[h] = w => owner[h] = w /\ state'[h] = state[h]
      BY <3>3 DEF MovedOn
    <3> QED
      BY <3>4, <3>5, <3>6, WorkStays DEF workVars
  <2>13. ListInv'
    BY <1>33 DEF ListInv, Deactivate, evidenceVars, listingVars
  <2>14. PostInv'
    BY <1>33 DEF PostInv, Deactivate
  <2> QED
    BY <2>1, <2>2, <2>3, <2>4, <2>5, <2>6, <2>7, <2>8, <2>9, <2>10, <2>11,
        <2>12, <2>13, <2>14
<1>34. CASE Suspend
  <2>1. RunType'
    BY <1>34 DEF RunType, Suspend, runVars
  <2>2. EvidenceType'
    BY <1>34 DEF EvidenceType, Suspend, runVars
  <2>3. ProviderType'
    BY <1>34 DEF ProviderType, Suspend, providerVars
  <2>4. FlushType'
    BY <1>34 DEF FlushType, Suspend, Fault, flushVars, Runs
  <2>5. WorkType'
    BY <1>34 DEF WorkType, Suspend, workVars
  <2>6. ListingType'
    BY <1>34 DEF ListingType, Suspend, Fault, listingVars
  <2>7. NewestInv'
    BY <1>34 DEF NewestInv, Suspend, runVars, flushVars
  <2>8. ClaimInv'
    BY <1>34 DEF ClaimInv, Suspend, runVars
  <2>9. SubmitInv'
    BY <1>34 DEF SubmitInv, Suspend, runVars, providerVars
  <2>10. BoundInv'
    BY <1>34 DEF BoundInv, Suspend, runVars, providerVars
  <2>11. FlushInv'
    BY <1>34 DEF FlushInv, Suspend, runVars, providerVars, flushVars
  <2>12. WorkInv'
    BY <1>34 DEF WorkInv, Suspend, runVars, providerVars, workVars
  <2>13. ListInv'
    BY <1>34 DEF ListInv, Suspend, runVars, listingVars
  <2>14. PostInv'
    BY <1>34 DEF PostInv, Suspend
  <2> QED
    BY <2>1, <2>2, <2>3, <2>4, <2>5, <2>6, <2>7, <2>8, <2>9, <2>10, <2>11,
        <2>12, <2>13, <2>14
<1>35. CASE Restore
  <2>1. RunType'
    BY <1>35 DEF RunType, Restore, runVars
  <2>2. EvidenceType'
    BY <1>35 DEF EvidenceType, Restore, runVars
  <2>3. ProviderType'
    BY <1>35 DEF ProviderType, Restore, providerVars
  <2>4. FlushType'
    BY <1>35 DEF FlushType, Restore, flushVars, Runs
  <2>5. WorkType'
    BY <1>35 DEF WorkType, Restore, workVars
  <2>6. ListingType'
    BY <1>35 DEF ListingType, Restore, listingVars
  <2>7. NewestInv'
    BY <1>35 DEF NewestInv, Restore, runVars, flushVars
  <2>8. ClaimInv'
    BY <1>35 DEF ClaimInv, Restore, runVars
  <2>9. SubmitInv'
    BY <1>35 DEF SubmitInv, Restore, runVars, providerVars
  <2>10. BoundInv'
    BY <1>35 DEF BoundInv, Restore, runVars, providerVars
  <2>11. FlushInv'
    BY <1>35 DEF FlushInv, Restore, runVars, providerVars, flushVars
  <2>12. WorkInv'
    BY <1>35 DEF WorkInv, Restore, runVars, providerVars, workVars
  <2>13. ListInv'
    BY <1>35 DEF ListInv, Restore, runVars, listingVars
  <2>14. PostInv'
    BY <1>35 DEF PostInv, Restore
  <2> QED
    BY <2>1, <2>2, <2>3, <2>4, <2>5, <2>6, <2>7, <2>8, <2>9, <2>10, <2>11,
        <2>12, <2>13, <2>14
<1>36. ASSUME NEW g \in Runs, CancelInactive(g)
      PROVE  IInv'
  <2>1. RunType'
    BY <1>36
    DEF RunType, Active, Terminal, CancelInactive, Fenced, NeverSubmitted, Move
  <2>2. EvidenceType'
    BY <1>36 DEF EvidenceType, CancelInactive, evidenceVars
  <2>3. ProviderType'
    BY <1>36 DEF ProviderType, CancelInactive, providerVars
  <2>4. FlushType'
    BY <1>36 DEF FlushType, CancelInactive, flushVars
  <2>5. WorkType'
    BY <1>36 DEF WorkType, CancelInactive, workVars
  <2>6. ListingType'
    BY <1>36 DEF ListingType, CancelInactive, listingVars
  <2>7. NewestInv'
    BY <1>36
    DEF NewestInv, ClaimInv, FlushInv, RunType, FlushType, ListingType, Owning,
        Active, CancelInactive, Fenced, NeverSubmitted, Move, flushVars, Runs
  <2>8. ClaimInv'
    BY <1>36
    DEF ClaimInv, NewestInv, FlushInv, RunType, Active, CancelInactive, Fenced,
        NeverSubmitted, Move
  <2>9. SubmitInv'
    <3>3. MovedOn(g)
      BY <1>36, FencedMovedOn DEF CancelInactive
    <3>4. UNCHANGED <<pred, bound, object, latest, content, flushVars, workVars, posts>>
      BY <1>36 DEF CancelInactive, evidenceVars, providerVars
    <3> QED
      BY <3>3, <3>4, SubmitStays
  <2>10. BoundInv'
    BY <1>36 DEF BoundInv, CancelInactive, evidenceVars, providerVars
  <2>11. FlushInv'
    <3>3. MovedOn(g)
      BY <1>36, FencedMovedOn DEF CancelInactive
    <3>4. UNCHANGED <<pred, bound, object, latest, content, flushVars, workVars, posts>>
      BY <1>36 DEF CancelInactive, evidenceVars, providerVars
    <3>5. fpc # "idle" => fgen \in Runs
      BY DEF NewestInv, FlushType, Runs
    <3> QED
      BY <3>3, <3>4, <3>5, FlushStays
  <2>12. WorkInv'
    <3>3. MovedOn(g)
      BY <1>36, FencedMovedOn DEF CancelInactive
    <3>4. UNCHANGED <<pred, bound, object, latest, content, flushVars, workVars, posts>>
      BY <1>36 DEF CancelInactive, evidenceVars, providerVars
    <3>5. latest \in Nat
      BY DEF ProviderType
    <3>6. \A h \in Runs, w \in Workers : owner'[h] = w => owner[h] = w /\ state'[h] = state[h]
      BY <3>3 DEF MovedOn
    <3> QED
      BY <3>4, <3>5, <3>6, WorkStays DEF workVars
  <2>13. ListInv'
    BY <1>36 DEF ListInv, CancelInactive, evidenceVars, listingVars
  <2>14. PostInv'
    BY <1>36 DEF PostInv, CancelInactive
  <2> QED
    BY <2>1, <2>2, <2>3, <2>4, <2>5, <2>6, <2>7, <2>8, <2>9, <2>10, <2>11,
        <2>12, <2>13, <2>14
<1>37. ASSUME NEW g \in Runs, ChangeIdentity(g)
      PROVE  IInv'
  <2>1. RunType'
    BY <1>37
    DEF RunType, Active, Terminal, ChangeIdentity, NeverSubmitted, Move, Fault
  <2>2. EvidenceType'
    BY <1>37 DEF EvidenceType, ChangeIdentity, evidenceVars
  <2>3. ProviderType'
    BY <1>37 DEF ProviderType, ChangeIdentity, providerVars
  <2>4. FlushType'
    BY <1>37 DEF FlushType, ChangeIdentity, flushVars
  <2>5. WorkType'
    BY <1>37 DEF WorkType, ChangeIdentity, workVars
  <2>6. ListingType'
    BY <1>37
    DEF ListingType, ChangeIdentity, NeverSubmitted, Move, Fault, listingVars
  <2>7. NewestInv'
    BY <1>37
    DEF NewestInv, ClaimInv, FlushInv, RunType, FlushType, ListingType, Owning,
        Active, ChangeIdentity, NeverSubmitted, Move, Fault, flushVars, Runs
  <2>8. ClaimInv'
    BY <1>37
    DEF ClaimInv, NewestInv, FlushInv, RunType, Active, ChangeIdentity,
        NeverSubmitted, Move, Fault
  <2>9. SubmitInv'
    <3>3. MovedOn(g)
      BY <1>37, MoveMovedOn DEF ChangeIdentity, Submitted, NeverSubmitted
    <3>4. UNCHANGED <<pred, bound, object, latest, content, flushVars, workVars, posts>>
      BY <1>37 DEF ChangeIdentity, evidenceVars, providerVars
    <3> QED
      BY <3>3, <3>4, SubmitStays
  <2>10. BoundInv'
    BY <1>37 DEF BoundInv, ChangeIdentity, evidenceVars, providerVars
  <2>11. FlushInv'
    <3>3. MovedOn(g)
      BY <1>37, MoveMovedOn DEF ChangeIdentity, Submitted, NeverSubmitted
    <3>4. UNCHANGED <<pred, bound, object, latest, content, flushVars, workVars, posts>>
      BY <1>37 DEF ChangeIdentity, evidenceVars, providerVars
    <3>5. fpc # "idle" => fgen \in Runs
      BY DEF NewestInv, FlushType, Runs
    <3> QED
      BY <3>3, <3>4, <3>5, FlushStays
  <2>12. WorkInv'
    <3>3. MovedOn(g)
      BY <1>37, MoveMovedOn DEF ChangeIdentity, Submitted, NeverSubmitted
    <3>4. UNCHANGED <<pred, bound, object, latest, content, flushVars, workVars, posts>>
      BY <1>37 DEF ChangeIdentity, evidenceVars, providerVars
    <3>5. latest \in Nat
      BY DEF ProviderType
    <3>6. \A h \in Runs, w \in Workers : owner'[h] = w => owner[h] = w /\ state'[h] = state[h]
      BY <3>3 DEF MovedOn
    <3> QED
      BY <3>4, <3>5, <3>6, WorkStays DEF workVars
  <2>13. ListInv'
    BY <1>37 DEF ListInv, ChangeIdentity, evidenceVars, listingVars
  <2>14. PostInv'
    BY <1>37 DEF PostInv, ChangeIdentity
  <2> QED
    BY <2>1, <2>2, <2>3, <2>4, <2>5, <2>6, <2>7, <2>8, <2>9, <2>10, <2>11,
        <2>12, <2>13, <2>14
<1>38. ASSUME NEW g \in Runs, ReconcileRejected(g)
      PROVE  IInv'
  <2>1. RunType'
    BY <1>38 DEF RunType, Active, Terminal, ReconcileRejected, Move
  <2>2. EvidenceType'
    BY <1>38 DEF EvidenceType, ReconcileRejected, Move
  <2>3. ProviderType'
    BY <1>38 DEF ProviderType, ReconcileRejected, providerVars
  <2>4. FlushType'
    BY <1>38 DEF FlushType, ReconcileRejected, flushVars
  <2>5. WorkType'
    BY <1>38 DEF WorkType, ReconcileRejected, workVars
  <2>6. ListingType'
    BY <1>38 DEF ListingType, ReconcileRejected, listingVars
  <2>7. NewestInv'
    BY <1>38
    DEF NewestInv, ClaimInv, FlushInv, RunType, FlushType, ListingType, Owning,
        Active, ReconcileRejected, Move, flushVars, Runs
  <2>8. ClaimInv'
    BY <1>38
    DEF ClaimInv, NewestInv, FlushInv, RunType, Active, ReconcileRejected, Move
  <2>9. SubmitInv'
    BY <1>38
    DEF NewestInv, ClaimInv, SubmitInv, FlushInv, WorkInv, RunType,
        EvidenceType, ProviderType, FlushType, Submitted, Owning, Active,
        ReconcileRejected, Move, providerVars, Runs
  <2>10. BoundInv'
    BY <1>38 DEF BoundInv, ReconcileRejected, providerVars
  <2>11. FlushInv'
    <3>1. /\ owner' = [owner EXCEPT ![g] = NoOwner]
          /\ state' = [state EXCEPT ![g] = "failed"]
          /\ UNCHANGED <<fpc, fgen, fbase, posts, pred, bound, object, latest, content>>
      BY <1>38 DEF ReconcileRejected, Move, flushVars, providerVars
    <3>2. owner'[g] # Flush /\ state'[g] \notin Submitted
      BY <3>1, FeedRunsAssumption DEF RunType, Submitted
    <3>3. \A h \in Runs \ {g} : owner'[h] = owner[h] /\ state'[h] = state[h]
      BY <3>1 DEF RunType
    <3>4. fpc # "idle" => fgen \in Runs
      BY DEF NewestInv, FlushType, Runs
    <3> QED
      BY <3>1, <3>2, <3>3, <3>4 DEF FlushInv
  <2>12. WorkInv'
    BY <1>38, SMTT(30)
    DEF ClaimInv, SubmitInv, BoundInv, FlushInv, NewestInv, WorkInv, RunType,
        EvidenceType, ProviderType, WorkType, Active, ReconcileRejected, Move,
        providerVars, workVars
  <2>13. ListInv'
    BY <1>38 DEF ListInv, ReconcileRejected, listingVars
  <2>14. PostInv'
    BY <1>38 DEF PostInv, ReconcileRejected
  <2> QED
    BY <2>1, <2>2, <2>3, <2>4, <2>5, <2>6, <2>7, <2>8, <2>9, <2>10, <2>11,
        <2>12, <2>13, <2>14
<1>39. ASSUME NEW g \in Runs, NEW u \in 1..MaxUploads, ReconcileAccepted(g, u)
      PROVE  IInv'
  <2>1. RunType'
    BY <1>39 DEF RunType, Active, Terminal, ReconcileAccepted, Move, Fault
  <2>2. EvidenceType'
    BY <1>39 DEF EvidenceType, ReconcileAccepted, Move, Fault
  <2>3. ProviderType'
    BY <1>39 DEF ProviderType, ReconcileAccepted, providerVars
  <2>4. FlushType'
    BY <1>39 DEF FlushType, ReconcileAccepted, flushVars
  <2>5. WorkType'
    BY <1>39 DEF WorkType, ReconcileAccepted, workVars
  <2>6. ListingType'
    BY <1>39 DEF ListingType, ReconcileAccepted, Move, Fault, listingVars
  <2>7. NewestInv'
    BY <1>39
    DEF NewestInv, ClaimInv, FlushInv, RunType, FlushType, ListingType, Owning,
        Active, ReconcileAccepted, Move, Fault, flushVars, Runs
  <2>8. ClaimInv'
    BY <1>39
    DEF ClaimInv, NewestInv, FlushInv, RunType, Active, ReconcileAccepted,
        Move, Fault
  <2>9. SubmitInv'
    <3>1. Move(g, "polling", FALSE) /\ state[g] = "outcome_uncertain"
      BY <1>39 DEF ReconcileAccepted
    <3>2. MovedOn(g)
      BY <1>39, <3>1, MoveMovedOn DEF Submitted
    <3>3. UNCHANGED <<pred, object, latest, content, flushVars, workVars, posts>>
      BY <1>39 DEF ReconcileAccepted, providerVars
    <3>4. owner'[g] = NoOwner /\ state'[g] = "polling"
      BY <3>1, MoveEffect
    <3>5. \A h \in Runs : h # g => bound'[h] = bound[h]
      BY <1>39 DEF ReconcileAccepted, EvidenceType
    <3>6. \A h \in Runs : bound'[h] = bound[h] \/ state'[h] \in Submitted
      BY <3>4, <3>5 DEF Submitted
    <3> QED
      BY <3>2, <3>3, <3>6, SubmitStays
  <2>10. BoundInv'
    BY <1>39, SMTT(30)
    DEF SubmitInv, BoundInv, WorkInv, ClaimInv, EvidenceType, ProviderType,
        ReconcileAccepted, Move, Fault, providerVars
  <2>11. FlushInv'
    <3>1. Move(g, "polling", FALSE) /\ state[g] = "outcome_uncertain"
      BY <1>39 DEF ReconcileAccepted
    <3>2. MovedOn(g)
      BY <1>39, <3>1, MoveMovedOn DEF Submitted
    <3>3. UNCHANGED <<pred, object, latest, content, flushVars, workVars, posts>>
      BY <1>39 DEF ReconcileAccepted, providerVars
    <3>4. owner'[g] = NoOwner /\ state'[g] = "polling"
      BY <3>1, MoveEffect
    <3>5. \A h \in Runs : h # g => bound'[h] = bound[h]
      BY <1>39 DEF ReconcileAccepted, EvidenceType
    <3>6. \A h \in Runs : bound'[h] = bound[h] \/ (state[h] \in Submitted /\ owner'[h] = NoOwner)
      BY <3>1, <3>4, <3>5 DEF Submitted
    <3>7. fpc # "idle" => fgen \in Runs
      BY DEF NewestInv, FlushType, Runs
    <3> QED
      BY <3>2, <3>3, <3>6, <3>7, FlushStays
  <2>12. WorkInv'
    <3>1. Move(g, "polling", FALSE) /\ state[g] = "outcome_uncertain"
      BY <1>39 DEF ReconcileAccepted
    <3>2. MovedOn(g)
      BY <1>39, <3>1, MoveMovedOn DEF Submitted
    <3>3. UNCHANGED <<pred, object, latest, content, flushVars, workVars, posts>>
      BY <1>39 DEF ReconcileAccepted, providerVars
    <3>4. owner'[g] = NoOwner /\ state'[g] = "polling"
      BY <3>1, MoveEffect
    <3>5. \A h \in Runs : h # g => bound'[h] = bound[h]
      BY <1>39 DEF ReconcileAccepted, EvidenceType
    <3>6. latest \in Nat
      BY DEF ProviderType
    <3>7. \A h \in Runs, w \in Workers :
              owner'[h] = w => owner[h] = w /\ state'[h] = state[h] /\ bound'[h] = bound[h]
      BY <3>2, <3>4, <3>5 DEF MovedOn
    <3> QED
      BY <3>3, <3>6, <3>7, WorkStays DEF workVars
  <2>13. ListInv'
    BY <1>39
    DEF BoundInv, WorkInv, ListInv, EvidenceType, ListingType,
        ReconcileAccepted, Move, Fault, listingVars
  <2>14. PostInv'
    BY <1>39 DEF PostInv, ReconcileAccepted
  <2> QED
    BY <2>1, <2>2, <2>3, <2>4, <2>5, <2>6, <2>7, <2>8, <2>9, <2>10, <2>11,
        <2>12, <2>13, <2>14
<1>40. CASE UNCHANGED vars
  <2>1. RunType'
    BY <1>40 DEF RunType, vars, runVars, claimVars
  <2>2. EvidenceType'
    BY <1>40 DEF EvidenceType, vars, runVars, evidenceVars
  <2>3. ProviderType'
    BY <1>40 DEF ProviderType, vars, providerVars
  <2>4. FlushType'
    BY <1>40 DEF FlushType, vars, flushVars
  <2>5. WorkType'
    BY <1>40 DEF WorkType, vars, workVars
  <2>6. ListingType'
    BY <1>40 DEF ListingType, vars, listingVars
  <2>7. NewestInv'
    BY <1>40 DEF NewestInv, vars, runVars, claimVars, flushVars
  <2>8. ClaimInv'
    BY <1>40 DEF ClaimInv, vars, runVars, claimVars
  <2>9. SubmitInv'
    BY <1>40
    DEF SubmitInv, vars, runVars, claimVars, evidenceVars, providerVars
  <2>10. BoundInv'
    BY <1>40 DEF BoundInv, vars, runVars, evidenceVars, providerVars
  <2>11. FlushInv'
    BY <1>40
    DEF FlushInv, vars, runVars, claimVars, evidenceVars, providerVars,
        flushVars
  <2>12. WorkInv'
    BY <1>40
    DEF WorkInv, vars, runVars, claimVars, evidenceVars, providerVars, workVars
  <2>13. ListInv'
    BY <1>40 DEF ListInv, vars, runVars, evidenceVars, listingVars
  <2>14. PostInv'
    BY <1>40 DEF PostInv, vars
  <2> QED
    BY <2>1, <2>2, <2>3, <2>4, <2>5, <2>6, <2>7, <2>8, <2>9, <2>10, <2>11,
        <2>12, <2>13, <2>14
<1> QED
  BY <1>1, <1>2, <1>3, <1>4, <1>5, <1>6, <1>7, <1>8, <1>9, <1>10, <1>11, <1>12,
      <1>13, <1>14, <1>15, <1>16, <1>17, <1>18, <1>19, <1>20, <1>21, <1>22,
      <1>23, <1>24, <1>25, <1>26, <1>27, <1>28, <1>29, <1>30, <1>31, <1>32,
      <1>33, <1>34, <1>35, <1>36, <1>37, <1>38, <1>39, <1>40, <1>41
  DEF Next, FlushStep, Step

(* The inductive invariant holds in every reachable state.                 *)
THEOREM Invariant == Spec => []IInv
<1>1. Init => IInv
  BY InvariantInit
<1>2. IInv /\ [Next]_vars => IInv'
  BY InvariantStep
<1> QED
  BY <1>1, <1>2, PTL DEF Spec

(* Rows, claims and locals keep their shape.                               *)
THEOREM TypeCorrect == Spec => []TypeOK
<1>1. IInv => TypeOK
  BY DEF IInv
<1> QED
  BY <1>1, Invariant, PTL

(* record_provider_run_observation binds the upload of this generation.    *)
THEOREM PayloadBound == Spec => []BoundCarriesPayload
<1>1. IInv => BoundCarriesPayload
  BY DEF IInv, BoundInv, BoundCarriesPayload
<1> QED
  BY <1>1, Invariant, PTL

(* apply_report_page settles listings from the bound upload only.          *)
THEOREM SettledByOwn == Spec => []SettledByOwnUpload
<1>1. IInv => SettledByOwnUpload
  BY DEF IInv, ListInv, SettledByOwnUpload
<1> QED
  BY <1>1, Invariant, PTL

(* The flush sends the POST of a generation once, crashes and lapsed       *)
(* leases included.                                                        *)
THEOREM PostedOnce == Spec => []PostedAtMostOnce
<1>1. IInv => PostedAtMostOnce
  BY DEF IInv, PostInv, PostedAtMostOnce
<1> QED
  BY <1>1, Invariant, PTL

(* Only TriggerAutoload sends, and the others own nothing then.            *)
LEMMA SubmissionStep ==
    IInv /\ [Next]_vars => \A g \in Runs : posts'[g] # posts[g] =>
                              \A h \in Runs \ {g} : state[h] \notin Submitted
<1> SUFFICES ASSUME IInv, [Next]_vars, NEW g \in Runs, posts'[g] # posts[g],
                    NEW h \in Runs \ {g}
             PROVE  state[h] \notin Submitted
  OBVIOUS
<1>1. TriggerAutoload
  BY ZenonT(30) DEF Next, FlushStep, Step, vars, CreateRun, ClaimRun, GiveUpPreparing,
      StoreObject, ReadBaseline, PersistBoundary, RecordPost, ClearBoundary,
      FlushCrash, LatePost, LostPost, BecomeDue, Age, LeaseExpires,
      LeaseOverrun, ScheduledUpload, ProviderFinishes, FailOrphan, StepStale,
      Observe, Overdue, ReadFails, Bind, NotYetThere, IdentityMoved,
      StartReporting, ReadPage, CommitPage, StepCrash, StepClaim, Publish,
      PublishAgain,
      Deactivate, Suspend, Restore, CancelInactive, ChangeIdentity,
      ReconcileRejected, ReconcileAccepted
<1>2. g = fgen /\ fpc = "boundary"
  BY <1>1 DEF TriggerAutoload, IInv, TypeOK, ListingType, FlushType
<1> QED
  BY <1>2 DEF IInv, NewestInv, Owning, Submitted, Active

(* No generation is submitted over another unresolved one.                 *)
THEOREM SubmissionsExclusive == Spec => NoConcurrentSubmission
<1>1. IInv /\ [Next]_vars =>
        [\A g \in Runs : posts'[g] # posts[g] =>
            \A h \in Runs \ {g} : state[h] \notin Submitted]_vars
  BY SubmissionStep
<1> QED
  BY <1>1, Invariant, PTL DEF Spec, NoConcurrentSubmission
=============================================================================
