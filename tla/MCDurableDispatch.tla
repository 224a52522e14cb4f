--------------------------- MODULE MCDurableDispatch --------------------------
(* TLC instances of DurableDispatch: a row of each kind of target, and rows   *)
(* that resume the application of a stored media answer.  Rows of different   *)
(* jobs share nothing but the processes, so one job at a time is enough.      *)
EXTENDS DurableDispatch, FiniteSets, TLC

CONSTANTS MediaRows, AIRows, BulkRows,
          FirstResume, SecondResume,  \* sets: the resume rows of MediaRow, for
          MediaRow,                   \* its first and its second apply claim
          MaxClaims

MCKindOf == [d \in Dispatches |->
               IF d \in MediaRows THEN "media"
               ELSE IF d \in AIRows THEN "ai"
               ELSE IF d \in BulkRows THEN "bulk"
               ELSE IF d \in FirstResume \union SecondResume THEN "resume"
               ELSE "parse"]

MCJobOf == [d \in Dispatches |->
              IF MCKindOf[d] = "resume" THEN MediaRow ELSE d]

MCClaimOf == [d \in Dispatches |-> IF d \in FirstResume THEN 1
                                   ELSE IF d \in SecondResume THEN 2 ELSE 0]

(* Bound: the rows of one job exist in a behaviour. *)
OneJob ==
    Cardinality({JobOf[d] : d \in {e \in Dispatches : status[e] # "absent"}}) <= 1

(* Bound: the apply tokens of a job. *)
ClaimsBounded == \A d \in Dispatches : claims[d] <= MaxClaims

(* Bounds for the jobs that several workers may have at once: a media job     *)
(* with resume rows, and a parse job.  What goes wrong in delivery - send     *)
(* errors, lost, stale and repeated messages - is left to the other rows:     *)
(* here one publisher sends one row at a time, successfully, and the message  *)
(* is acknowledged by the worker that receives it.                            *)
Shared(d) ==
    \/ KindOf[d] = "parse"
    \/ \E r \in Dispatches : KindOf[r] = "resume" /\ JobOf[r] = JobOf[d]

Waiting(d) == status[d] \in {"publishing", "published"}

SmoothDelivery ==
    \A d \in Dispatches : status[d] # "absent" /\ Shared(d) =>
        /\ Cardinality({p \in Publishers : ppc[p] # "idle"}) <= 1
        /\ \A p \in Publishers : ppc[p] # "errored"
        /\ lease[d] = "expired" => status[d] = "running"
        /\ Waiting(d) => \/ <<d, claim_token[d]>> \in broker
                         \/ \E p \in Publishers : ppc[p] = "sending"
        /\ \A m \in broker : \/ Waiting(m[1]) /\ claim_token[m[1]] = m[2]
                            \/ \E w \in Workers : wpc[w] = "claimed"
        /\ \A e \in Dispatches \ {d} :
             ~(Waiting(d) \/ status[d] = "pending") \/ ~Waiting(e)

Processes == Permutations(Workers) \union Permutations(Publishers)
             \union Permutations(Tokens)
=============================================================================
