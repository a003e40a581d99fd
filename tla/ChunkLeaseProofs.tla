-------------------------- MODULE ChunkLeaseProofs --------------------------
(***************************************************************************)
(* Theorems about ChunkLease, for every set of chunks, workers and results *)
(* and every value of the limits.                                          *)
(***************************************************************************)
EXTENDS ChunkLease, TLAPS

-----------------------------------------------------------------------------
(* Types. *)

LEMMA Constants ==
  /\ AnyChunk \in Chunk
  /\ NewRow \in Row
  /\ Idle \in Work
  /\ NoComplete \in CompleteCall
  /\ NoFail \in FailCall
  /\ NoOperation \in OperatorCall
<1>1. AnyChunk \in Chunk
  BY ChunkLeaseAssumption DEF AnyChunk
<1>2. NewRow \in Row
  BY DEF NewRow, Row, Status, Lease
<1>3. QED
  BY <1>1, <1>2 DEF Idle, Work, Step, NoComplete, CompleteCall, NoFail,
     FailCall, NoOperation, OperatorCall, Phase

\* Every row a handler saves is a row.
LEMMA SavedRows ==
  ASSUME NEW old \in Row, NEW seen \in Row
  PROVE  /\ \A w \in Worker : ClaimedRow(old, w) \in Row
         /\ \A v \in Verdict \cup {NoVerdict} : CompletedRow(old, seen, v) \in Row
         /\ \A b \in BOOLEAN : FailedRow(old, seen, b) \in Row
         /\ RequeuedRow(old, seen) \in Row
         /\ MarkedFailedRow(old, seen) \in Row
<1>1. \A w \in Worker : ClaimedRow(old, w) \in Row
  BY DEF ClaimedRow, Row, Status, Lease
<1>2. \A v \in Verdict \cup {NoVerdict} : CompletedRow(old, seen, v) \in Row
  BY DEF CompletedRow, Saved, Row, Status, Lease
<1>3. \A s \in Status : ReleasedRow(old, seen, s) \in Row
  BY DEF ReleasedRow, Saved, Row, Status, Lease
<1>4. \A b \in BOOLEAN : FailStatus(seen, b) \in Status /\ "failed" \in Status
  BY DEF FailStatus, Status
<1>5. RequeuedRow(old, seen) \in Row
  BY DEF RequeuedRow, Saved, Row, Status, Lease
<1>6. QED
  BY <1>1, <1>2, <1>3, <1>4, <1>5 DEF FailedRow, MarkedFailedRow

LEMMA FailsType ==
  ASSUME TypeOK, NEW w \in Worker, NEW b \in BOOLEAN, Fails(w, b)
  PROVE  work' \in [Worker -> Work]
<1>1. work \in [Worker -> Work] /\ work[w] \in Work
  BY DEF TypeOK
<1>2. [work[w] EXCEPT !.pc = "fail", !.verdict = NoVerdict, !.retryable = b]
        \in Work
  BY <1>1 DEF Work, Step
<1>3. work' = [work EXCEPT ![w] = [work[w] EXCEPT !.pc = "fail",
                                                 !.verdict = NoVerdict,
                                                 !.retryable = b]]
  BY <1>1 DEF Fails
<1>4. QED
  BY <1>1, <1>2, <1>3

LEMMA CompleteAnsweredType ==
  ASSUME TypeOK, NEW w \in Worker, NEW ok \in BOOLEAN, CompleteAnswered(w, ok)
  PROVE  /\ work' \in [Worker -> Work]
         /\ completeCall' \in [Worker -> CompleteCall]
<1>1. completeCall' \in [Worker -> CompleteCall]
  BY Constants DEF CompleteAnswered, TypeOK
<1>2. CASE Fails(w, TRUE)
  BY <1>1, <1>2, FailsType
<1>3. CASE work' = work \/ work' = [work EXCEPT ![w] = Idle]
  BY <1>1, <1>3, Constants DEF TypeOK
<1>4. QED
  BY <1>2, <1>3 DEF CompleteAnswered

LEMMA FailAnsweredType ==
  ASSUME TypeOK, NEW w \in Worker, FailAnswered(w)
  PROVE  /\ work' \in [Worker -> Work]
         /\ failCall' \in [Worker -> FailCall]
BY Constants DEF FailAnswered, TypeOK

LEMMA TypeOKStep == TypeOK /\ [Next]_vars => TypeOK'
<1> SUFFICES ASSUME TypeOK, [Next]_vars PROVE TypeOK'
  OBVIOUS
<1>1. ASSUME NEW c \in Chunk, LeaseExpires(c) PROVE TypeOK'
  <2>1. row' \in [Chunk -> Row]
    <3>1. row \in [Chunk -> Row] /\ row[c] \in Row
      BY DEF TypeOK
    <3>2. [row[c] EXCEPT !.lease = "expired"] \in Row
      BY <3>1 DEF Row, Lease
    <3>3. row' = [row EXCEPT ![c] = [row[c] EXCEPT !.lease = "expired"]]
      BY <1>1, <3>1 DEF LeaseExpires
    <3>4. QED
      BY <3>1, <3>2, <3>3
  <2>2. QED
    BY <1>1, <2>1 DEF LeaseExpires, TypeOK
<1>2. ASSUME NEW c \in Chunk, BackoffElapses(c) PROVE TypeOK'
  BY <1>2 DEF BackoffElapses, TypeOK
<1>3. ASSUME NEW w \in Worker, NEW c \in Chunk, ClaimNext(w, c) PROVE TypeOK'
  <2>1. row' \in [Chunk -> Row]
    BY <1>3, SavedRows DEF ClaimNext, TypeOK
  <2>2. work' \in [Worker -> Work]
    <3>1. [pc |-> "claimed", chunk |-> c, verdict |-> NoVerdict,
           retryable |-> TRUE] \in Work
      BY DEF Work, Step
    <3>2. QED
      BY <1>3, <3>1 DEF ClaimNext, TypeOK
  <2>3. QED
    BY <1>3, <2>1, <2>2 DEF ClaimNext, TypeOK
<1>4. ASSUME NEW w \in Worker, Verify(w) PROVE TypeOK'
  <2>1. work' \in [Worker -> Work]
    <3>1. CASE \E v \in Verdict : work' = [work EXCEPT ![w].pc = "valid",
                                                       ![w].verdict = v]
      <4>1. PICK v \in Verdict : work' = [work EXCEPT ![w].pc = "valid",
                                                     ![w].verdict = v]
        BY <3>1
      <4>2. work \in [Worker -> Work] /\ work[w] \in Work
        BY DEF TypeOK
      <4>3. [work[w] EXCEPT !.pc = "valid", !.verdict = v] \in Work
        BY <4>2 DEF Work, Step
      <4>4. work' = [work EXCEPT ![w] = [work[w] EXCEPT !.pc = "valid",
                                                       !.verdict = v]]
        BY <4>1, <4>2
      <4>5. QED
        BY <4>2, <4>3, <4>4
    <3>2. CASE \E retryable \in BOOLEAN : Fails(w, retryable)
      BY <3>2, FailsType
    <3>3. QED
      BY <1>4, <3>1, <3>2 DEF Verify
  <2>2. QED
    BY <1>4, <2>1 DEF Verify, TypeOK
<1>5. ASSUME NEW w \in Worker, Upload(w) PROVE TypeOK'
  <2>1. work' \in [Worker -> Work]
    <3>1. CASE Fails(w, TRUE)
      BY <3>1, FailsType
    <3>2. CASE work' = [work EXCEPT ![w].pc = NextUpload[work[w].pc]]
      <4>1. NextUpload[work[w].pc] \in Step
        BY <1>5 DEF Upload, NextUpload, OutputKind, Step
      <4>2. QED
        BY <3>2, <4>1 DEF TypeOK, Work
    <3>3. QED
      BY <1>5, <3>1, <3>2 DEF Upload
  <2>2. output' \in [Chunk -> [OutputKind -> Verdict \cup {NoVerdict}]]
    <3> DEFINE c == work[w].chunk
               k == work[w].pc
               v == work[w].verdict
    <3>1. c \in Chunk /\ k \in OutputKind /\ v \in Verdict \cup {NoVerdict}
      BY <1>5 DEF Upload, TypeOK, Work
    <3>2. output' = [output EXCEPT ![c][k] = v] \/ output' = output
      BY <1>5 DEF Upload
    <3> HIDE DEF c, k, v
    <3>3. QED
      BY <3>1, <3>2 DEF TypeOK
  <2>3. QED
    BY <1>5, <2>1, <2>2 DEF Upload, TypeOK
<1>6. ASSUME NEW w \in Worker, SendComplete(w) PROVE TypeOK'
  <2>1. completeCall' \in [Worker -> CompleteCall]
    BY <1>6, Constants DEF SendComplete, TypeOK, CompleteCall, Phase,
       Work
  <2>2. work' \in [Worker -> Work]
    BY <1>6 DEF SendComplete, TypeOK, Work, Step
  <2>3. QED
    BY <1>6, <2>1, <2>2 DEF SendComplete, TypeOK
<1>7. ASSUME NEW w \in Worker, SendFail(w) PROVE TypeOK'
  <2>1. failCall' \in [Worker -> FailCall]
    BY <1>7, Constants DEF SendFail, TypeOK, FailCall, Phase, Work
  <2>2. work' \in [Worker -> Work]
    BY <1>7 DEF SendFail, TypeOK, Work, Step
  <2>3. QED
    BY <1>7, <2>1, <2>2 DEF SendFail, TypeOK
<1>8. ASSUME NEW w \in Worker, GiveUp(w) PROVE TypeOK'
  <2>1. work' \in [Worker -> Work]
    BY <1>8, FailsType, Constants DEF GiveUp, TypeOK
  <2>2. QED
    BY <1>8, <2>1 DEF GiveUp, TypeOK
<1>9. ASSUME NEW w \in Worker, Crash(w) PROVE TypeOK'
  BY <1>9, Constants DEF Crash, TypeOK
<1>10. ASSUME NEW w \in Worker, CompleteLost(w) PROVE TypeOK'
  BY <1>10, CompleteAnsweredType DEF CompleteLost, TypeOK
<1>11. ASSUME NEW w \in Worker, CompleteRead(w) PROVE TypeOK'
  <2> DEFINE c == completeCall[w].chunk
  <2>1. CASE CompleteAnswered(w, FALSE)
             \/ CompleteAnswered(w, PayloadMatches(row[c], completeCall[w].verdict))
    BY <1>11, <2>1, CompleteAnsweredType DEF CompleteRead, TypeOK,
       PayloadMatches, Row
  <2>2. CASE completeCall' = [completeCall EXCEPT ![w].phase = "read",
                                                  ![w].seen = row[c]]
             /\ UNCHANGED work
    <3>1. c \in Chunk /\ row[c] \in Row
      BY DEF TypeOK, CompleteCall
    <3>2. [completeCall[w] EXCEPT !.phase = "read", !.seen = row[c]]
            \in CompleteCall
      BY <3>1 DEF TypeOK, CompleteCall, Phase
    <3>3. completeCall'
            = [completeCall EXCEPT
                 ![w] = [completeCall[w] EXCEPT !.phase = "read",
                                                !.seen = row[c]]]
      BY <2>2 DEF TypeOK
    <3>4. completeCall' \in [Worker -> CompleteCall]
      BY <3>2, <3>3 DEF TypeOK
    <3>5. QED
      BY <1>11, <2>2, <3>4 DEF CompleteRead, TypeOK
  <2>3. QED
    BY <1>11, <2>1, <2>2 DEF CompleteRead
<1>12. ASSUME NEW w \in Worker, CompleteHandoffFails(w) PROVE TypeOK'
  BY <1>12, CompleteAnsweredType DEF CompleteHandoffFails, TypeOK
<1>13. ASSUME NEW w \in Worker, CompleteWrite(w) PROVE TypeOK'
  <2>1. /\ completeCall[w].chunk \in Chunk
        /\ row[completeCall[w].chunk] \in Row
        /\ completeCall[w].seen \in Row
        /\ completeCall[w].verdict \in Verdict \cup {NoVerdict}
    BY DEF TypeOK, CompleteCall
  <2>2. row' \in [Chunk -> Row]
    BY <1>13, <2>1, SavedRows DEF CompleteWrite, TypeOK
  <2>3. work' \in [Worker -> Work] /\ completeCall' \in [Worker -> CompleteCall]
    <3>1. CASE CompleteAnswered(w, TRUE)
      BY <3>1, CompleteAnsweredType
    <3>2. CASE /\ completeCall' = [completeCall EXCEPT ![w].phase = "retry_plan"]
               /\ UNCHANGED work
      BY <3>2 DEF TypeOK, CompleteCall, Phase
    <3>3. QED
      BY <1>13, <3>1, <3>2 DEF CompleteWrite
  <2>4. QED
    BY <1>13, <2>2, <2>3 DEF CompleteWrite, TypeOK
<1>14. ASSUME NEW w \in Worker, CompleteRetryPlan(w) PROVE TypeOK'
  <2>1. row' \in [Chunk -> Row]
    <3>1. \A r \in Row : [r EXCEPT !.filtered = TRUE] \in Row
      BY DEF Row
    <3>2. CASE row' = [row EXCEPT ![completeCall[w].chunk].filtered = TRUE]
      BY <3>1, <3>2 DEF TypeOK
    <3>3. QED
      BY <1>14, <3>2 DEF CompleteRetryPlan, TypeOK
  <2>2. QED
    BY <1>14, <2>1, CompleteAnsweredType DEF CompleteRetryPlan, TypeOK
<1>15. ASSUME NEW w \in Worker, FailLost(w) PROVE TypeOK'
  BY <1>15, FailAnsweredType DEF FailLost, TypeOK
<1>16. ASSUME NEW w \in Worker, FailRead(w) PROVE TypeOK'
  <2>1. CASE FailAnswered(w)
    BY <1>16, <2>1, FailAnsweredType DEF FailRead, TypeOK
  <2>2. CASE /\ failCall' = [failCall EXCEPT ![w].phase = "read",
                                             ![w].seen = row[failCall[w].chunk]]
             /\ UNCHANGED work
    <3>1. failCall[w].chunk \in Chunk /\ row[failCall[w].chunk] \in Row
      BY DEF TypeOK, FailCall
    <3>2. [failCall[w] EXCEPT !.phase = "read",
                              !.seen = row[failCall[w].chunk]] \in FailCall
      BY <3>1 DEF TypeOK, FailCall, Phase
    <3>3. failCall' \in [Worker -> FailCall]
      BY <2>2, <3>2 DEF TypeOK
    <3>4. QED
      BY <1>16, <2>2, <3>3 DEF FailRead, TypeOK
  <2>3. QED
    BY <1>16, <2>1, <2>2 DEF FailRead
<1>17. ASSUME NEW w \in Worker, FailWrite(w) PROVE TypeOK'
  <2>1. /\ failCall[w].chunk \in Chunk
        /\ row[failCall[w].chunk] \in Row
        /\ failCall[w].seen \in Row
        /\ failCall[w].retryable \in BOOLEAN
    BY DEF TypeOK, FailCall
  <2>2. row' \in [Chunk -> Row]
    BY <1>17, <2>1, SavedRows DEF FailWrite, TypeOK
  <2>3. QED
    BY <1>17, <2>2, FailAnsweredType DEF FailWrite, TypeOK
<1>18. ASSUME NEW c \in OperatorChunks, NEW kind \in {"requeue", "mark_failed"},
              OperatorRead(c, kind)
       PROVE  TypeOK'
  BY <1>18, ChunkLeaseAssumption DEF OperatorRead, TypeOK, OperatorCall
<1>19. ASSUME OperatorWrite PROVE TypeOK'
  <2>1. /\ operator.chunk \in Chunk
        /\ row[operator.chunk] \in Row
        /\ operator.seen \in Row
    BY DEF TypeOK, OperatorCall
  <2>2. row' \in [Chunk -> Row]
    BY <1>19, <2>1, SavedRows DEF OperatorWrite, TypeOK
  <2>3. QED
    BY <1>19, <2>2, Constants DEF OperatorWrite, TypeOK
<1>20. ASSUME NEW chosen, BulkRequeue(chosen) PROVE TypeOK'
  <2>1. row' \in [Chunk -> Row]
    <3>1. \A n \in Nat : [NewRow EXCEPT !.attempts = n] \in Row
      BY Constants DEF Row
    <3>2. \A c \in Chunk : row[c].attempts + 1 \in Nat /\ row[c] \in Row
      BY DEF TypeOK, Row
    <3>3. QED
      BY <1>20, <3>1, <3>2 DEF BulkRequeue
  <2>2. QED
    BY <1>20, <2>1 DEF BulkRequeue, TypeOK
<1>21. CASE UNCHANGED vars
  BY <1>21 DEF vars, TypeOK
<1>22. QED
  BY <1>1, <1>2, <1>3, <1>4, <1>5, <1>6, <1>7, <1>8, <1>9, <1>10, <1>11,
     <1>12, <1>13, <1>14, <1>15, <1>16, <1>17, <1>18, <1>19, <1>20, <1>21
  DEF Next, WorkerStep, Handler, Disruption, Operator, RequeueFailedChunks,
      RequeueStuckChunks

\* The tables, the requests in flight and the workers' steps keep the shapes
\* that the endpoints, the Go client and the operator's buttons give them.
THEOREM TypeCorrect == Spec => []TypeOK
<1>1. Init => TypeOK
  BY Constants DEF Init, TypeOK
<1>2. QED
  BY <1>1, TypeOKStep, PTL DEF Spec

-----------------------------------------------------------------------------
(* One attempt at a time.                                                   *)
(*                                                                          *)
(* HeldOnce is inductive for the chunks the operator leaves alone:          *)
(* claim-next needs a pending row, which nobody holds; the fail request     *)
(* that makes a row pending again ends the only hold on it; and no other    *)
(* step adds a holder.                                                      *)

LEMMA FailsHolds ==
  ASSUME TypeOK, NEW w \in Worker, NEW b \in BOOLEAN, Fails(w, b),
         work[w].pc \notin {"idle", "failing"}
  PROVE  \A u \in Worker, c \in Chunk : Busy(u, c)' => Busy(u, c)
<1> SUFFICES ASSUME NEW u \in Worker, NEW c \in Chunk, Busy(u, c)'
             PROVE  Busy(u, c)
  OBVIOUS
<1>1. work \in [Worker -> Work] /\ work[u] \in Work /\ work[w] \in Work
  BY DEF TypeOK
<1>2. CASE u = w
  <2>1. work'[w].chunk = work[w].chunk
    BY <1>1 DEF Fails, Work
  <2>2. QED
    BY <1>2, <2>1 DEF Busy
<1>3. CASE u # w
  <2>1. work'[u] = work[u]
    BY <1>1, <1>3 DEF Fails
  <2>2. QED
    BY <2>1 DEF Busy
<1>4. QED
  BY <1>2, <1>3

LEMMA CompleteAnsweredHolds ==
  ASSUME TypeOK, NEW w \in Worker, NEW ok \in BOOLEAN, CompleteAnswered(w, ok)
  PROVE  \A u \in Worker, c \in Chunk :
           /\ Busy(u, c)' => Busy(u, c)
           /\ Completing(u, c)' => /\ Completing(u, c)
                                   /\ completeCall'[u] = completeCall[u]
<1>1. \A u \in Worker, c \in Chunk :
        Completing(u, c)' => /\ Completing(u, c)
                             /\ completeCall'[u] = completeCall[u]
  BY DEF CompleteAnswered, TypeOK, CompleteCall, Completing, NoComplete
<1>2. CASE Fails(w, TRUE) /\ work[w].pc = "completing"
  BY <1>1, <1>2, FailsHolds
<1>3. CASE work' = work
  BY <1>1, <1>3 DEF Busy
<1>4. CASE work' = [work EXCEPT ![w] = Idle]
  <2>1. work \in [Worker -> Work] /\ Idle.pc = "idle"
    BY DEF TypeOK, Idle
  <2>2. \A u \in Worker : u # w => work'[u] = work[u]
    BY <1>4, <2>1
  <2>3. work'[w].pc = "idle"
    BY <1>4, <2>1
  <2>4. QED
    BY <1>1, <2>2, <2>3 DEF Busy
<1>5. QED
  BY <1>2, <1>3, <1>4 DEF CompleteAnswered

LEMMA FailAnsweredHolds ==
  ASSUME TypeOK, NEW w \in Worker, FailAnswered(w)
  PROVE  \A u \in Worker, c \in Chunk :
           /\ Busy(u, c)' => Busy(u, c)
           /\ Failing(u, c)' => /\ u # w
                                /\ Failing(u, c)
                                /\ failCall'[u] = failCall[u]
<1>1. \A u \in Worker, c \in Chunk : Busy(u, c)' => Busy(u, c)
  BY DEF FailAnswered, TypeOK, Work, Busy, Idle
<1>2. QED
  BY <1>1 DEF FailAnswered, TypeOK, FailCall, Failing, NoFail

\* A step keeps the invariant if it adds no holder, gives no chunk back, counts
\* no attempt and takes only fresh snapshots.
LEMMA NoNewHolder ==
  ASSUME NEW S \in SUBSET Chunk, HeldOnce(S),
         \A c \in S :
           /\ row'[c].attempts = row[c].attempts
           /\ \/ row'[c].status = "completed"
              \/ /\ row'[c].status = row[c].status
                 /\ row[c].lease # "none" => row'[c].lease # "none",
         \A w \in Worker, c \in S :
           /\ Holds(w, c)' => Holds(w, c)
           /\ ~(Busy(w, c)' /\ Failing(w, c)')
           /\ FreshFailure(w, c)'
           /\ FreshCompletion(w, c)'
  PROVE  HeldOnce(S)'
BY DEF HeldOnce

\* The same for a step that leaves the table alone and only lets calls end.
LEMMA CallsEnd ==
  ASSUME NEW S \in SUBSET Chunk, HeldOnce(S), UNCHANGED row,
         \A w \in Worker, c \in S :
           /\ Busy(w, c)' => Busy(w, c)
           /\ Failing(w, c)' => Failing(w, c) /\ failCall'[w] = failCall[w]
           /\ Completing(w, c)' => /\ Completing(w, c)
                                   /\ completeCall'[w] = completeCall[w]
  PROVE  HeldOnce(S)'
<1>1. \A w \in Worker, c \in S :
        /\ Holds(w, c)' => Holds(w, c)
        /\ ~(Busy(w, c)' /\ Failing(w, c)')
  BY DEF HeldOnce, Holds
<1>2. \A w \in Worker, c \in S :
        FreshFailure(w, c)' /\ FreshCompletion(w, c)'
  BY DEF HeldOnce, FreshFailure, FreshCompletion
<1>3. QED
  BY <1>1, <1>2, NoNewHolder DEF HeldOnce

\* The induction step, for any chunks that the operator does not write to.
LEMMA HeldOnceStep ==
  ASSUME NEW S \in SUBSET Chunk, TypeOK, HeldOnce(S), [Next]_vars,
         Operator => \A c \in S : row'[c] = row[c]
  PROVE  HeldOnce(S)'
<1>1. ASSUME NEW c \in Chunk, LeaseExpires(c) PROVE HeldOnce(S)'
  <2>1. \A d \in Chunk : /\ row'[d].attempts = row[d].attempts
                         /\ row'[d].status = row[d].status
                         /\ row[d].lease # "none" => row'[d].lease # "none"
    BY <1>1 DEF LeaseExpires, TypeOK, Row
  <2>2. UNCHANGED <<work, completeCall, failCall, operator>>
    BY <1>1 DEF LeaseExpires
  <2>3. \A w \in Worker, d \in S :
          /\ Busy(w, d)' = Busy(w, d)
          /\ Failing(w, d)' = Failing(w, d)
          /\ FreshFailure(w, d)' = FreshFailure(w, d)
          /\ FreshCompletion(w, d)' = FreshCompletion(w, d)
    BY <2>1, <2>2 DEF Busy, Failing, Completing, FreshFailure, FreshCompletion
  <2>4. QED
    BY <2>1, <2>2, <2>3, NoNewHolder DEF HeldOnce, Holds
<1>2. ASSUME NEW c \in Chunk, BackoffElapses(c) PROVE HeldOnce(S)'
  BY <1>2, CallsEnd DEF BackoffElapses, Busy, Failing, Completing
<1>3. ASSUME NEW w \in Worker, NEW c \in Chunk, ClaimNext(w, c)
      PROVE  HeldOnce(S)'
  <2>1. /\ row[c].status = "pending"
        /\ row'[c].status = "processing"
        /\ row'[c].attempts = row[c].attempts
        /\ row'[c].lease = "live"
        /\ \A d \in Chunk \ {c} : row'[d] = row[d]
        /\ UNCHANGED <<completeCall, failCall, operator>>
    BY <1>3 DEF ClaimNext, Claimable, ClaimedRow, TypeOK
  <2>2. \A u \in Worker, d \in Chunk :
          /\ Busy(u, d)' => Busy(u, d) \/ (u = w /\ d = c)
          /\ Failing(u, d)' = Failing(u, d)
    BY <1>3, <2>1 DEF ClaimNext, TypeOK, Work, Busy, Failing
  <2>3. \A u \in Worker, d \in S :
          FreshFailure(u, d)' /\ FreshCompletion(u, d)'
    BY <2>1 DEF HeldOnce, FreshFailure, FreshCompletion, Failing,
       Completing
  <2>4. QED
    BY <2>1, <2>2, <2>3 DEF HeldOnce, Holds
<1>4. ASSUME NEW w \in Worker, Verify(w) PROVE HeldOnce(S)'
  <2>1. \A u \in Worker, c \in Chunk : Busy(u, c)' => Busy(u, c)
    <3>1. ASSUME NEW v \in Verdict, work' = [work EXCEPT ![w].pc = "valid",
                                                         ![w].verdict = v]
          PROVE  \A u \in Worker, c \in Chunk : Busy(u, c)' => Busy(u, c)
      BY <1>4, <3>1 DEF Verify, TypeOK, Work, Busy
    <3>2. QED
      BY <1>4, <3>1, FailsHolds DEF Verify
  <2>2. QED
    BY <1>4, <2>1, CallsEnd DEF Verify, Failing, Completing
<1>5. ASSUME NEW w \in Worker, Upload(w) PROVE HeldOnce(S)'
  <2>1. \A u \in Worker, c \in Chunk : Busy(u, c)' => Busy(u, c)
    <3>1. CASE work' = [work EXCEPT ![w].pc = NextUpload[work[w].pc]]
      BY <1>5, <3>1 DEF Upload, OutputKind, TypeOK, Work, Busy
    <3>2. QED
      BY <1>5, <3>1, FailsHolds DEF Upload, OutputKind
  <2>2. QED
    BY <1>5, <2>1, CallsEnd DEF Upload, Failing, Completing
<1>6. ASSUME NEW w \in Worker, SendComplete(w) PROVE HeldOnce(S)'
  <2>1. \A u \in Worker, c \in Chunk :
          /\ Busy(u, c)' => Busy(u, c)
          /\ Failing(u, c)' = Failing(u, c)
    BY <1>6 DEF SendComplete, TypeOK, Work, Busy, Failing
  <2>2. \A u \in Worker, c \in S : FreshCompletion(u, c)'
    BY <1>6 DEF SendComplete, TypeOK, CompleteCall, HeldOnce,
       FreshCompletion, Completing
  <2>3. \A u \in Worker, c \in S : FreshFailure(u, c)'
    BY <1>6 DEF SendComplete, HeldOnce, FreshFailure, Failing
  <2>4. QED
    BY <1>6, <2>1, <2>2, <2>3, NoNewHolder DEF SendComplete, HeldOnce,
       Holds
<1>7. ASSUME NEW w \in Worker, SendFail(w) PROVE HeldOnce(S)'
  <2>1. \A u \in Worker, c \in Chunk :
          /\ Busy(u, c)' => Busy(u, c) /\ u # w
          /\ Failing(u, c)' => \/ u # w /\ Failing(u, c)
                               \/ u = w /\ Busy(u, c)
    BY <1>7 DEF SendFail, TypeOK, Work, FailCall, Busy, Failing
  <2>2. \A u \in Worker, c \in S : FreshFailure(u, c)'
    BY <1>7 DEF SendFail, TypeOK, FailCall, HeldOnce, FreshFailure,
       Failing
  <2>3. \A u \in Worker, c \in S : FreshCompletion(u, c)'
    BY <1>7 DEF SendFail, HeldOnce, FreshCompletion, Completing
  <2>4. QED
    BY <1>7, <2>1, <2>2, <2>3, NoNewHolder DEF SendFail, HeldOnce, Holds
<1>8. ASSUME NEW w \in Worker, GiveUp(w) PROVE HeldOnce(S)'
  <2>1. CASE work[w].pc = "completing" /\ Fails(w, TRUE)
    BY <1>8, <2>1, FailsHolds, CallsEnd DEF GiveUp, Failing, Completing
  <2>2. CASE work' = [work EXCEPT ![w] = Idle]
    <3>1. \A u \in Worker, c \in Chunk : Busy(u, c)' => Busy(u, c)
      BY <2>2 DEF TypeOK, Work, Busy, Idle
    <3>2. QED
      BY <1>8, <3>1, CallsEnd DEF GiveUp, Failing, Completing
  <2>3. QED
    BY <1>8, <2>1, <2>2 DEF GiveUp
<1>9. ASSUME NEW w \in Worker, Crash(w) PROVE HeldOnce(S)'
  <2>1. \A u \in Worker, c \in Chunk : Busy(u, c)' => Busy(u, c)
    BY <1>9 DEF Crash, TypeOK, Work, Busy, Idle
  <2>2. QED
    BY <1>9, <2>1, CallsEnd DEF Crash, Failing, Completing
<1>10. ASSUME NEW w \in Worker, CompleteLost(w) PROVE HeldOnce(S)'
  BY <1>10, CompleteAnsweredHolds, CallsEnd DEF CompleteLost, Failing
<1>11. ASSUME NEW w \in Worker, CompleteRead(w) PROVE HeldOnce(S)'
  <2> DEFINE d == completeCall[w].chunk
  <2>1. CASE CompleteAnswered(w, FALSE)
             \/ CompleteAnswered(w, PayloadMatches(row[d], completeCall[w].verdict))
    <3>1. PayloadMatches(row[d], completeCall[w].verdict) \in BOOLEAN
      BY DEF PayloadMatches, TypeOK, CompleteCall, Row
    <3>2. QED
      BY <1>11, <2>1, <3>1, CompleteAnsweredHolds, CallsEnd
      DEF CompleteRead, Failing
  <2>2. CASE /\ row[d].status \in {"pending", "processing"}
             /\ completeCall' = [completeCall EXCEPT ![w].phase = "read",
                                                     ![w].seen = row[d]]
             /\ UNCHANGED work
    <3>1. \A u \in Worker, c \in S :
            /\ FreshCompletion(u, c)'
            /\ FreshFailure(u, c)'
            /\ Busy(u, c)' = Busy(u, c)
            /\ Failing(u, c)' = Failing(u, c)
      BY <1>11, <2>2 DEF CompleteRead, TypeOK, CompleteCall, HeldOnce,
         FreshCompletion, FreshFailure, Completing, Failing, Busy
    <3>2. QED
      BY <1>11, <3>1, NoNewHolder DEF CompleteRead, HeldOnce, Holds
  <2>3. QED
    BY <1>11, <2>1, <2>2 DEF CompleteRead
<1>12. ASSUME NEW w \in Worker, CompleteHandoffFails(w) PROVE HeldOnce(S)'
  BY <1>12, CompleteAnsweredHolds, CallsEnd DEF CompleteHandoffFails, Failing
<1>13. ASSUME NEW w \in Worker, CompleteWrite(w) PROVE HeldOnce(S)'
  <2> DEFINE d == completeCall[w].chunk
             seen == completeCall[w].seen
             v == completeCall[w].verdict
  <2>1. /\ d \in Chunk
        /\ completeCall[w].phase = "read"
        /\ row' = [row EXCEPT ![d] = CompletedRow(@, seen, v)]
        /\ UNCHANGED <<failCall, operator>>
    BY <1>13 DEF CompleteWrite, TypeOK, CompleteCall
  <2>2. \A c \in Chunk \ {d} : row'[c] = row[c]
    BY <2>1 DEF TypeOK
  <2>3. d \in S => /\ row'[d].status = "completed"
                            /\ row'[d].attempts = row[d].attempts
    <3>1. d \in S => seen.status # "completed"
      BY <2>1 DEF HeldOnce, FreshCompletion, Completing
    <3>2. row'[d] = CompletedRow(row[d], seen, v)
      BY <2>1 DEF TypeOK
    <3>3. QED
      BY <3>1, <3>2 DEF CompletedRow, Saved
  <2>4. \A u \in Worker, c \in Chunk :
          /\ Busy(u, c)' => Busy(u, c)
          /\ Failing(u, c)' = Failing(u, c)
          /\ completeCall'[u].phase = "read" /\ Completing(u, c)' =>
               completeCall'[u] = completeCall[u]
    <3>1. CASE CompleteAnswered(w, TRUE)
      BY <2>1, <3>1, CompleteAnsweredHolds DEF Failing
    <3>2. CASE /\ completeCall' = [completeCall EXCEPT ![w].phase = "retry_plan"]
               /\ UNCHANGED work
      BY <2>1, <3>2 DEF Failing, Busy, Completing, TypeOK, CompleteCall
    <3>3. QED
      BY <1>13, <3>1, <3>2 DEF CompleteWrite
  <2>5. \A u \in Worker, c \in S :
          FreshFailure(u, c)' /\ FreshCompletion(u, c)'
    BY <2>1, <2>2, <2>3, <2>4 DEF HeldOnce, FreshFailure,
       FreshCompletion, Failing, Completing
  <2>6. QED
    BY <2>1, <2>2, <2>3, <2>4, <2>5, NoNewHolder DEF HeldOnce, Holds
<1>14. ASSUME NEW w \in Worker, CompleteRetryPlan(w) PROVE HeldOnce(S)'
  <2>1. PICK ok \in BOOLEAN : CompleteAnswered(w, ok)
    BY <1>14 DEF CompleteRetryPlan
  <2>2. \A c \in Chunk : /\ row'[c].attempts = row[c].attempts
                         /\ row'[c].status = row[c].status
                         /\ row'[c].lease = row[c].lease
    <3>1. CASE row' = [row EXCEPT ![completeCall[w].chunk].filtered = TRUE]
      BY <3>1 DEF TypeOK, Row
    <3>2. QED
      BY <1>14, <3>1 DEF CompleteRetryPlan
  <2>3. UNCHANGED <<failCall, operator>>
    BY <1>14 DEF CompleteRetryPlan
  <2>4. \A u \in Worker, c \in S :
          /\ Busy(u, c)' => Busy(u, c)
          /\ Failing(u, c)' = Failing(u, c)
          /\ FreshFailure(u, c)'
          /\ FreshCompletion(u, c)'
    BY <2>1, <2>2, <2>3, CompleteAnsweredHolds DEF HeldOnce,
       FreshFailure, FreshCompletion, Failing
  <2>5. QED
    BY <2>2, <2>3, <2>4, NoNewHolder DEF HeldOnce, Holds
<1>15. ASSUME NEW w \in Worker, FailLost(w) PROVE HeldOnce(S)'
  BY <1>15, FailAnsweredHolds, CallsEnd DEF FailLost, Completing
<1>16. ASSUME NEW w \in Worker, FailRead(w) PROVE HeldOnce(S)'
  <2> DEFINE d == failCall[w].chunk
  <2>1. CASE FailAnswered(w)
    BY <1>16, <2>1, FailAnsweredHolds, CallsEnd DEF FailRead, Completing
  <2>2. CASE /\ row[d].status \in {"pending", "processing"}
             /\ failCall' = [failCall EXCEPT ![w].phase = "read",
                                             ![w].seen = row[d]]
             /\ UNCHANGED work
    <3>1. failCall[w].phase = "sent" /\ UNCHANGED <<row, completeCall, operator>>
      BY <1>16 DEF FailRead
    <3>2. d \in S => row[d].status = "processing"
      BY <2>2, <3>1 DEF HeldOnce, Holds, Failing
    <3>3. \A u \in Worker, c \in S :
            /\ Busy(u, c)' = Busy(u, c)
            /\ Failing(u, c)' = Failing(u, c)
      BY <2>2, <3>1 DEF TypeOK, FailCall, Failing, Busy
    <3>4. \A u \in Worker, c \in S : FreshFailure(u, c)'
      BY <2>2, <3>1, <3>2 DEF TypeOK, FailCall, HeldOnce, FreshFailure,
         Failing
    <3>5. \A u \in Worker, c \in S : FreshCompletion(u, c)'
      BY <3>1 DEF HeldOnce, FreshCompletion, Completing
    <3>6. QED
      BY <3>1, <3>3, <3>4, <3>5, NoNewHolder DEF HeldOnce, Holds
  <2>3. QED
    BY <1>16, <2>1, <2>2 DEF FailRead
<1>17. ASSUME NEW w \in Worker, FailWrite(w) PROVE HeldOnce(S)'
  <2> DEFINE seen == failCall[w].seen
             retryable == failCall[w].retryable
  <2> PICK d \in Chunk : d = failCall[w].chunk
    BY DEF TypeOK, FailCall
  <2>1. /\ retryable \in BOOLEAN
        /\ seen.attempts \in Nat
        /\ failCall[w].phase = "read"
        /\ row' = [row EXCEPT ![d] = FailedRow(@, seen, retryable)]
        /\ FailAnswered(w)
        /\ UNCHANGED <<completeCall, operator>>
    BY <1>17 DEF FailWrite, TypeOK, FailCall, Row
  <2>2. \A c \in Chunk \ {d} : row'[c] = row[c]
    BY <2>1 DEF TypeOK
  <2>3. Failing(w, d)
    BY <2>1 DEF Failing
  <2>4. ASSUME d \in S
        PROVE  /\ row'[d].status = FailStatus(seen, retryable)
               /\ row'[d].attempts = row[d].attempts + 1
               /\ seen.attempts = row[d].attempts
               /\ row[d].attempts < MaxAttempts
    <3>1. /\ seen.status = "processing"
          /\ seen.attempts = row[d].attempts
          /\ row[d].attempts < MaxAttempts
      BY <2>1, <2>3, <2>4 DEF HeldOnce, FreshFailure, Holds
    <3>2. row'[d] = FailedRow(row[d], seen, retryable)
      BY <2>1 DEF TypeOK
    <3>3. FailStatus(seen, retryable) # "processing"
      BY DEF FailStatus
    <3>4. QED
      BY <3>1, <3>2, <3>3 DEF FailedRow, ReleasedRow, Saved
  <2>5. d \in S =>
          /\ row'[d].status \in {"pending", "failed"}
          /\ row'[d].attempts <= MaxAttempts
          /\ row'[d].status = "pending" => row'[d].attempts < MaxAttempts
    BY <2>1, <2>4, ChunkLeaseAssumption DEF FailStatus
  <2>6. \A u \in Worker, c \in S :
          /\ Busy(u, c)' => Busy(u, c)
          /\ Failing(u, c)' => u # w /\ Failing(u, c)
                               /\ failCall'[u] = failCall[u]
    BY <2>1, FailAnsweredHolds
  <2>7. d \in S => \A u \in Worker : ~(Holds(u, d)')
    BY <2>3, <2>6 DEF HeldOnce, Holds
  <2>8. \A u \in Worker, c \in S :
          FreshFailure(u, c)' /\ FreshCompletion(u, c)'
    BY <2>1, <2>2, <2>6, <2>7 DEF HeldOnce, FreshFailure,
       FreshCompletion, Completing, Holds
  <2>9. QED
    BY <2>1, <2>2, <2>5, <2>6, <2>7, <2>8 DEF HeldOnce, Holds
<1>18. CASE Operator
  <2>1. UNCHANGED <<work, completeCall, failCall>>
    BY <1>18 DEF Operator, OperatorRead, OperatorWrite, RequeueFailedChunks,
       RequeueStuckChunks, BulkRequeue
  <2>2. \A c \in S : row'[c] = row[c]
    BY <1>18
  <2>3. \A w \in Worker, c \in S :
          /\ Busy(w, c)' = Busy(w, c)
          /\ Failing(w, c)' = Failing(w, c)
          /\ Completing(w, c)' = Completing(w, c)
    BY <2>1 DEF Busy, Failing, Completing
  <2>4. \A w \in Worker, c \in S : FreshFailure(w, c)' /\ FreshCompletion(w, c)'
    BY <2>1, <2>2, <2>3 DEF HeldOnce, FreshFailure, FreshCompletion
  <2>5. QED
    BY <2>2, <2>3, <2>4, NoNewHolder DEF HeldOnce, Holds
<1>19. CASE UNCHANGED vars
  BY <1>19, CallsEnd DEF vars, Busy, Failing, Completing
<1>20. QED
  BY <1>1, <1>2, <1>3, <1>4, <1>5, <1>6, <1>7, <1>8, <1>9, <1>10, <1>11,
     <1>12, <1>13, <1>14, <1>15, <1>16, <1>17, <1>18, <1>19
  DEF Next, WorkerStep, Handler, Disruption

LEMMA HeldOnceInit ==
  ASSUME NEW S \in SUBSET Chunk, Init
  PROVE  HeldOnce(S)
BY ChunkLeaseAssumption DEF Init, NewRow, Idle, NoComplete, NoFail,
   HeldOnce, Holds, Busy, Failing, Completing, FreshFailure, FreshCompletion

\* The row buttons and the bulk buttons write to OperatorChunks.
LEMMA OperatorSpares ==
  ASSUME TypeOK, AttemptHeldOnce, Operator, NEW c \in Unattended
  PROVE  row'[c] = row[c]
<1>1. c \in Chunk /\ c \notin OperatorChunks
  BY DEF Unattended
<1>2. ASSUME NEW d \in OperatorChunks, NEW kind \in {"requeue", "mark_failed"},
             OperatorRead(d, kind)
      PROVE  row'[c] = row[c]
  BY <1>2 DEF OperatorRead
<1>3. CASE OperatorWrite
  BY <1>1, <1>3 DEF OperatorWrite, TypeOK, AttemptHeldOnce
<1>4. ASSUME NEW chosen \in SUBSET OperatorChunks, BulkRequeue(chosen)
      PROVE  row'[c] = row[c]
  BY <1>1, <1>4 DEF BulkRequeue
<1>5. QED
  BY <1>2, <1>3, <1>4 DEF Operator, RequeueFailedChunks, RequeueStuckChunks

LEMMA AttemptHeldOnceStep ==
  TypeOK /\ AttemptHeldOnce /\ [Next]_vars => AttemptHeldOnce'
<1> SUFFICES ASSUME TypeOK, AttemptHeldOnce, [Next]_vars
             PROVE  AttemptHeldOnce'
  OBVIOUS
<1>1. operator'.kind # "none" => operator'.chunk \in OperatorChunks
  <2>1. CASE UNCHANGED operator
    BY <2>1 DEF AttemptHeldOnce
  <2>2. CASE Operator
    BY <2>2 DEF AttemptHeldOnce, Operator, OperatorRead, OperatorWrite,
       NoOperation, RequeueFailedChunks, RequeueStuckChunks, BulkRequeue
  <2>3. QED
    BY <2>1, <2>2 DEF Next, vars, LeaseExpires, BackoffElapses, ClaimNext,
       WorkerStep, Verify, Upload, SendComplete, SendFail, Handler,
       CompleteRead, CompleteHandoffFails, CompleteWrite, CompleteRetryPlan,
       FailRead, FailWrite, Disruption, GiveUp, Crash, CompleteLost, FailLost
<1>2. HeldOnce(Unattended)'
  <2>1. Unattended \in SUBSET Chunk /\ HeldOnce(Unattended)
    BY DEF Unattended, AttemptHeldOnce
  <2>2. Operator => \A c \in Unattended : row'[c] = row[c]
    BY OperatorSpares
  <2>3. QED
    BY <2>1, <2>2, HeldOnceStep
<1>3. QED
  BY <1>1, <1>2 DEF AttemptHeldOnce

LEMMA AttemptHeldOnceInit == Init => AttemptHeldOnce
<1>1. Unattended \in SUBSET Chunk
  BY DEF Unattended
<1>2. QED
  BY <1>1, HeldOnceInit DEF Init, NoOperation, AttemptHeldOnce

\* Every attempt at a chunk that no operator touches belongs to one worker,
\* from claim-next until its fail request has been executed.
THEOREM AttemptsHeldOnce == Spec => []AttemptHeldOnce
<1>1. TypeOK /\ AttemptHeldOnce /\ [Next]_vars => AttemptHeldOnce'
  BY AttemptHeldOnceStep
<1>2. QED
  BY <1>1, AttemptHeldOnceInit, TypeCorrect, PTL DEF Spec

\* No two workers verify, upload or report the same unattended chunk, although
\* complete and fail never check whose lease it is or whether it has expired.
THEOREM ProcessingIsExclusive == Spec => []ExclusiveProcessing
<1>1. AttemptHeldOnce => ExclusiveProcessing
  BY DEF AttemptHeldOnce, HeldOnce, ExclusiveProcessing, Holds
<1>2. QED
  BY <1>1, AttemptsHeldOnce, PTL

\* The fail endpoint's read-modify-write of attempts never passes
\* engine.max_attempts and never offers a chunk without an attempt left.
THEOREM AttemptsAreBounded == Spec => []AttemptsBounded
<1>1. AttemptHeldOnce => AttemptsBounded
  BY DEF AttemptHeldOnce, HeldOnce, AttemptsBounded
<1>2. QED
  BY <1>1, AttemptsHeldOnce, PTL

\* No save of complete or fail leaves a processing row without its expiry time.
THEOREM ProcessingIsLeased == Spec => []ProcessingHasLease
<1>1. AttemptHeldOnce => ProcessingHasLease
  BY DEF AttemptHeldOnce, HeldOnce, ProcessingHasLease
<1>2. QED
  BY <1>1, AttemptsHeldOnce, PTL

-----------------------------------------------------------------------------
(* Abandoned claims. *)

\* A step leaves the claim of c to nobody if nobody comes for it.
LEMMA NobodyComes ==
  ASSUME NEW c \in Chunk, Abandoned(c), row'[c].status = row[c].status,
         \A w \in Worker : /\ Busy(w, c)' => Busy(w, c)
                           /\ Completing(w, c)' => Completing(w, c)
                           /\ Failing(w, c)' => Failing(w, c)
  PROVE  Abandoned(c)'
BY DEF Abandoned

\* The endpoints answer for, and save, the chunks of calls in flight only.
LEMMA HandlersPassBy ==
  ASSUME TypeOK, NEW c \in Chunk, Abandoned(c), NEW w \in Worker,
         Handler(w) \/ CompleteLost(w) \/ FailLost(w)
  PROVE  Abandoned(c)'
<1>1. ~Completing(w, c) /\ ~Failing(w, c)
  BY DEF Abandoned
<1>2. ASSUME NEW ok \in BOOLEAN, CompleteAnswered(w, ok), UNCHANGED failCall,
             row'[c].status = row[c].status
      PROVE  Abandoned(c)'
  BY <1>2, CompleteAnsweredHolds, NobodyComes DEF Failing
<1>3. ASSUME FailAnswered(w), UNCHANGED completeCall,
             row'[c].status = row[c].status
      PROVE  Abandoned(c)'
  BY <1>3, FailAnsweredHolds, NobodyComes DEF Completing
<1>4. CASE CompleteLost(w) \/ CompleteHandoffFails(w)
  BY <1>2, <1>4 DEF CompleteLost, CompleteHandoffFails
<1>5. CASE CompleteRead(w)
  <2>1. CASE \E ok \in BOOLEAN : CompleteAnswered(w, ok)
    BY <1>2, <1>5, <2>1 DEF CompleteRead
  <2>2. CASE /\ completeCall' = [completeCall EXCEPT
                  ![w].phase = "read",
                  ![w].seen = row[completeCall[w].chunk]]
             /\ UNCHANGED work
    <3>1. \A u \in Worker : Completing(u, c)' => Completing(u, c)
      BY <1>5, <2>2 DEF CompleteRead, TypeOK, CompleteCall, Completing
    <3>2. QED
      BY <1>5, <2>2, <3>1, NobodyComes DEF CompleteRead, Busy, Failing
  <2>3. PayloadMatches(row[completeCall[w].chunk], completeCall[w].verdict)
          \in BOOLEAN
    BY DEF PayloadMatches, TypeOK, CompleteCall, Row
  <2>4. QED
    BY <1>5, <2>1, <2>2, <2>3 DEF CompleteRead
<1>6. CASE CompleteWrite(w)
  <2>1. completeCall[w].phase = "read" /\ completeCall[w].chunk # c
    BY <1>1, <1>6 DEF CompleteWrite, Completing
  <2>2. row'[c] = row[c] /\ UNCHANGED failCall
    BY <1>6, <2>1 DEF CompleteWrite, TypeOK
  <2>3. CASE CompleteAnswered(w, TRUE)
    BY <1>2, <2>2, <2>3
  <2>4. CASE /\ completeCall' = [completeCall EXCEPT ![w].phase = "retry_plan"]
             /\ UNCHANGED work
    <3>1. \A u \in Worker : Completing(u, c)' => Completing(u, c)
      BY <2>1, <2>4 DEF TypeOK, CompleteCall, Completing
    <3>2. QED
      BY <2>2, <2>4, <3>1, NobodyComes DEF Busy, Failing
  <2>5. QED
    BY <1>6, <2>3, <2>4 DEF CompleteWrite
<1>7. CASE CompleteRetryPlan(w)
  <2>1. completeCall[w].phase = "retry_plan" /\ completeCall[w].chunk # c
    BY <1>1, <1>7 DEF CompleteRetryPlan, Completing
  <2>2. row'[c] = row[c]
    BY <1>7, <2>1 DEF CompleteRetryPlan, TypeOK
  <2>3. QED
    BY <1>2, <1>7, <2>2 DEF CompleteRetryPlan
<1>8. CASE FailLost(w)
  BY <1>3, <1>8 DEF FailLost
<1>9. CASE FailRead(w)
  <2>1. CASE FailAnswered(w)
    BY <1>3, <1>9, <2>1 DEF FailRead
  <2>2. CASE /\ failCall' = [failCall EXCEPT
                  ![w].phase = "read",
                  ![w].seen = row[failCall[w].chunk]]
             /\ UNCHANGED work
    <3>1. \A u \in Worker : Failing(u, c)' => Failing(u, c)
      BY <1>9, <2>2 DEF FailRead, TypeOK, FailCall, Failing
    <3>2. QED
      BY <1>9, <2>2, <3>1, NobodyComes DEF FailRead, Busy, Completing
  <2>3. QED
    BY <1>9, <2>1, <2>2 DEF FailRead
<1>10. CASE FailWrite(w)
  <2>1. failCall[w].phase = "read" /\ failCall[w].chunk # c
    BY <1>1, <1>10 DEF FailWrite, Failing
  <2>2. row'[c] = row[c]
    BY <1>10, <2>1 DEF FailWrite, TypeOK
  <2>3. QED
    BY <1>3, <1>10, <2>2 DEF FailWrite
<1>11. QED
  BY <1>4, <1>5, <1>6, <1>7, <1>8, <1>9, <1>10 DEF Handler

\* A worker sends and reports only the chunk it is busy with.
LEMMA WorkersPassBy ==
  ASSUME TypeOK, NEW c \in Chunk, Abandoned(c), NEW w \in Worker,
         WorkerStep(w) \/ GiveUp(w) \/ Crash(w)
  PROVE  Abandoned(c)'
<1>1. ~Busy(w, c)
  BY DEF Abandoned
<1>2. UNCHANGED row
  BY DEF WorkerStep, Verify, Upload, SendComplete, SendFail, GiveUp, Crash
<1>3. ASSUME UNCHANGED <<completeCall, failCall>>,
             \A u \in Worker : Busy(u, c)' => Busy(u, c)
      PROVE  Abandoned(c)'
  BY <1>2, <1>3, NobodyComes DEF Completing, Failing
<1>4. ASSUME NEW b \in BOOLEAN, Fails(w, b),
             work[w].pc \notin {"idle", "failing"},
             UNCHANGED <<completeCall, failCall>>
      PROVE  Abandoned(c)'
  BY <1>3, <1>4, FailsHolds
<1>5. ASSUME work' = [work EXCEPT ![w] = Idle],
             UNCHANGED <<completeCall, failCall>>
      PROVE  Abandoned(c)'
  <2>1. \A u \in Worker : Busy(u, c)' => Busy(u, c)
    BY <1>5 DEF TypeOK, Work, Busy, Idle
  <2>2. QED
    BY <1>3, <1>5, <2>1
<1>6. CASE Verify(w)
  <2>1. ASSUME NEW v \in Verdict, work' = [work EXCEPT ![w].pc = "valid",
                                                       ![w].verdict = v]
        PROVE  \A u \in Worker : Busy(u, c)' => Busy(u, c)
    BY <1>6, <2>1 DEF Verify, TypeOK, Work, Busy
  <2>2. QED
    BY <1>3, <1>4, <1>6, <2>1 DEF Verify
<1>7. CASE Upload(w)
  <2>1. work[w].pc \notin {"idle", "failing"}
    BY <1>7 DEF Upload, OutputKind
  <2>2. CASE work' = [work EXCEPT ![w].pc = NextUpload[work[w].pc]]
    <3>1. \A u \in Worker : Busy(u, c)' => Busy(u, c)
      BY <2>1, <2>2 DEF TypeOK, Work, Busy
    <3>2. QED
      BY <1>3, <1>7, <3>1 DEF Upload
  <2>3. QED
    BY <1>4, <1>7, <2>1, <2>2 DEF Upload
<1>8. CASE SendComplete(w)
  <2>1. work[w].chunk # c
    BY <1>1, <1>8 DEF SendComplete, Busy
  <2>2. \A u \in Worker : /\ Busy(u, c)' => Busy(u, c)
                          /\ Completing(u, c)' => Completing(u, c)
    BY <1>8, <2>1 DEF SendComplete, TypeOK, Work, CompleteCall, Busy,
       Completing
  <2>3. QED
    BY <1>2, <1>8, <2>2, NobodyComes DEF SendComplete, Failing
<1>9. CASE SendFail(w)
  <2>1. work[w].chunk # c
    BY <1>1, <1>9 DEF SendFail, Busy
  <2>2. \A u \in Worker : /\ Busy(u, c)' => Busy(u, c)
                          /\ Failing(u, c)' => Failing(u, c)
    BY <1>9, <2>1 DEF SendFail, TypeOK, Work, FailCall, Busy, Failing
  <2>3. QED
    BY <1>2, <1>9, <2>2, NobodyComes DEF SendFail, Completing
<1>10. CASE GiveUp(w)
  BY <1>4, <1>5, <1>10 DEF GiveUp
<1>11. CASE Crash(w)
  BY <1>5, <1>11 DEF Crash
<1>12. QED
  BY <1>6, <1>7, <1>8, <1>9, <1>10, <1>11 DEF WorkerStep

LEMMA AbandonedStep ==
  ASSUME TypeOK, AttemptHeldOnce, [Next]_vars, NEW c \in Unattended,
         Abandoned(c)
  PROVE  Abandoned(c)'
<1>1. c \in Chunk /\ row[c].status = "processing"
  BY DEF Unattended, Abandoned
<1>2. ASSUME NEW d \in Chunk, LeaseExpires(d) \/ BackoffElapses(d)
      PROVE  Abandoned(c)'
  <2>1. row'[c].status = row[c].status
    BY <1>1, <1>2 DEF LeaseExpires, BackoffElapses, TypeOK, Row
  <2>2. QED
    BY <1>1, <1>2, <2>1, NobodyComes DEF LeaseExpires, BackoffElapses, Busy,
       Completing, Failing
<1>3. ASSUME NEW w \in Worker, NEW d \in Chunk, ClaimNext(w, d)
      PROVE  Abandoned(c)'
  <2>1. d # c
    BY <1>1, <1>3 DEF ClaimNext, Claimable
  <2>2. row'[c] = row[c]
    BY <1>1, <1>3, <2>1 DEF ClaimNext, TypeOK
  <2>3. \A u \in Worker : Busy(u, c)' => Busy(u, c)
    BY <1>3, <2>1 DEF ClaimNext, TypeOK, Work, Busy
  <2>4. QED
    BY <1>1, <1>3, <2>2, <2>3, NobodyComes DEF ClaimNext, Completing, Failing
<1>4. ASSUME NEW w \in Worker, WorkerStep(w) \/ Handler(w) \/ Disruption(w)
      PROVE  Abandoned(c)'
  BY <1>1, <1>4, HandlersPassBy, WorkersPassBy DEF Disruption
<1>5. CASE Operator
  <2>1. row'[c] = row[c]
    BY <1>5, OperatorSpares
  <2>2. UNCHANGED <<work, completeCall, failCall>>
    BY <1>5 DEF Operator, OperatorRead, OperatorWrite, RequeueFailedChunks,
       RequeueStuckChunks, BulkRequeue
  <2>3. QED
    BY <1>1, <2>1, <2>2, NobodyComes DEF Busy, Completing, Failing
<1>6. CASE UNCHANGED vars
  BY <1>1, <1>6, NobodyComes DEF vars, Busy, Completing, Failing
<1>7. QED
  BY <1>2, <1>3, <1>4, <1>5, <1>6 DEF Next

\* An expired lease gives nothing back: a claim whose worker and requests are
\* gone waits for an operator, whatever happens to the other chunks.
THEOREM AbandonedClaimsStay == Spec => AbandonedStays
<1>1. TypeOK /\ AttemptHeldOnce /\ [Next]_vars
        => [\A c \in Unattended : Abandoned(c) => Abandoned(c)']_vars
  BY AbandonedStep
<1>2. QED
  BY <1>1, TypeCorrect, AttemptsHeldOnce, PTL DEF Spec, AbandonedStays
=============================================================================
