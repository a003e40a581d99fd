------------------------- MODULE ChunkOperatorProofs -------------------------
(***************************************************************************)
(* Theorems about the chunks of ChunkLease that an operator works on: how  *)
(* many workers his clicks can set on one chunk, and what one click cannot *)
(* do to a completed chunk.                                                *)
(***************************************************************************)
EXTENDS ChunkResultProofs, FiniteSetTheorems

-----------------------------------------------------------------------------
(* Workers on one chunk.                                                     *)
(*                                                                           *)
(* The number of workers is not inductive by itself: a worker can also be on *)
(* its way.  A pending row lets one in; a fail request in flight and a       *)
(* button whose row is loaded will each make the row pending once more.      *)
(* Claim, fail and save only turn one of these into another, so their sum    *)
(* grows with clicks only.                                                   *)

BusyOn(c) == {w \in Worker : Busy(w, c)}
FailingOn(c) == {w \in Worker : Failing(w, c)}
Clicked(c) == operator.kind # "none" /\ operator.chunk = c

\* The ways onto the chunk: a pending row, a button that may make it pending.
Openings(c) == (IF row[c].status = "pending" THEN 1 ELSE 0)
                 + (IF Clicked(c) THEN 1 ELSE 0)

LoadBounded(c) ==
  /\ IsFiniteSet(BusyOn(c))
  /\ IsFiniteSet(FailingOn(c))
  /\ Cardinality(BusyOn(c)) + Cardinality(FailingOn(c)) + Openings(c)
       <= 1 + clicks

LEMMA OpeningsType ==
  \A c : Openings(c) \in 0..2 /\ Openings(c)' \in 0..2
BY DEF Openings

\* A step that lets no worker in keeps the bound if each row it makes pending
\* again is paid for by a click.
LEMMA NoNewLoad ==
  ASSUME NEW c \in Chunk, LoadBounded(c), clicks \in Nat, clicks' \in Nat,
         BusyOn(c)' \subseteq BusyOn(c), FailingOn(c)' \subseteq FailingOn(c),
         Openings(c)' + clicks <= Openings(c) + clicks'
  PROVE  LoadBounded(c)'
<1>1. /\ IsFiniteSet(BusyOn(c)')
      /\ Cardinality(BusyOn(c)') <= Cardinality(BusyOn(c))
      /\ Cardinality(BusyOn(c)) \in Nat /\ Cardinality(BusyOn(c)') \in Nat
  BY FS_Subset, FS_CardinalityType DEF LoadBounded
<1>2. /\ IsFiniteSet(FailingOn(c)')
      /\ Cardinality(FailingOn(c)') <= Cardinality(FailingOn(c))
      /\ Cardinality(FailingOn(c)) \in Nat /\ Cardinality(FailingOn(c)') \in Nat
  BY FS_Subset, FS_CardinalityType DEF LoadBounded
<1>3. QED
  BY <1>1, <1>2, OpeningsType DEF LoadBounded

\* The steps that leave the operator alone and make no row pending.
LEMMA LoadFalls ==
  ASSUME NEW c \in Chunk, LoadBounded(c), clicks \in Nat,
         UNCHANGED <<operator, clicks>>,
         row'[c].status = "pending" => row[c].status = "pending",
         \A w \in Worker : /\ Busy(w, c)' => Busy(w, c)
                           /\ Failing(w, c)' => Failing(w, c)
  PROVE  LoadBounded(c)'
<1>1. BusyOn(c)' \subseteq BusyOn(c) /\ FailingOn(c)' \subseteq FailingOn(c)
  BY DEF BusyOn, FailingOn
<1>2. Clicked(c)' = Clicked(c)
  BY DEF Clicked
<1>3. QED
  <2>1. Openings(c)' <= Openings(c)
    BY <1>2 DEF Openings
  <2>2. QED
    BY <1>1, <2>1, OpeningsType, NoNewLoad

LEMMA LoadClaim ==
  ASSUME TypeOK, NEW c \in Chunk, LoadBounded(c),
         NEW w \in Worker, NEW d \in Chunk, ClaimNext(w, d)
  PROVE  LoadBounded(c)'
<1>1. /\ UNCHANGED <<completeCall, failCall, operator, clicks>>
      /\ work[w].pc = "idle"
      /\ clicks \in Nat
  BY DEF ClaimNext, TypeOK
<1>2. \A u \in Worker :
        /\ Busy(u, c)' => Busy(u, c) \/ (u = w /\ c = d)
        /\ Failing(u, c)' = Failing(u, c)
  BY <1>1 DEF ClaimNext, TypeOK, Work, Busy, Failing
<1>3. CASE c # d
  <2>1. row'[c] = row[c]
    BY <1>3 DEF ClaimNext, TypeOK
  <2>2. QED
    BY <1>1, <1>2, <1>3, <2>1, LoadFalls
<1>4. CASE c = d
  <2>1. row[c].status = "pending" /\ row'[c].status = "processing"
    BY <1>4 DEF ClaimNext, Claimable, ClaimedRow, TypeOK
  <2>2. BusyOn(c)' \subseteq BusyOn(c) \cup {w} /\ FailingOn(c)' = FailingOn(c)
    BY <1>2 DEF BusyOn, FailingOn
  <2>3. /\ IsFiniteSet(BusyOn(c)) /\ IsFiniteSet(FailingOn(c))
        /\ Cardinality(BusyOn(c)) \in Nat /\ Cardinality(FailingOn(c)) \in Nat
        /\ IsFiniteSet(BusyOn(c) \cup {w})
        /\ Cardinality(BusyOn(c) \cup {w}) \in Nat
        /\ Cardinality(BusyOn(c) \cup {w}) <= Cardinality(BusyOn(c)) + 1
    <3>1. IsFiniteSet(BusyOn(c)) /\ IsFiniteSet(FailingOn(c))
      BY DEF LoadBounded
    <3>2. Cardinality(BusyOn(c)) \in Nat /\ Cardinality(FailingOn(c)) \in Nat
      BY <3>1, FS_CardinalityType
    <3>3. /\ IsFiniteSet(BusyOn(c) \cup {w})
          /\ Cardinality(BusyOn(c) \cup {w}) =
               IF w \in BusyOn(c) THEN Cardinality(BusyOn(c))
               ELSE Cardinality(BusyOn(c)) + 1
      BY <3>1, FS_AddElement
    <3>4. QED
      BY <3>1, <3>2, <3>3
  <2>4. /\ IsFiniteSet(BusyOn(c)')
        /\ Cardinality(BusyOn(c)') <= Cardinality(BusyOn(c)) + 1
        /\ Cardinality(BusyOn(c)') \in Nat
    BY <2>2, <2>3, FS_Subset, FS_CardinalityType
  <2>5. Openings(c)' = Openings(c) - 1
    BY <1>1, <2>1 DEF Openings, Clicked
  <2>6. QED
    BY <1>1, <2>2, <2>3, <2>4, <2>5, OpeningsType DEF LoadBounded
<1>5. QED
  BY <1>3, <1>4

\* A worker that reports a failure stops and leaves its request on its way.
LEMMA LoadSendFail ==
  ASSUME TypeOK, NEW c \in Chunk, LoadBounded(c), NEW w \in Worker, SendFail(w)
  PROVE  LoadBounded(c)'
<1>1. /\ UNCHANGED <<row, operator, clicks>>
      /\ clicks \in Nat
      /\ work[w].pc = "fail"
      /\ failCall[w].phase = "none"
  BY DEF SendFail, TypeOK
<1>2. /\ work'[w].pc = "failing"
      /\ failCall'[w].chunk = work[w].chunk
      /\ \A u \in Worker : u # w => work'[u] = work[u] /\ failCall'[u] = failCall[u]
  BY DEF SendFail, TypeOK, Work
<1>3. CASE work[w].chunk # c
  <2>1. \A u \in Worker : /\ Busy(u, c)' => Busy(u, c)
                          /\ Failing(u, c)' => Failing(u, c)
    BY <1>2, <1>3 DEF Busy, Failing
  <2>2. QED
    BY <1>1, <2>1, LoadFalls
<1>4. CASE work[w].chunk = c
  <2>1. w \in BusyOn(c) /\ BusyOn(c)' \subseteq BusyOn(c) \ {w}
    BY <1>1, <1>2, <1>4 DEF BusyOn, Busy
  <2>2. FailingOn(c)' \subseteq FailingOn(c) \cup {w}
    BY <1>2 DEF FailingOn, Failing
  <2>3. /\ IsFiniteSet(BusyOn(c) \ {w}) /\ IsFiniteSet(FailingOn(c) \cup {w})
        /\ Cardinality(BusyOn(c) \ {w}) = Cardinality(BusyOn(c)) - 1
        /\ Cardinality(FailingOn(c) \cup {w}) <= Cardinality(FailingOn(c)) + 1
        /\ Cardinality(BusyOn(c)) \in Nat /\ Cardinality(FailingOn(c)) \in Nat
    <3>1. IsFiniteSet(BusyOn(c)) /\ IsFiniteSet(FailingOn(c))
      BY DEF LoadBounded
    <3>2. Cardinality(BusyOn(c)) \in Nat /\ Cardinality(FailingOn(c)) \in Nat
      BY <3>1, FS_CardinalityType
    <3>3. /\ IsFiniteSet(BusyOn(c) \ {w})
          /\ Cardinality(BusyOn(c) \ {w}) = Cardinality(BusyOn(c)) - 1
      BY <2>1, <3>1, FS_RemoveElement
    <3>4. /\ IsFiniteSet(FailingOn(c) \cup {w})
          /\ Cardinality(FailingOn(c) \cup {w}) =
               IF w \in FailingOn(c) THEN Cardinality(FailingOn(c))
               ELSE Cardinality(FailingOn(c)) + 1
      BY <3>1, FS_AddElement
    <3>5. QED
      BY <3>1, <3>2, <3>3, <3>4
  <2>4. /\ IsFiniteSet(BusyOn(c)') /\ IsFiniteSet(FailingOn(c)')
        /\ Cardinality(BusyOn(c)') <= Cardinality(BusyOn(c) \ {w})
        /\ Cardinality(FailingOn(c)') <= Cardinality(FailingOn(c) \cup {w})
        /\ Cardinality(BusyOn(c)') \in Nat /\ Cardinality(FailingOn(c)') \in Nat
        /\ Cardinality(FailingOn(c) \cup {w}) \in Nat
    BY <2>1, <2>2, <2>3, FS_Subset, FS_CardinalityType
  <2>5. Openings(c)' = Openings(c)
    BY <1>1 DEF Openings, Clicked
  <2>6. QED
    BY <1>1, <2>3, <2>4, <2>5, OpeningsType DEF LoadBounded
<1>5. QED
  BY <1>3, <1>4

\* The fail request that makes a row pending is the one it takes away.
LEMMA LoadFailWrite ==
  ASSUME TypeOK, NEW c \in Chunk, LoadBounded(c), NEW w \in Worker, FailWrite(w)
  PROVE  LoadBounded(c)'
<1>1. /\ UNCHANGED <<operator, clicks>>
      /\ clicks \in Nat
      /\ failCall[w].phase = "read"
      /\ FailAnswered(w)
  BY DEF FailWrite, TypeOK
<1>2. \A u \in Worker : /\ Busy(u, c)' => Busy(u, c)
                        /\ Failing(u, c)' => u # w /\ Failing(u, c)
  BY <1>1, FailAnsweredHolds
<1>3. CASE failCall[w].chunk # c
  <2>1. row'[c] = row[c]
    BY <1>3 DEF FailWrite, TypeOK
  <2>2. QED
    BY <1>1, <1>2, <2>1, LoadFalls
<1>4. CASE failCall[w].chunk = c
  <2>1. w \in FailingOn(c) /\ FailingOn(c)' \subseteq FailingOn(c) \ {w}
    BY <1>1, <1>2, <1>4 DEF FailingOn, Failing
  <2>2. BusyOn(c)' \subseteq BusyOn(c)
    BY <1>2 DEF BusyOn
  <2>3. /\ IsFiniteSet(FailingOn(c) \ {w})
        /\ Cardinality(FailingOn(c) \ {w}) = Cardinality(FailingOn(c)) - 1
        /\ Cardinality(BusyOn(c)) \in Nat /\ Cardinality(FailingOn(c)) \in Nat
    BY <2>1, FS_RemoveElement, FS_CardinalityType DEF LoadBounded
  <2>4. /\ IsFiniteSet(BusyOn(c)') /\ IsFiniteSet(FailingOn(c)')
        /\ Cardinality(BusyOn(c)') <= Cardinality(BusyOn(c))
        /\ Cardinality(FailingOn(c)') <= Cardinality(FailingOn(c) \ {w})
        /\ Cardinality(BusyOn(c)') \in Nat /\ Cardinality(FailingOn(c)') \in Nat
    BY <2>1, <2>2, <2>3, FS_Subset, FS_CardinalityType DEF LoadBounded
  <2>5. Openings(c)' <= Openings(c) + 1
    BY <1>1 DEF Openings, Clicked
  <2>6. QED
    BY <1>1, <2>3, <2>4, <2>5, OpeningsType DEF LoadBounded
<1>5. QED
  BY <1>3, <1>4

LEMMA LoadOperator ==
  ASSUME TypeOK, NEW c \in Chunk, LoadBounded(c), Operator
  PROVE  LoadBounded(c)'
<1>1. UNCHANGED <<work, completeCall, failCall>>
  BY DEF Operator, OperatorRead, OperatorWrite, RequeueFailedChunks,
     RequeueStuckChunks, BulkRequeue
<1>2. BusyOn(c)' \subseteq BusyOn(c) /\ FailingOn(c)' \subseteq FailingOn(c)
  BY <1>1 DEF BusyOn, FailingOn, Busy, Failing
<1>3. clicks \in Nat
  BY DEF TypeOK
<1>4. ASSUME NEW d \in OperatorChunks, NEW kind \in {"requeue", "mark_failed"},
             OperatorRead(d, kind)
      PROVE  LoadBounded(c)'
  <2>1. row' = row /\ clicks' = clicks + 1 /\ operator.kind = "none"
    BY <1>4 DEF OperatorRead
  <2>2. Openings(c)' <= Openings(c) + 1
    BY <2>1 DEF Openings, Clicked
  <2>3. QED
    BY <1>2, <1>3, <2>1, <2>2, OpeningsType, NoNewLoad
<1>5. CASE OperatorWrite
  <2>1. /\ operator.kind # "none"
        /\ operator'.kind = "none"
        /\ clicks' = clicks
        /\ c # operator.chunk => row'[c] = row[c]
    BY <1>5 DEF OperatorWrite, NoOperation, TypeOK
  <2>2. Openings(c)' <= Openings(c)
    BY <2>1 DEF Openings, Clicked
  <2>3. QED
    BY <1>2, <1>3, <2>1, <2>2, OpeningsType, NoNewLoad
<1>6. ASSUME NEW chosen, BulkRequeue(chosen)
      PROVE  LoadBounded(c)'
  <2>1. operator' = operator /\ clicks' = clicks + 1
    BY <1>6 DEF BulkRequeue
  <2>2. Openings(c)' <= Openings(c) + 1
    BY <2>1 DEF Openings, Clicked
  <2>3. QED
    BY <1>2, <1>3, <2>1, <2>2, OpeningsType, NoNewLoad
<1>7. QED
  BY <1>4, <1>5, <1>6 DEF Operator, RequeueFailedChunks, RequeueStuckChunks

\* The worker's own steps and the ends of its calls let nobody in.
LEMMA LoadStep ==
  ASSUME TypeOK, NEW c \in Chunk, LoadBounded(c), [Next]_vars
  PROVE  LoadBounded(c)'
<1> clicks \in Nat
  BY DEF TypeOK
<1>1. ASSUME NEW d \in Chunk, LeaseExpires(d) PROVE LoadBounded(c)'
  <2>1. row'[c].status = row[c].status
    BY <1>1 DEF LeaseExpires, TypeOK, Row
  <2>2. QED
    BY <1>1, <2>1, LoadFalls DEF LeaseExpires, Busy, Failing
<1>2. ASSUME NEW d \in Chunk, BackoffElapses(d) PROVE LoadBounded(c)'
  BY <1>2, LoadFalls DEF BackoffElapses, Busy, Failing
<1>3. ASSUME NEW w \in Worker, NEW d \in Chunk, ClaimNext(w, d)
      PROVE  LoadBounded(c)'
  BY <1>3, LoadClaim
<1>4. ASSUME NEW w \in Worker, Verify(w) PROVE LoadBounded(c)'
  <2>1. ASSUME NEW v \in Verdict, work' = [work EXCEPT ![w].pc = "valid",
                                                       ![w].verdict = v]
        PROVE  LoadBounded(c)'
    <3>1. \A u \in Worker : Busy(u, c)' => Busy(u, c)
      BY <1>4, <2>1 DEF Verify, TypeOK, Work, Busy
    <3>2. QED
      BY <1>4, <3>1, LoadFalls DEF Verify, Failing
  <2>2. CASE \E b \in BOOLEAN : Fails(w, b)
    BY <1>4, <2>2, FailsHolds, LoadFalls DEF Verify, Failing
  <2>3. QED
    BY <1>4, <2>1, <2>2 DEF Verify
<1>5. ASSUME NEW w \in Worker, Upload(w) PROVE LoadBounded(c)'
  <2>1. \A u \in Worker : Busy(u, c)' => Busy(u, c)
    <3>1. CASE work' = [work EXCEPT ![w].pc = NextUpload[work[w].pc]]
      BY <1>5, <3>1 DEF Upload, OutputKind, TypeOK, Work, Busy
    <3>2. QED
      BY <1>5, <3>1, FailsHolds DEF Upload, OutputKind
  <2>2. QED
    BY <1>5, <2>1, LoadFalls DEF Upload, Failing
<1>6. ASSUME NEW w \in Worker, SendComplete(w) PROVE LoadBounded(c)'
  <2>1. \A u \in Worker : Busy(u, c)' => Busy(u, c)
    BY <1>6 DEF SendComplete, TypeOK, Work, Busy
  <2>2. QED
    BY <1>6, <2>1, LoadFalls DEF SendComplete, Failing
<1>7. ASSUME NEW w \in Worker, SendFail(w) PROVE LoadBounded(c)'
  BY <1>7, LoadSendFail
<1>8. ASSUME NEW w \in Worker, GiveUp(w) PROVE LoadBounded(c)'
  <2>1. CASE work[w].pc = "completing" /\ Fails(w, TRUE)
    BY <1>8, <2>1, FailsHolds, LoadFalls DEF GiveUp, Failing
  <2>2. CASE work' = [work EXCEPT ![w] = Idle]
    BY <1>8, <2>2, IdleLeaves, LoadFalls DEF GiveUp, Failing
  <2>3. QED
    BY <1>8, <2>1, <2>2 DEF GiveUp
<1>9. ASSUME NEW w \in Worker, Crash(w) PROVE LoadBounded(c)'
  BY <1>9, IdleLeaves, LoadFalls DEF Crash, Failing
<1>10. ASSUME NEW w \in Worker, NEW ok \in BOOLEAN, CompleteAnswered(w, ok),
              UNCHANGED <<failCall, operator, clicks>>,
              row'[c].status = "pending" => row[c].status = "pending"
       PROVE  LoadBounded(c)'
  BY <1>10, CompleteAnsweredHolds, LoadFalls DEF Failing
<1>11. ASSUME NEW w \in Worker, CompleteRead(w) PROVE LoadBounded(c)'
  <2>1. PayloadMatches(row[completeCall[w].chunk], completeCall[w].verdict)
          \in BOOLEAN
    BY DEF PayloadMatches, TypeOK, CompleteCall, Row
  <2>2. CASE UNCHANGED work
    BY <1>11, <2>2, LoadFalls DEF CompleteRead, Busy, Failing
  <2>3. QED
    BY <1>10, <1>11, <2>1, <2>2 DEF CompleteRead
<1>12. ASSUME NEW w \in Worker, CompleteWrite(w) PROVE LoadBounded(c)'
  <2>1. row'[c].status = "pending" => row[c].status = "pending"
    <3>1. \/ row'[c] = row[c]
          \/ row'[c] = CompletedRow(row[c], completeCall[w].seen,
                                    completeCall[w].verdict)
      BY <1>12 DEF CompleteWrite, TypeOK
    <3>2. QED
      BY <3>1 DEF CompletedRow, Saved
  <2>2. CASE UNCHANGED work
    BY <1>12, <2>1, <2>2, LoadFalls DEF CompleteWrite, Busy, Failing
  <2>3. QED
    BY <1>10, <1>12, <2>1, <2>2 DEF CompleteWrite
<1>13. ASSUME NEW w \in Worker, CompleteRetryPlan(w) PROVE LoadBounded(c)'
  <2>1. row'[c].status = row[c].status
    <3>1. CASE row' = [row EXCEPT ![completeCall[w].chunk].filtered = TRUE]
      BY <3>1 DEF TypeOK, Row
    <3>2. QED
      BY <1>13, <3>1 DEF CompleteRetryPlan
  <2>2. QED
    BY <1>10, <1>13, <2>1 DEF CompleteRetryPlan
<1>14. ASSUME NEW w \in Worker, FailAnswered(w), UNCHANGED <<row, operator, clicks>>
       PROVE  LoadBounded(c)'
  BY <1>14, FailAnsweredHolds, LoadFalls
<1>15. ASSUME NEW w \in Worker, FailRead(w) PROVE LoadBounded(c)'
  <2>1. CASE UNCHANGED work /\ failCall[w].phase = "sent"
             /\ failCall' = [failCall EXCEPT ![w].phase = "read",
                                             ![w].seen = row[failCall[w].chunk]]
    <3>1. \A u \in Worker : Failing(u, c)' => Failing(u, c)
      BY <2>1 DEF TypeOK, FailCall, Failing
    <3>2. QED
      BY <1>15, <2>1, <3>1, LoadFalls DEF FailRead, Busy
  <2>2. QED
    BY <1>14, <1>15, <2>1 DEF FailRead
<1>16. ASSUME NEW w \in Worker, FailWrite(w) PROVE LoadBounded(c)'
  BY <1>16, LoadFailWrite
<1>17. CASE Operator
  BY <1>17, LoadOperator
<1>18. CASE UNCHANGED vars
  BY <1>18, LoadFalls DEF vars, Busy, Failing
<1>19. ASSUME NEW w \in Worker, CompleteLost(w) \/ CompleteHandoffFails(w) \/ FailLost(w)
       PROVE  LoadBounded(c)'
  BY <1>10, <1>14, <1>19 DEF CompleteLost, CompleteHandoffFails, FailLost
<1>20. QED
  BY <1>1, <1>2, <1>3, <1>4, <1>5, <1>6, <1>7, <1>8, <1>9, <1>11, <1>12,
     <1>13, <1>15, <1>16, <1>17, <1>18, <1>19
  DEF Next, WorkerStep, Handler, Disruption

LoadInv == \A c \in Chunk : LoadBounded(c)

LEMMA LoadInit == Init => LoadInv
<1> SUFFICES ASSUME Init, NEW c \in Chunk PROVE LoadBounded(c)
  BY DEF LoadInv
<1>1. BusyOn(c) = {} /\ FailingOn(c) = {}
  BY DEF Init, Idle, NoFail, BusyOn, FailingOn, Busy, Failing
<1>2. Openings(c) = 1 /\ clicks = 0
  BY DEF Init, NewRow, NoOperation, Openings, Clicked
<1>3. QED
  BY <1>1, <1>2, FS_EmptySet DEF LoadBounded

\* However often buttons are pressed and whatever calls are late or lost, a
\* click is worth one more worker on a chunk and no more.
THEOREM ClicksBoundWorkers == Spec => []WorkersBoundedByClicks
<1>1. TypeOK /\ LoadInv /\ [Next]_vars => LoadInv'
  BY LoadStep DEF LoadInv
<1>2. TypeOK /\ LoadInv => WorkersBoundedByClicks
  <2> SUFFICES ASSUME TypeOK, LoadInv, NEW c \in Chunk
               PROVE  Cardinality({w \in Worker : Busy(w, c)}) <= 1 + clicks
    BY DEF WorkersBoundedByClicks
  <2>1. LoadBounded(c) /\ clicks \in Nat
    BY DEF LoadInv, TypeOK
  <2>2. Cardinality(BusyOn(c)) \in Nat /\ Cardinality(FailingOn(c)) \in Nat
    BY <2>1, FS_CardinalityType DEF LoadBounded
  <2>3. Cardinality(BusyOn(c)) <= 1 + clicks
    BY <2>1, <2>2, OpeningsType DEF LoadBounded
  <2>4. QED
    BY <2>3 DEF BusyOn
<1>3. QED
  BY <1>1, <1>2, LoadInit, TypeCorrect, PTL DEF Spec

-----------------------------------------------------------------------------
(* One click and the result of a completed chunk.                            *)
(*                                                                           *)
(* Before the first click every chunk has one holder, and every quiet one    *)
(* keeps its result.  So the row that the click loads, or the rows that a    *)
(* bulk button resets, have no keys and counts, and neither does what any    *)
(* request has loaded by then.  A save therefore finds no key to clear, and  *)
(* complete writes the keys it reports unless it loaded the same ones.       *)

\* What is reported is the result of a verification.
RealVerdict(w) ==
  /\ work[w].pc \in OutputKind \cup {"complete"} => work[w].verdict \in Verdict
  /\ completeCall[w].phase # "none" => completeCall[w].verdict \in Verdict

RealVerdicts == \A w \in Worker : RealVerdict(w)

ResultNamed(c) ==
  /\ row[c].status = "completed" => row[c].result # NoVerdict
  /\ Clicked(c) => operator.seen.result = NoVerdict
  /\ \A w \in Worker : Completing(w, c) /\ completeCall[w].phase = "read" =>
       (completeCall[w].seen.result # NoVerdict => row[c].result # NoVerdict)

Untouched ==
  /\ operator.kind = "none"
  /\ HeldOnce(Chunk)
  /\ \A c \in Chunk \ SlowChunks : QuietAttempt(c)

OneClickInv ==
  /\ clicks = 0 => Untouched
  /\ clicks <= 1 => \A c \in Chunk \ SlowChunks : ResultNamed(c)

LEMMA RealVerdictFails ==
  ASSUME TypeOK, RealVerdicts, NEW w \in Worker, NEW b \in BOOLEAN, Fails(w, b)
  PROVE  /\ work'[w].pc = "fail"
         /\ \A u \in Worker : u # w => work'[u] = work[u]
BY DEF Fails, TypeOK, Work

LEMMA RealVerdictAnswered ==
  ASSUME TypeOK, RealVerdicts, NEW w \in Worker, NEW ok \in BOOLEAN,
         CompleteAnswered(w, ok)
  PROVE  RealVerdicts'
<1>1. \A u \in Worker :
        completeCall'[u] = completeCall[u] \/ completeCall'[u].phase = "none"
  BY DEF CompleteAnswered, NoComplete, TypeOK
<1>2. \A u \in Worker :
        work'[u] = work[u] \/ work'[u].pc \in {"idle", "fail"}
  <2>1. CASE Fails(w, TRUE)
    BY <2>1, RealVerdictFails
  <2>2. CASE work' = work \/ work' = [work EXCEPT ![w] = Idle]
    BY <2>2 DEF TypeOK, Idle
  <2>3. QED
    BY <2>1, <2>2 DEF CompleteAnswered
<1>3. QED
  BY <1>1, <1>2 DEF RealVerdicts, RealVerdict, OutputKind

LEMMA RealVerdictsStep ==
  TypeOK /\ RealVerdicts /\ [Next]_vars => RealVerdicts'
<1> SUFFICES ASSUME TypeOK, RealVerdicts, [Next]_vars PROVE RealVerdicts'
  OBVIOUS
<1>1. ASSUME UNCHANGED <<work, completeCall>> PROVE RealVerdicts'
  BY <1>1 DEF RealVerdicts, RealVerdict
<1>2. ASSUME UNCHANGED completeCall,
             \A u \in Worker : \/ work'[u] = work[u]
                               \/ work'[u].pc \notin OutputKind \cup {"complete"}
      PROVE  RealVerdicts'
  BY <1>2 DEF RealVerdicts, RealVerdict
<1>3. ASSUME NEW w \in Worker, NEW c \in Chunk, ClaimNext(w, c)
      PROVE  RealVerdicts'
  <2>1. \A u \in Worker : work'[u] = work[u] \/ work'[u].pc = "claimed"
    BY <1>3 DEF ClaimNext, TypeOK
  <2>2. QED
    BY <1>2, <1>3, <2>1 DEF ClaimNext, OutputKind
<1>4. ASSUME NEW w \in Worker, Verify(w) PROVE RealVerdicts'
  <2>1. ASSUME NEW v \in Verdict, work' = [work EXCEPT ![w].pc = "valid",
                                                      ![w].verdict = v]
        PROVE  RealVerdicts'
    <3>1. /\ work'[w].verdict \in Verdict
          /\ \A u \in Worker : u # w => work'[u] = work[u]
      BY <2>1 DEF TypeOK, Work
    <3>2. QED
      BY <1>4, <3>1 DEF Verify, RealVerdicts, RealVerdict
  <2>2. CASE \E b \in BOOLEAN : Fails(w, b)
    BY <1>2, <1>4, <2>2, RealVerdictFails DEF Verify, OutputKind
  <2>3. QED
    BY <1>4, <2>1, <2>2 DEF Verify
<1>5. ASSUME NEW w \in Worker, Upload(w) PROVE RealVerdicts'
  <2>1. CASE work' = [work EXCEPT ![w].pc = NextUpload[work[w].pc]]
    <3>1. /\ work'[w].verdict = work[w].verdict
          /\ \A u \in Worker : u # w => work'[u] = work[u]
      BY <2>1 DEF TypeOK, Work
    <3>2. QED
      BY <1>5, <3>1 DEF Upload, RealVerdicts, RealVerdict
  <2>2. CASE Fails(w, TRUE)
    BY <1>2, <1>5, <2>2, RealVerdictFails DEF Upload, OutputKind
  <2>3. QED
    BY <1>5, <2>1, <2>2 DEF Upload
<1>6. ASSUME NEW w \in Worker, SendComplete(w) PROVE RealVerdicts'
  <2>1. /\ work[w].verdict \in Verdict
        /\ work'[w].pc = "completing"
        /\ completeCall'[w].verdict = work[w].verdict
        /\ \A u \in Worker : u # w => /\ work'[u] = work[u]
                                      /\ completeCall'[u] = completeCall[u]
    BY <1>6 DEF SendComplete, RealVerdicts, RealVerdict, TypeOK, Work
  <2>2. QED
    BY <2>1 DEF RealVerdicts, RealVerdict, OutputKind
<1>7. ASSUME NEW w \in Worker, SendFail(w) PROVE RealVerdicts'
  <2>1. \A u \in Worker : work'[u] = work[u] \/ work'[u].pc = "failing"
    BY <1>7 DEF SendFail, TypeOK, Work
  <2>2. QED
    BY <1>2, <1>7, <2>1 DEF SendFail, OutputKind
<1>8. ASSUME NEW w \in Worker, work' = [work EXCEPT ![w] = Idle],
             UNCHANGED completeCall
      PROVE  RealVerdicts'
  BY <1>2, <1>8 DEF TypeOK, Idle, OutputKind
<1>9. ASSUME NEW w \in Worker, GiveUp(w) \/ Crash(w) PROVE RealVerdicts'
  BY <1>2, <1>8, <1>9, RealVerdictFails DEF GiveUp, Crash, OutputKind
<1>10. ASSUME NEW w \in Worker, UNCHANGED work,
              completeCall'[w].phase # "none" =>
                /\ completeCall[w].phase # "none"
                /\ completeCall'[w].verdict = completeCall[w].verdict,
              \A u \in Worker : u # w => completeCall'[u] = completeCall[u]
       PROVE  RealVerdicts'
  BY <1>10 DEF RealVerdicts, RealVerdict
<1>11. ASSUME NEW w \in Worker, CompleteRead(w) PROVE RealVerdicts'
  <2>1. PayloadMatches(row[completeCall[w].chunk], completeCall[w].verdict)
          \in BOOLEAN
    BY DEF PayloadMatches, TypeOK, CompleteCall, Row
  <2>2. CASE /\ completeCall' = [completeCall EXCEPT
                                  ![w].phase = "read",
                                  ![w].seen = row[completeCall[w].chunk]]
             /\ UNCHANGED work
    <3>1. /\ completeCall[w].phase = "sent"
          /\ completeCall'[w].verdict = completeCall[w].verdict
          /\ \A u \in Worker : u # w => completeCall'[u] = completeCall[u]
      BY <1>11, <2>2 DEF CompleteRead, TypeOK, CompleteCall
    <3>2. QED
      BY <1>10, <2>2, <3>1
  <2>3. QED
    BY <1>11, <2>1, <2>2, RealVerdictAnswered DEF CompleteRead
<1>12. ASSUME NEW w \in Worker, CompleteWrite(w) PROVE RealVerdicts'
  <2>1. CASE /\ completeCall' = [completeCall EXCEPT ![w].phase = "retry_plan"]
             /\ UNCHANGED work
    <3>1. /\ completeCall[w].phase = "read"
          /\ completeCall'[w].verdict = completeCall[w].verdict
          /\ \A u \in Worker : u # w => completeCall'[u] = completeCall[u]
      BY <1>12, <2>1 DEF CompleteWrite, TypeOK, CompleteCall
    <3>2. QED
      BY <1>10, <2>1, <3>1
  <2>2. QED
    BY <1>12, <2>1, RealVerdictAnswered DEF CompleteWrite
<1>13. ASSUME NEW w \in Worker,
              CompleteLost(w) \/ CompleteHandoffFails(w) \/ CompleteRetryPlan(w)
       PROVE  RealVerdicts'
  BY <1>13, RealVerdictAnswered DEF CompleteLost, CompleteHandoffFails,
     CompleteRetryPlan
<1>14. ASSUME NEW w \in Worker, FailAnswered(w), UNCHANGED completeCall
       PROVE  RealVerdicts'
  BY <1>1, <1>8, <1>14 DEF FailAnswered
<1>15. QED
  BY <1>1, <1>3, <1>4, <1>5, <1>6, <1>7, <1>9, <1>11, <1>12, <1>13, <1>14
  DEF Next, vars, LeaseExpires, BackoffElapses, WorkerStep, Handler, FailRead,
      FailWrite, Disruption, FailLost, Operator, OperatorRead, OperatorWrite,
      RequeueFailedChunks, RequeueStuckChunks, BulkRequeue

LEMMA RealVerdictsInit == Init => RealVerdicts
BY DEF Init, Idle, NoComplete, RealVerdicts, RealVerdict, OutputKind

\* A step after which the row still has the result it had, or has one.
LEMMA ResultStays ==
  ASSUME NEW c \in Chunk, ResultNamed(c),
         row'[c].result = row[c].result \/ row'[c].result # NoVerdict,
         row'[c].status = "completed" =>
           row[c].status = "completed" \/ row'[c].result # NoVerdict,
         UNCHANGED operator \/ ~(Clicked(c)'),
         \A w \in Worker : Completing(w, c)' /\ completeCall'[w].phase = "read" =>
           Completing(w, c) /\ completeCall'[w] = completeCall[w]
  PROVE  ResultNamed(c)'
<1>1. Clicked(c)' => Clicked(c) /\ operator' = operator
  BY DEF Clicked
<1>2. row'[c].status = "completed" => row'[c].result # NoVerdict
  BY DEF ResultNamed
<1>3. Clicked(c)' => operator'.seen.result = NoVerdict
  BY <1>1 DEF ResultNamed
<1>4. ASSUME NEW w \in Worker, Completing(w, c)', completeCall'[w].phase = "read",
             completeCall'[w].seen.result # NoVerdict
      PROVE  row'[c].result # NoVerdict
  <2>1. Completing(w, c) /\ completeCall'[w] = completeCall[w]
    BY <1>4
  <2>2. QED
    BY <1>4, <2>1 DEF ResultNamed
<1>5. QED
  BY <1>2, <1>3, <1>4 DEF ResultNamed

\* A completion writes what was verified, unless it has loaded just that.
LEMMA CompletedRowNamed ==
  ASSUME TypeOK, RealVerdicts, NEW c \in Chunk, ResultNamed(c), NEW w \in Worker,
         CompleteWrite(w)
  PROVE  ResultNamed(c)'
<1> DEFINE seen == completeCall[w].seen
           v == completeCall[w].verdict
<1>1. completeCall[w].phase = "read" /\ UNCHANGED operator
  BY DEF CompleteWrite
<1>2. \A u \in Worker : Completing(u, c)' /\ completeCall'[u].phase = "read" =>
        Completing(u, c) /\ completeCall'[u] = completeCall[u]
  <2>1. CASE CompleteAnswered(w, TRUE)
    BY <2>1, CompleteAnsweredHolds
  <2>2. CASE completeCall' = [completeCall EXCEPT ![w].phase = "retry_plan"]
    BY <2>2 DEF TypeOK, CompleteCall, Completing
  <2>3. QED
    BY <2>1, <2>2 DEF CompleteWrite
<1>3. CASE completeCall[w].chunk # c
  <2>1. row'[c] = row[c]
    BY <1>3 DEF CompleteWrite, TypeOK
  <2>2. QED
    BY <1>1, <1>2, <2>1, ResultStays
<1>4. CASE completeCall[w].chunk = c
  <2>1. row'[c] = CompletedRow(row[c], seen, v)
    BY <1>4 DEF CompleteWrite, TypeOK
  <2>2. v # NoVerdict
    BY <1>1, ChunkLeaseAssumption DEF RealVerdicts, RealVerdict
  <2>3. seen.result # NoVerdict => row[c].result # NoVerdict
    BY <1>1, <1>4 DEF ResultNamed, Completing
  <2>4. row'[c].result # NoVerdict
    BY <2>1, <2>2, <2>3 DEF CompletedRow, Saved
  <2>5. QED
    BY <1>1, <1>2, <2>4, ResultStays
<1>5. QED
  BY <1>3, <1>4

\* Every step but a click.
LEMMA ResultNamedStep ==
  ASSUME TypeOK, RealVerdicts, NEW c \in Chunk, ResultNamed(c), [Next]_vars,
         UNCHANGED clicks
  PROVE  ResultNamed(c)'
<1>1. ASSUME UNCHANGED <<row, completeCall, operator>>
      PROVE  ResultNamed(c)'
  BY <1>1, ResultStays DEF Completing
<1>2. ASSUME NEW d \in Chunk, LeaseExpires(d) PROVE ResultNamed(c)'
  <2>1. row'[c].result = row[c].result /\ row'[c].status = row[c].status
    BY <1>2 DEF LeaseExpires, TypeOK, Row
  <2>2. QED
    BY <1>2, <2>1, ResultStays DEF LeaseExpires, Completing
<1>3. ASSUME NEW w \in Worker, NEW d \in Chunk, ClaimNext(w, d)
      PROVE  ResultNamed(c)'
  <2>1. \/ row'[c] = row[c]
        \/ row'[c].result = row[c].result /\ row'[c].status = "processing"
    BY <1>3 DEF ClaimNext, ClaimedRow, TypeOK
  <2>2. QED
    BY <1>3, <2>1, ResultStays DEF ClaimNext, Completing
<1>4. ASSUME NEW w \in Worker, SendComplete(w) PROVE ResultNamed(c)'
  <2>1. \A u \in Worker :
          completeCall'[u] = completeCall[u] \/ completeCall'[u].phase = "sent"
    BY <1>4 DEF SendComplete, TypeOK
  <2>2. QED
    BY <1>4, <2>1, ResultStays DEF SendComplete, Completing
<1>5. ASSUME NEW w \in Worker, NEW ok \in BOOLEAN, CompleteAnswered(w, ok),
             UNCHANGED operator, row'[c].result = row[c].result,
             row'[c].status = row[c].status
      PROVE  ResultNamed(c)'
  BY <1>5, CompleteAnsweredHolds, ResultStays
<1>6. ASSUME NEW w \in Worker, CompleteRead(w) PROVE ResultNamed(c)'
  <2> DEFINE d == completeCall[w].chunk
  <2>1. PayloadMatches(row[d], completeCall[w].verdict) \in BOOLEAN
    BY DEF PayloadMatches, TypeOK, CompleteCall, Row
  <2>2. CASE completeCall' = [completeCall EXCEPT ![w].phase = "read",
                                                  ![w].seen = row[d]]
    <3>1. /\ completeCall'[w].chunk = d
          /\ completeCall'[w].seen = row[d]
          /\ \A u \in Worker : u # w => completeCall'[u] = completeCall[u]
      BY <2>2 DEF TypeOK, CompleteCall
    <3>2. UNCHANGED <<row, operator>>
      BY <1>6 DEF CompleteRead
    <3>3. ASSUME NEW u \in Worker, Completing(u, c)',
                 completeCall'[u].phase = "read",
                 completeCall'[u].seen.result # NoVerdict
          PROVE  row'[c].result # NoVerdict
      <4>1. CASE u = w
        BY <3>1, <3>2, <3>3, <4>1 DEF Completing
      <4>2. CASE u # w
        BY <3>1, <3>2, <3>3, <4>2 DEF Completing, ResultNamed
      <4>3. QED
        BY <4>1, <4>2
    <3>4. QED
      BY <3>2, <3>3 DEF ResultNamed, Clicked
  <2>3. QED
    BY <1>5, <1>6, <2>1, <2>2 DEF CompleteRead
<1>7. ASSUME NEW w \in Worker, CompleteRetryPlan(w) PROVE ResultNamed(c)'
  <2>1. row'[c].result = row[c].result /\ row'[c].status = row[c].status
    <3>1. CASE row' = [row EXCEPT ![completeCall[w].chunk].filtered = TRUE]
      BY <3>1 DEF TypeOK, Row
    <3>2. QED
      BY <1>7, <3>1 DEF CompleteRetryPlan
  <2>2. QED
    BY <1>5, <1>7, <2>1 DEF CompleteRetryPlan
<1>8. ASSUME NEW w \in Worker, CompleteLost(w) \/ CompleteHandoffFails(w)
      PROVE  ResultNamed(c)'
  BY <1>5, <1>8 DEF CompleteLost, CompleteHandoffFails
<1>9. ASSUME NEW w \in Worker, FailWrite(w) PROVE ResultNamed(c)'
  <2>1. /\ row'[c].result = row[c].result
        /\ row'[c].status = "completed" => row[c].status = "completed"
    <3>1. \/ row'[c] = row[c]
          \/ row'[c] = FailedRow(row[c], failCall[w].seen, failCall[w].retryable)
      BY <1>9 DEF FailWrite, TypeOK
    <3>2. QED
      BY <3>1 DEF FailedRow, ReleasedRow, FailStatus, Saved
  <2>2. QED
    BY <1>9, <2>1, ResultStays DEF FailWrite, Completing
<1>10. CASE OperatorWrite
  <2>1. UNCHANGED completeCall /\ ~(Clicked(c)')
    BY <1>10 DEF OperatorWrite, NoOperation, Clicked
  <2>2. CASE operator.chunk # c
    <3>1. row'[c] = row[c]
      BY <1>10, <2>2 DEF OperatorWrite, TypeOK
    <3>2. QED
      BY <2>1, <3>1, ResultStays DEF Completing
  <2>3. CASE operator.chunk = c
    <3>1. /\ operator.seen.result = NoVerdict
          /\ \/ row'[c] = RequeuedRow(row[c], operator.seen)
             \/ row'[c] = MarkedFailedRow(row[c], operator.seen)
      BY <1>10, <2>3 DEF OperatorWrite, TypeOK, ResultNamed, Clicked
    <3>2. /\ row'[c].result = row[c].result
          /\ row'[c].status = "completed" => row[c].status = "completed"
      BY <3>1 DEF RequeuedRow, MarkedFailedRow, ReleasedRow, Saved
    <3>3. QED
      BY <2>1, <3>2, ResultStays DEF Completing
  <2>4. QED
    BY <2>2, <2>3
<1>11. ASSUME Operator PROVE OperatorWrite
  BY <1>11 DEF TypeOK, Operator, OperatorRead, RequeueFailedChunks,
     RequeueStuckChunks, BulkRequeue
<1>12. QED
  BY <1>1, <1>2, <1>3, <1>4, <1>6, <1>7, <1>8, <1>9, <1>10, <1>11,
     CompletedRowNamed
  DEF Next, vars, BackoffElapses, WorkerStep, Verify, Upload, SendFail, Handler,
      FailRead, Disruption, GiveUp, Crash, FailLost

\* The first click finds no chunk that has a result without being completed.
LEMMA FirstClick ==
  ASSUME TypeOK, Untouched, Operator, clicks' # clicks,
         NEW c \in Chunk \ SlowChunks, ResultNamed(c)
  PROVE  ResultNamed(c)'
<1>1. /\ ResultIsKept(c)
      /\ \A w \in Worker : CompletionIsFresh(w, c)
      /\ operator.kind = "none"
  BY DEF Untouched, QuietAttempt
<1>2. \A w \in Worker : Completing(w, c) /\ completeCall[w].phase = "read" =>
        completeCall[w].seen.result = NoVerdict
  BY <1>1 DEF CompletionIsFresh
<1>3. ASSUME NEW d \in OperatorChunks, NEW kind \in {"requeue", "mark_failed"},
             OperatorRead(d, kind)
      PROVE  ResultNamed(c)'
  BY <1>1, <1>2, <1>3 DEF OperatorRead, ResultIsKept, ResultNamed, Clicked,
     Completing
<1>4. ASSUME NEW chosen, BulkRequeue(chosen)
      PROVE  ResultNamed(c)'
  <2>1. row'[c] = row[c] \/ row'[c].status = "pending"
    BY <1>4 DEF BulkRequeue, NewRow
  <2>2. QED
    BY <1>1, <1>2, <1>4, <2>1 DEF BulkRequeue, ResultNamed, Clicked, Completing
<1>5. QED
  BY <1>3, <1>4 DEF Operator, OperatorWrite, RequeueFailedChunks,
     RequeueStuckChunks

LEMMA UntouchedStep ==
  ASSUME TypeOK, Untouched, [Next]_vars, UNCHANGED clicks
  PROVE  Untouched'
<1>1. ~Operator
  BY DEF TypeOK, Untouched, Operator, OperatorRead, OperatorWrite,
     RequeueFailedChunks, RequeueStuckChunks, BulkRequeue
<1>2. HeldOnce(Chunk)'
  BY <1>1, HeldOnceStep DEF Untouched
<1>3. ASSUME NEW c \in Chunk \ SlowChunks PROVE QuietAttempt(c)'
  BY <1>1, HeldOnceOne, QuietAttemptStep DEF Untouched
<1>4. UNCHANGED operator
  BY <1>1 DEF Next, vars, LeaseExpires, BackoffElapses, ClaimNext, WorkerStep,
     Verify, Upload, SendComplete, SendFail, Handler, CompleteRead,
     CompleteHandoffFails, CompleteWrite, CompleteRetryPlan, FailRead,
     FailWrite, Disruption, GiveUp, Crash, CompleteLost, FailLost
<1>5. QED
  BY <1>2, <1>3, <1>4 DEF Untouched

LEMMA ClicksCount ==
  ASSUME TypeOK, [Next]_vars
  PROVE  UNCHANGED clicks \/ (Operator /\ clicks' = clicks + 1)
BY DEF Next, vars, LeaseExpires, BackoffElapses, ClaimNext, WorkerStep,
   Verify, Upload, SendComplete, SendFail, Handler, CompleteRead,
   CompleteHandoffFails, CompleteWrite, CompleteRetryPlan, FailRead,
   FailWrite, Disruption, GiveUp, Crash, CompleteLost, FailLost, Operator,
   OperatorRead, OperatorWrite, RequeueFailedChunks, RequeueStuckChunks,
   BulkRequeue

LEMMA OneClickStep ==
  TypeOK /\ RealVerdicts /\ OneClickInv /\ [Next]_vars => OneClickInv'
<1> SUFFICES ASSUME TypeOK, RealVerdicts, OneClickInv, [Next]_vars
             PROVE  OneClickInv'
  OBVIOUS
<1>1. clicks \in Nat
  BY DEF TypeOK
<1>2. CASE UNCHANGED clicks
  BY <1>2, UntouchedStep, ResultNamedStep DEF OneClickInv
<1>3. CASE Operator /\ clicks' = clicks + 1
  <2>1. clicks' <= 1 => clicks = 0
    BY <1>1, <1>3
  <2>2. QED
    BY <1>1, <1>3, <2>1, FirstClick DEF OneClickInv
<1>4. QED
  BY <1>2, <1>3, ClicksCount

LEMMA OneClickInit == Init => OneClickInv
<1> SUFFICES ASSUME Init PROVE OneClickInv
  OBVIOUS
<1>1. Untouched
  BY HeldOnceInit, QuietAttemptInit DEF Init, NoOperation, Untouched
<1>2. ASSUME NEW c \in Chunk PROVE ResultNamed(c)
  <2>1. row[c].status = "pending" /\ operator.kind = "none"
    BY DEF Init, NewRow, NoOperation
  <2>2. \A w \in Worker : completeCall[w].phase = "none"
    BY DEF Init, NoComplete
  <2>3. QED
    BY <2>1, <2>2 DEF ResultNamed, Clicked, Completing
<1>3. QED
  BY <1>1, <1>2 DEF OneClickInv

\* Wherever the client waits for its answers, one requeue, one mark-failed or
\* one bulk requeue in the middle of an attempt leaves no completed chunk
\* without its keys: FinalizeVerificationJob would merge it as empty.
THEOREM CompletedChunksHaveResults == Spec => []CompletedHasResult
<1>1. TypeOK /\ RealVerdicts /\ [Next]_vars => RealVerdicts'
  BY RealVerdictsStep
<1>2. TypeOK /\ RealVerdicts /\ OneClickInv /\ [Next]_vars => OneClickInv'
  BY OneClickStep
<1>3. OneClickInv => CompletedHasResult
  BY DEF OneClickInv, ResultNamed, CompletedHasResult
<1>4. QED
  BY <1>1, <1>2, <1>3, RealVerdictsInit, OneClickInit, TypeCorrect, PTL DEF Spec
=============================================================================
