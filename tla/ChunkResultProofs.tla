--------------------------- MODULE ChunkResultProofs ---------------------------
(***************************************************************************)
(* Theorems about the chunks of ChunkLease that no operator touches and    *)
(* whose requests the client waits for: their rows tell the truth, their   *)
(* result is one verification, and they live the life cycle of             *)
(* ChunkLifecycle.                                                         *)
(***************************************************************************)
EXTENDS ChunkLeaseProofs

-----------------------------------------------------------------------------
(* The inductive invariant.  A quiet chunk is being verified, reported as    *)
(* complete or reported as failed, never two of these at a time; so nothing  *)
(* changes its row or its files between the claim and the report, and the    *)
(* snapshot of a report is still the row.                                    *)

\* The files an attempt has stored before each of its steps.
UploadedBefore ==
  [claimed |-> {}, valid |-> {}, invalid |-> {"valid"},
   risky |-> {"valid", "invalid"}, complete |-> OutputKind]

\* An attempt under way: the row is its own, and nobody reports on the chunk.
WorkIsRecorded(w, c) ==
  Working(w, c) =>
    /\ row[c].status = "processing"
    /\ row[c].worker = w
    /\ \A k \in UploadedBefore[work[w].pc] : output[c][k] = work[w].verdict
    /\ \A u \in Worker : ~Completing(u, c) /\ ~Failing(u, c)

\* A complete request: it is the only one, its worker waits for it or is gone,
\* the files are those it reports, and what it has loaded is still true.
CompletionIsFresh(w, c) ==
  Completing(w, c) =>
    /\ \A u \in Worker : Completing(u, c) => u = w
    /\ \A u \in Worker : Busy(u, c) => u = w /\ work[u].pc = "completing"
    /\ \A u \in Worker : ~Failing(u, c)
    /\ completeCall[w].phase = "retry_plan" => row[c].status = "completed"
    /\ completeCall[w].phase # "retry_plan" =>
         /\ row[c].status = "processing"
         /\ \A k \in OutputKind : output[c][k] = completeCall[w].verdict
    /\ completeCall[w].phase = "read" =>
         /\ completeCall[w].seen.status = "processing"
         /\ completeCall[w].seen.result = NoVerdict
         /\ ~completeCall[w].seen.filtered

\* A fail request that has loaded the row will find it as it was.
FailureIsDue(w, c) ==
  Failing(w, c) /\ failCall[w].phase = "read" => row[c].status = "processing"

ResultIsKept(c) ==
  /\ row[c].status # "completed" =>
       row[c].result = NoVerdict /\ ~row[c].filtered
  /\ row[c].status = "completed" =>
       \A k \in OutputKind : output[c][k] = row[c].result

QuietAttempt(c) ==
  /\ ResultIsKept(c)
  /\ \A w \in Worker :
       WorkIsRecorded(w, c) /\ CompletionIsFresh(w, c) /\ FailureIsDue(w, c)

QuietInv == \A c \in Quiet : QuietAttempt(c)

-----------------------------------------------------------------------------
(* Steps that leave a quiet chunk as it is. *)

\* What a step does to c when it is about another chunk, or only lets a call on
\* c end or a worker leave it.
LeavesAlone(c) ==
  /\ row'[c].status = row[c].status
  /\ row'[c].worker = row[c].worker
  /\ row'[c].result = row[c].result
  /\ row'[c].filtered = row[c].filtered
  /\ output'[c] = output[c]
  /\ \A w \in Worker :
       /\ Busy(w, c)' =>
            /\ Busy(w, c)
            /\ \/ work'[w] = work[w]
               \/ work'[w].pc = "fail" /\ \A u \in Worker : ~(Completing(u, c)')
       /\ Completing(w, c)' => /\ Completing(w, c)
                               /\ completeCall'[w] = completeCall[w]
       /\ Failing(w, c)' => Failing(w, c) /\ failCall'[w] = failCall[w]

LEMMA WorkingIsBusy ==
  \A w \in Worker, c \in Chunk :
    Working(w, c) <=> Busy(w, c) /\ work[w].pc \in {"claimed", "complete"} \cup OutputKind
BY DEF Working, Busy, OutputKind

LEMMA LeftAlone ==
  ASSUME NEW c \in Chunk, QuietAttempt(c), LeavesAlone(c)
  PROVE  QuietAttempt(c)'
<1>1. c \in Chunk
  OBVIOUS
<1>2. ResultIsKept(c)'
  BY DEF QuietAttempt, ResultIsKept, LeavesAlone
<1>3. ASSUME NEW w \in Worker PROVE WorkIsRecorded(w, c)'
  <2>1. Working(w, c)' => Working(w, c) /\ work'[w] = work[w]
    BY DEF Working, Busy, OutputKind, LeavesAlone
  <2>2. QED
    BY <2>1 DEF QuietAttempt, WorkIsRecorded, LeavesAlone
<1>4. ASSUME NEW w \in Worker PROVE CompletionIsFresh(w, c)'
  <2> SUFFICES ASSUME Completing(w, c)' PROVE CompletionIsFresh(w, c)'
    BY DEF CompletionIsFresh
  <2>1. Completing(w, c) /\ completeCall'[w] = completeCall[w]
    BY DEF LeavesAlone
  <2>2. \A u \in Worker : Busy(u, c)' => Busy(u, c) /\ work'[u] = work[u]
    BY DEF LeavesAlone
  <2>3. QED
    BY <2>1, <2>2 DEF QuietAttempt, CompletionIsFresh, LeavesAlone
<1>5. ASSUME NEW w \in Worker PROVE FailureIsDue(w, c)'
  BY DEF QuietAttempt, FailureIsDue, LeavesAlone
<1>6. QED
  BY <1>2, <1>3, <1>4, <1>5 DEF QuietAttempt

\* A worker whose step is over, or has failed, is on no new chunk.
LEMMA FailsLeaves ==
  ASSUME TypeOK, NEW w \in Worker, NEW b \in BOOLEAN, Fails(w, b),
         work[w].pc \notin {"idle", "failing"}
  PROVE  \A u \in Worker, c \in Chunk :
           Busy(u, c)' =>
             /\ Busy(u, c)
             /\ work'[u] = work[u] \/ (u = w /\ work'[u].pc = "fail")
<1>1. \A u \in Worker, c \in Chunk : Busy(u, c)' => Busy(u, c)
  BY FailsHolds
<1>2. \A u \in Worker : u # w => work'[u] = work[u]
  BY DEF Fails, TypeOK
<1>3. work'[w].pc = "fail"
  BY DEF Fails, TypeOK, Work
<1>4. QED
  BY <1>1, <1>2, <1>3

LEMMA IdleLeaves ==
  ASSUME TypeOK, NEW w \in Worker, work' = [work EXCEPT ![w] = Idle]
  PROVE  \A u \in Worker, c \in Chunk :
           Busy(u, c)' => Busy(u, c) /\ work'[u] = work[u]
<1>1. \A u \in Worker : u # w => work'[u] = work[u]
  BY DEF TypeOK
<1>2. work'[w].pc = "idle"
  BY DEF TypeOK, Idle
<1>3. QED
  BY <1>1, <1>2 DEF Busy

\* The answer to a complete request leaves no request behind, so a worker that
\* fails because of it fails alone.
LEMMA CompleteAnsweredLeaves ==
  ASSUME TypeOK, NEW c \in Chunk, QuietAttempt(c), NEW w \in Worker,
         NEW ok \in BOOLEAN, completeCall[w].phase # "none",
         CompleteAnswered(w, ok), UNCHANGED <<output, failCall>>,
         /\ row'[c].status = row[c].status
         /\ row'[c].worker = row[c].worker
         /\ row'[c].result = row[c].result
         /\ row'[c].filtered = row[c].filtered
  PROVE  LeavesAlone(c)
<1>1. c \in Chunk
  OBVIOUS
<1>2. \A u \in Worker :
        Completing(u, c)' => Completing(u, c) /\ completeCall'[u] = completeCall[u]
  BY <1>1, CompleteAnsweredHolds
<1>3. ~(Completing(w, c)')
  BY DEF CompleteAnswered, TypeOK, Completing, NoComplete
<1>4. ASSUME NEW u \in Worker, Busy(u, c)'
      PROVE  /\ Busy(u, c)
             /\ \/ work'[u] = work[u]
                \/ work'[u].pc = "fail" /\ \A x \in Worker : ~(Completing(x, c)')
  <2>1. CASE work' = work
    BY <1>4, <2>1 DEF Busy
  <2>2. CASE work' = [work EXCEPT ![w] = Idle]
    BY <1>1, <1>4, <2>2, IdleLeaves
  <2>3. CASE work[w].pc = "completing" /\ Fails(w, TRUE)
    <3>1. Busy(u, c) /\ (work'[u] = work[u] \/ (u = w /\ work'[u].pc = "fail"))
      BY <1>1, <1>4, <2>3, FailsLeaves
    <3>2. CASE u = w
      <4>1. \A x \in Worker : Completing(x, c) => x = w
        BY <3>1, <3>2 DEF QuietAttempt, CompletionIsFresh
      <4>2. QED
        BY <1>2, <1>3, <3>1, <4>1
    <3>3. QED
      BY <3>1, <3>2
  <2>4. QED
    BY <2>1, <2>2, <2>3 DEF CompleteAnswered
<1>5. QED
  BY <1>2, <1>4 DEF LeavesAlone, Failing

LEMMA FailAnsweredLeaves ==
  ASSUME TypeOK, NEW c \in Chunk, NEW w \in Worker, FailAnswered(w),
         UNCHANGED <<output, completeCall>>,
         /\ row'[c].status = row[c].status
         /\ row'[c].worker = row[c].worker
         /\ row'[c].result = row[c].result
         /\ row'[c].filtered = row[c].filtered
  PROVE  LeavesAlone(c)
<1>1. c \in Chunk
  OBVIOUS
<1>2. \A u \in Worker : Busy(u, c)' => Busy(u, c) /\ work'[u] = work[u]
  BY <1>1, IdleLeaves DEF FailAnswered, Busy
<1>3. \A u \in Worker :
        Failing(u, c)' => Failing(u, c) /\ failCall'[u] = failCall[u]
  BY <1>1, FailAnsweredHolds
<1>4. QED
  BY <1>2, <1>3 DEF LeavesAlone, Completing

-----------------------------------------------------------------------------
(* The invariant is inductive. *)

\* claim-next finds a pending chunk, on which nobody works or reports.
LEMMA ClaimQuiet ==
  ASSUME TypeOK, NEW c \in Chunk, QuietAttempt(c), HeldOnce({c}),
         NEW w \in Worker, NEW d \in Chunk, ClaimNext(w, d)
  PROVE  QuietAttempt(c)'
<1>1. c \in Chunk /\ c \in {c} /\ QuietAttempt(c)
  OBVIOUS
<1>2. UNCHANGED <<output, completeCall, failCall>>
  BY DEF ClaimNext
<1>3. work[w].pc = "idle"
  BY DEF ClaimNext
<1>4. \A u \in Worker : u # w => work'[u] = work[u]
  BY DEF ClaimNext, TypeOK
<1>5. \/ work'[w] = work[w]
      \/ work'[w] = [pc |-> "claimed", chunk |-> d, verdict |-> NoVerdict,
                     retryable |-> TRUE]
  BY DEF ClaimNext, TypeOK
<1>6. CASE c # d
  <2>1. row'[c] = row[c]
    BY <1>1, <1>6 DEF ClaimNext, TypeOK
  <2>2. \A u \in Worker : Busy(u, c)' => Busy(u, c) /\ work'[u] = work[u]
    BY <1>4, <1>5, <1>6 DEF Busy
  <2>3. LeavesAlone(c)
    BY <1>2, <2>1, <2>2 DEF LeavesAlone, Completing, Failing
  <2>4. QED
    BY <1>1, <2>3, LeftAlone
<1>7. CASE c = d
  <2>1. row'[c] = ClaimedRow(row[c], w) /\ row[c].status = "pending"
    BY <1>1, <1>7 DEF ClaimNext, Claimable, TypeOK
  <2>2. \A u \in Worker : ~Busy(u, c) /\ ~Failing(u, c)
    BY <1>1, <2>1 DEF HeldOnce, Holds
  <2>3. \A u \in Worker : ~Completing(u, c)
    BY <1>1, <2>1 DEF QuietAttempt, CompletionIsFresh
  <2>4. \A u \in Worker : ~(Completing(u, c)') /\ ~(Failing(u, c)')
    BY <1>2, <2>2, <2>3 DEF Completing, Failing
  <2>5. ResultIsKept(c)'
    BY <1>1, <1>2, <2>1 DEF QuietAttempt, ResultIsKept, ClaimedRow
  <2>6. \A u \in Worker : Working(u, c)' => u = w /\ work'[w].pc = "claimed"
    BY <1>3, <1>4, <1>5, <2>2 DEF Working, Busy, OutputKind
  <2>7. \A u \in Worker : WorkIsRecorded(u, c)'
    BY <2>1, <2>4, <2>6 DEF WorkIsRecorded, ClaimedRow, UploadedBefore
  <2>8. QED
    BY <2>4, <2>5, <2>7 DEF QuietAttempt, CompletionIsFresh, FailureIsDue
<1>8. QED
  BY <1>6, <1>7

\* The attempt itself: verification and uploads, by the only worker at it.
LEMMA VerifyQuiet ==
  ASSUME TypeOK, NEW c \in Chunk, QuietAttempt(c), NEW w \in Worker, Verify(w)
  PROVE  QuietAttempt(c)'
<1>1. c \in Chunk /\ QuietAttempt(c)
  OBVIOUS
<1>2. UNCHANGED <<row, output, completeCall, failCall>> /\ work[w].pc = "claimed"
  BY DEF Verify
<1>3. CASE \E b \in BOOLEAN : Fails(w, b)
  <2>1. \A u \in Worker :
          Busy(u, c)' => /\ Busy(u, c)
                         /\ work'[u] = work[u] \/ (u = w /\ work'[u].pc = "fail")
    BY <1>1, <1>2, <1>3, FailsLeaves
  <2>2. Busy(w, c) => \A u \in Worker : ~Completing(u, c)
    BY <1>1, <1>2 DEF QuietAttempt, WorkIsRecorded, Working, Busy
  <2>3. LeavesAlone(c)
    BY <1>2, <2>1, <2>2 DEF LeavesAlone, Completing, Failing
  <2>4. QED
    BY <1>1, <2>3, LeftAlone
<1>4. ASSUME NEW v \in Verdict, work' = [work EXCEPT ![w].pc = "valid",
                                                     ![w].verdict = v]
      PROVE  QuietAttempt(c)'
  <2>1. /\ work'[w].chunk = work[w].chunk
        /\ work'[w].pc = "valid"
        /\ \A u \in Worker : u # w => work'[u] = work[u]
    BY <1>4 DEF TypeOK, Work
  <2>2. CASE work[w].chunk # c
    <3>1. LeavesAlone(c)
      BY <1>2, <2>1, <2>2 DEF LeavesAlone, Completing, Failing, Busy
    <3>2. QED
      BY <1>1, <3>1, LeftAlone
  <2>3. CASE work[w].chunk = c
    <3>1. /\ row[c].status = "processing"
          /\ row[c].worker = w
          /\ \A u \in Worker : ~Completing(u, c) /\ ~Failing(u, c)
      BY <1>1, <1>2, <2>3 DEF QuietAttempt, WorkIsRecorded, Working
    <3>2. \A u \in Worker : Working(u, c)' => Working(u, c)
      BY <1>2, <2>1, <2>3 DEF Working
    <3>3. \A u \in Worker : WorkIsRecorded(u, c)'
      BY <1>1, <1>2, <2>1, <3>1, <3>2 DEF QuietAttempt, WorkIsRecorded,
         UploadedBefore, Completing, Failing
    <3>4. QED
      BY <1>1, <1>2, <3>1, <3>3 DEF QuietAttempt, ResultIsKept,
         CompletionIsFresh, FailureIsDue, Completing, Failing
  <2>4. QED
    BY <2>2, <2>3
<1>5. QED
  BY <1>3, <1>4 DEF Verify

LEMMA UploadQuiet ==
  ASSUME TypeOK, NEW c \in Chunk, QuietAttempt(c), NEW w \in Worker, Upload(w)
  PROVE  QuietAttempt(c)'
<1>1. c \in Chunk /\ QuietAttempt(c)
  OBVIOUS
<1>2. /\ UNCHANGED <<row, completeCall, failCall>>
      /\ work[w].pc \in OutputKind
      /\ work[w].chunk \in Chunk
      /\ work[w].verdict \in Verdict \cup {NoVerdict}
  BY DEF Upload, TypeOK, Work
<1>3. CASE work[w].chunk # c
  <2>1. output'[c] = output[c]
    BY <1>1, <1>3 DEF Upload, TypeOK
  <2>2. \A u \in Worker : u # w => work'[u] = work[u]
    BY DEF Upload, Fails, TypeOK
  <2>3. work'[w].chunk = work[w].chunk
    BY DEF Upload, Fails, TypeOK, Work
  <2>4. LeavesAlone(c)
    BY <1>2, <1>3, <2>1, <2>2, <2>3 DEF LeavesAlone, Busy, Completing, Failing
  <2>5. QED
    BY <1>1, <2>4, LeftAlone
<1>4. CASE work[w].chunk = c
  <2>1. /\ row[c].status = "processing"
        /\ row[c].worker = w
        /\ \A k \in UploadedBefore[work[w].pc] : output[c][k] = work[w].verdict
        /\ \A u \in Worker : ~Completing(u, c) /\ ~Failing(u, c)
    BY <1>1, <1>2, <1>4 DEF QuietAttempt, WorkIsRecorded, Working
  <2>2. \A u \in Worker : ~(Completing(u, c)') /\ ~(Failing(u, c)')
    BY <1>2, <2>1 DEF Completing, Failing
  <2>3. ResultIsKept(c)'
    BY <1>1, <1>2, <2>1 DEF QuietAttempt, ResultIsKept
  <2>4. \A u \in Worker : Working(u, c) => u = w
    BY <1>1, <2>1 DEF QuietAttempt, WorkIsRecorded
  <2>5. CASE Fails(w, TRUE)
    <3>1. \A u \in Worker :
            Busy(u, c)' => /\ Busy(u, c)
                           /\ work'[u] = work[u] \/ (u = w /\ work'[u].pc = "fail")
      BY <1>1, <1>2, <2>5, FailsLeaves DEF OutputKind
    <3>2. work'[w].pc = "fail"
      BY <2>5 DEF Fails, TypeOK, Work
    <3>3. \A u \in Worker : ~(Working(u, c)')
      BY <2>4, <3>1, <3>2 DEF Working, Busy, OutputKind
    <3>4. QED
      BY <2>2, <2>3, <3>3 DEF QuietAttempt, WorkIsRecorded, CompletionIsFresh,
         FailureIsDue
  <2>6. CASE /\ output' = [output EXCEPT ![c][work[w].pc] = work[w].verdict]
             /\ work' = [work EXCEPT ![w].pc = NextUpload[work[w].pc]]
    <3>1. /\ \A u \in Worker : u # w => work'[u] = work[u]
          /\ work'[w].pc = NextUpload[work[w].pc]
          /\ work'[w].chunk = c
          /\ work'[w].verdict = work[w].verdict
      BY <1>4, <2>6 DEF TypeOK, Work
    <3>2. \A k \in OutputKind :
            output'[c][k] = IF k = work[w].pc THEN work[w].verdict
                            ELSE output[c][k]
      BY <1>1, <1>2, <2>6 DEF TypeOK
    <3>3. \A k \in UploadedBefore[work'[w].pc] : output'[c][k] = work'[w].verdict
      BY <1>2, <2>1, <3>1, <3>2 DEF UploadedBefore, NextUpload, OutputKind
    <3>4. \A u \in Worker : Working(u, c)' => u = w
      BY <2>4, <3>1 DEF Working
    <3>5. \A u \in Worker : WorkIsRecorded(u, c)'
      BY <1>2, <2>1, <2>2, <3>3, <3>4 DEF WorkIsRecorded
    <3>6. QED
      BY <2>2, <2>3, <3>5 DEF QuietAttempt, CompletionIsFresh, FailureIsDue
  <2>7. QED
    BY <1>4, <2>5, <2>6 DEF Upload
<1>5. QED
  BY <1>3, <1>4

\* The attempt turns into its report.
LEMMA SendCompleteQuiet ==
  ASSUME TypeOK, NEW c \in Chunk, QuietAttempt(c), HeldOnce({c}),
         NEW w \in Worker, SendComplete(w)
  PROVE  QuietAttempt(c)'
<1>1. c \in Chunk /\ c \in {c} /\ QuietAttempt(c)
  OBVIOUS
<1>2. /\ UNCHANGED <<row, output, failCall>>
      /\ work[w].pc = "complete"
      /\ completeCall[w].phase = "none"
      /\ completeCall'[w] = [phase |-> "sent", chunk |-> work[w].chunk,
                             verdict |-> work[w].verdict, seen |-> NewRow]
      /\ \A u \in Worker : u # w => completeCall'[u] = completeCall[u]
      /\ work'[w].pc = "completing"
      /\ work'[w].chunk = work[w].chunk
      /\ \A u \in Worker : u # w => work'[u] = work[u]
  BY DEF SendComplete, TypeOK, Work
<1>3. CASE work[w].chunk # c
  <2>1. LeavesAlone(c)
    BY <1>2, <1>3 DEF LeavesAlone, Busy, Completing, Failing
  <2>2. QED
    BY <1>1, <2>1, LeftAlone
<1>4. CASE work[w].chunk = c
  <2>1. /\ row[c].status = "processing"
        /\ \A k \in OutputKind : output[c][k] = work[w].verdict
        /\ \A u \in Worker : ~Completing(u, c) /\ ~Failing(u, c)
    BY <1>1, <1>2, <1>4 DEF QuietAttempt, WorkIsRecorded, Working, UploadedBefore
  <2>2. \A u \in Worker : Busy(u, c) => u = w
    BY <1>1, <1>2, <1>4 DEF HeldOnce, Holds, Busy
  <2>3. \A u \in Worker : Completing(u, c)' => u = w
    BY <1>2, <2>1 DEF Completing
  <2>4. \A u \in Worker : ~(Failing(u, c)') /\ ~(Working(u, c)')
    BY <1>2, <2>1, <2>2 DEF Failing, Working, Busy, OutputKind
  <2>5. \A u \in Worker : Busy(u, c)' => u = w /\ work'[u].pc = "completing"
    BY <1>2, <2>2 DEF Busy
  <2>6. CompletionIsFresh(w, c)'
    BY <1>2, <2>1, <2>3, <2>4, <2>5 DEF CompletionIsFresh
  <2>7. QED
    BY <1>1, <1>2, <2>3, <2>4, <2>6 DEF QuietAttempt, ResultIsKept,
       WorkIsRecorded, CompletionIsFresh, FailureIsDue
<1>5. QED
  BY <1>3, <1>4

LEMMA SendFailQuiet ==
  ASSUME TypeOK, NEW c \in Chunk, QuietAttempt(c), HeldOnce({c}),
         NEW w \in Worker, SendFail(w)
  PROVE  QuietAttempt(c)'
<1>1. c \in Chunk /\ c \in {c} /\ QuietAttempt(c)
  OBVIOUS
<1>2. /\ UNCHANGED <<row, output, completeCall>>
      /\ work[w].pc = "fail"
      /\ failCall'[w].phase = "sent"
      /\ failCall'[w].chunk = work[w].chunk
      /\ \A u \in Worker : u # w => failCall'[u] = failCall[u]
      /\ work'[w].pc = "failing"
      /\ \A u \in Worker : u # w => work'[u] = work[u]
  BY DEF SendFail, TypeOK, Work
<1>3. CASE work[w].chunk # c
  <2>1. LeavesAlone(c)
    BY <1>2, <1>3 DEF LeavesAlone, Busy, Completing, Failing
  <2>2. QED
    BY <1>1, <2>1, LeftAlone
<1>4. CASE work[w].chunk = c
  <2>1. Busy(w, c)
    BY <1>2, <1>4 DEF Busy
  <2>2. \A u \in Worker : ~Completing(u, c)
    BY <1>1, <1>2, <2>1 DEF QuietAttempt, CompletionIsFresh
  <2>3. \A u \in Worker : Holds(u, c) => u = w
    BY <1>1, <2>1 DEF HeldOnce, Holds
  <2>4. \A u \in Worker : ~(Working(u, c)') /\ ~(Completing(u, c)')
    BY <1>2, <2>2, <2>3 DEF Working, Completing, Holds, Busy, OutputKind
  <2>5. \A u \in Worker : Failing(u, c)' => u = w
    BY <1>2, <2>3 DEF Failing, Holds
  <2>6. QED
    BY <1>1, <1>2, <2>4, <2>5 DEF QuietAttempt, ResultIsKept, WorkIsRecorded,
       CompletionIsFresh, FailureIsDue
<1>5. QED
  BY <1>3, <1>4

\* The complete request loads the row, then saves it.
LEMMA CompleteReadQuiet ==
  ASSUME TypeOK, NEW c \in Chunk, QuietAttempt(c), NEW w \in Worker,
         CompleteRead(w)
  PROVE  QuietAttempt(c)'
<1> DEFINE d == completeCall[w].chunk
<1>1. c \in Chunk /\ QuietAttempt(c)
  OBVIOUS
<1>2. UNCHANGED <<row, output, failCall>> /\ completeCall[w].phase = "sent"
  BY DEF CompleteRead
<1>3. ASSUME NEW ok \in BOOLEAN, CompleteAnswered(w, ok) PROVE QuietAttempt(c)'
  <2>1. LeavesAlone(c)
    BY <1>2, <1>3, CompleteAnsweredLeaves
  <2>2. QED
    BY <1>1, <2>1, LeftAlone
<1>4. CASE /\ completeCall' = [completeCall EXCEPT ![w].phase = "read",
                                                   ![w].seen = row[d]]
           /\ UNCHANGED work
  <2>1. /\ completeCall'[w].phase = "read"
        /\ completeCall'[w].chunk = completeCall[w].chunk
        /\ completeCall'[w].verdict = completeCall[w].verdict
        /\ completeCall'[w].seen = row[d]
        /\ \A u \in Worker : u # w => completeCall'[u] = completeCall[u]
    BY <1>4 DEF TypeOK, CompleteCall
  <2>2. CASE d # c
    <3>1. LeavesAlone(c)
      BY <1>2, <1>4, <2>1, <2>2 DEF LeavesAlone, Busy, Completing, Failing
    <3>2. QED
      BY <1>1, <3>1, LeftAlone
  <2>3. CASE d = c
    <3>1. \A u \in Worker : /\ Completing(u, c)' = Completing(u, c)
                            /\ Failing(u, c)' = Failing(u, c)
                            /\ Busy(u, c)' = Busy(u, c)
                            /\ Working(u, c)' = Working(u, c)
      BY <1>2, <1>4, <2>1 DEF Busy, Completing, Failing, Working
    <3>2. Completing(w, c) /\ CompletionIsFresh(w, c) /\ ResultIsKept(c)
      BY <1>1, <1>2, <2>3 DEF QuietAttempt, Completing
    <3>3. CompletionIsFresh(w, c)'
      BY <1>2, <1>4, <2>1, <2>3, <3>1, <3>2 DEF CompletionIsFresh, ResultIsKept
    <3>4. \A u \in Worker : u # w => ~Completing(u, c)
      BY <3>2 DEF CompletionIsFresh
    <3>5. \A u \in Worker : CompletionIsFresh(u, c)'
      BY <3>1, <3>3, <3>4 DEF CompletionIsFresh
    <3>6. \A u \in Worker : WorkIsRecorded(u, c)' /\ FailureIsDue(u, c)'
      BY <1>1, <1>2, <1>4, <3>1 DEF QuietAttempt, WorkIsRecorded, FailureIsDue
    <3>7. QED
      BY <1>1, <1>2, <3>5, <3>6 DEF QuietAttempt, ResultIsKept
  <2>4. QED
    BY <2>2, <2>3
<1>5. PayloadMatches(row[d], completeCall[w].verdict) \in BOOLEAN
  BY DEF PayloadMatches, TypeOK, CompleteCall, Row
<1>6. QED
  BY <1>3, <1>4, <1>5 DEF CompleteRead

\* A quiet chunk is completed out of processing, with its own result.
LEMMA CompletedQuietRow ==
  ASSUME TypeOK, NEW c \in Chunk, QuietAttempt(c), NEW w \in Worker,
         CompleteWrite(w), completeCall[w].chunk = c
  PROVE  /\ row[c].status = "processing"
         /\ row'[c].status = "completed"
         /\ row'[c].attempts = row[c].attempts
         /\ row'[c].result = completeCall[w].verdict
<1>1. c \in Chunk /\ QuietAttempt(c)
  OBVIOUS
<1>2. Completing(w, c) /\ completeCall[w].phase = "read"
  BY DEF CompleteWrite, Completing
<1>3. row'[c] = CompletedRow(row[c], completeCall[w].seen, completeCall[w].verdict)
  BY <1>1 DEF CompleteWrite, TypeOK
<1>4. /\ row[c].status = "processing"
      /\ row[c].result = NoVerdict
      /\ completeCall[w].seen.status = "processing"
      /\ completeCall[w].seen.result = NoVerdict
      /\ ~completeCall[w].seen.filtered
  BY <1>1, <1>2 DEF QuietAttempt, CompletionIsFresh, ResultIsKept
<1>5. QED
  BY <1>3, <1>4 DEF CompletedRow, Saved

LEMMA CompleteWriteQuiet ==
  ASSUME TypeOK, NEW c \in Chunk, QuietAttempt(c), NEW w \in Worker,
         CompleteWrite(w)
  PROVE  QuietAttempt(c)'
<1> DEFINE d == completeCall[w].chunk
<1>1. c \in Chunk /\ QuietAttempt(c) /\ d \in Chunk
  BY DEF TypeOK, CompleteCall
<1>2. /\ UNCHANGED <<output, failCall>>
      /\ completeCall[w].phase = "read"
      /\ \A b \in Chunk \ {d} : row'[b] = row[b]
  BY DEF CompleteWrite, TypeOK
<1>3. CASE d # c
  <2>1. CASE CompleteAnswered(w, TRUE)
    <3>1. LeavesAlone(c)
      BY <1>1, <1>2, <1>3, <2>1, CompleteAnsweredLeaves
    <3>2. QED
      BY <1>1, <3>1, LeftAlone
  <2>2. CASE /\ completeCall' = [completeCall EXCEPT ![w].phase = "retry_plan"]
             /\ UNCHANGED work
    <3>1. LeavesAlone(c)
      BY <1>1, <1>2, <1>3, <2>2 DEF LeavesAlone, Busy, Completing, Failing,
         TypeOK, CompleteCall
    <3>2. QED
      BY <1>1, <3>1, LeftAlone
  <2>3. QED
    BY <2>1, <2>2 DEF CompleteWrite
<1>4. CASE d = c
  <2>1. Completing(w, c)
    BY <1>2, <1>4 DEF Completing
  <2>2. /\ \A u \in Worker : Completing(u, c) => u = w
        /\ \A u \in Worker : Busy(u, c) => u = w /\ work[u].pc = "completing"
        /\ \A u \in Worker : ~Failing(u, c)
        /\ \A k \in OutputKind : output[c][k] = completeCall[w].verdict
    BY <1>1, <1>2, <2>1 DEF QuietAttempt, CompletionIsFresh
  <2>3. row'[c].status = "completed" /\ row'[c].result = completeCall[w].verdict
    BY <1>4, CompletedQuietRow
  <2>4. ResultIsKept(c)'
    BY <1>2, <2>2, <2>3 DEF ResultIsKept
  <2>5. \A u \in Worker : ~(Failing(u, c)')
    BY <1>2, <2>2 DEF Failing
  <2>6. CASE CompleteAnswered(w, TRUE)
    <3>1. \A u \in Worker : Completing(u, c)' => Completing(u, c) /\ u # w
      BY <1>1, <2>6, CompleteAnsweredHolds DEF CompleteAnswered, TypeOK,
         Completing, NoComplete
    <3>2. \A u \in Worker : ~(Completing(u, c)')
      BY <2>2, <3>1
    <3>3. work' = work \/ work' = [work EXCEPT ![w] = Idle]
      BY <2>6 DEF CompleteAnswered
    <3>4. \A u \in Worker : Busy(u, c)' => Busy(u, c) /\ work'[u] = work[u]
      BY <1>1, <3>3, IdleLeaves DEF Busy
    <3>5. \A u \in Worker : ~(Working(u, c)')
      BY <2>2, <3>4 DEF Working, Busy, OutputKind
    <3>6. QED
      BY <2>4, <2>5, <3>2, <3>5 DEF QuietAttempt, WorkIsRecorded,
         CompletionIsFresh, FailureIsDue
  <2>7. CASE /\ completeCall' = [completeCall EXCEPT ![w].phase = "retry_plan"]
             /\ UNCHANGED work
    <3>1. /\ completeCall'[w].phase = "retry_plan"
          /\ \A u \in Worker : Completing(u, c)' = Completing(u, c)
          /\ \A u \in Worker : Busy(u, c)' = Busy(u, c)
      BY <1>2, <2>7 DEF TypeOK, CompleteCall, Completing, Busy
    <3>2. \A u \in Worker : ~(Working(u, c)')
      BY <2>2, <2>7, <3>1 DEF Working, Busy, OutputKind
    <3>3. \A u \in Worker : CompletionIsFresh(u, c)'
      BY <2>2, <2>3, <2>5, <2>7, <3>1 DEF CompletionIsFresh
    <3>4. QED
      BY <2>4, <2>5, <3>2, <3>3 DEF QuietAttempt, WorkIsRecorded, FailureIsDue
  <2>8. QED
    BY <2>6, <2>7 DEF CompleteWrite
<1>5. QED
  BY <1>3, <1>4

\* The tempfail planner only marks the row of a chunk that is completed.
LEMMA CompleteRetryPlanQuiet ==
  ASSUME TypeOK, NEW c \in Chunk, QuietAttempt(c), NEW w \in Worker,
         CompleteRetryPlan(w)
  PROVE  QuietAttempt(c)'
<1> DEFINE d == completeCall[w].chunk
<1>1. c \in Chunk /\ QuietAttempt(c) /\ d \in Chunk
  BY DEF TypeOK, CompleteCall
<1>2. UNCHANGED <<output, failCall>> /\ completeCall[w].phase = "retry_plan"
  BY DEF CompleteRetryPlan
<1>3. PICK ok \in BOOLEAN : CompleteAnswered(w, ok)
  BY DEF CompleteRetryPlan
<1>4. CASE row'[c] = row[c]
  <2>1. LeavesAlone(c)
    BY <1>2, <1>3, <1>4, CompleteAnsweredLeaves
  <2>2. QED
    BY <1>1, <2>1, LeftAlone
<1>5. CASE d = c /\ row' = [row EXCEPT ![c].filtered = TRUE]
  <2>1. Completing(w, c)
    BY <1>2, <1>5 DEF Completing
  <2>2. /\ row[c].status = "completed"
        /\ \A u \in Worker : Completing(u, c) => u = w
        /\ \A u \in Worker : Busy(u, c) => u = w /\ work[u].pc = "completing"
        /\ \A u \in Worker : ~Failing(u, c)
    BY <1>1, <1>2, <2>1 DEF QuietAttempt, CompletionIsFresh
  <2>3. ResultIsKept(c)'
    BY <1>1, <1>2, <1>5, <2>2 DEF QuietAttempt, ResultIsKept, TypeOK, Row
  <2>4. \A u \in Worker : ~(Completing(u, c)') /\ ~(Failing(u, c)')
    BY <1>1, <1>2, <1>3, <2>2, CompleteAnsweredHolds
    DEF CompleteAnswered, TypeOK, Completing, Failing, NoComplete
  <2>5. work' = work \/ Fails(w, TRUE) \/ work' = [work EXCEPT ![w] = Idle]
    BY <1>3 DEF CompleteAnswered
  <2>6. \A u \in Worker : ~(Working(u, c)')
    <3>1. \A u \in Worker : u # w => work'[u] = work[u]
      BY <2>5 DEF Fails, TypeOK
    <3>2. work'[w] = work[w] \/ work'[w].pc \in {"fail", "idle"}
      BY <2>5 DEF Fails, TypeOK, Work, Idle
    <3>3. QED
      BY <2>2, <3>1, <3>2 DEF Working, Busy, OutputKind
  <2>7. QED
    BY <2>3, <2>4, <2>6 DEF QuietAttempt, WorkIsRecorded, CompletionIsFresh,
       FailureIsDue
<1>6. QED
  BY <1>1, <1>4, <1>5 DEF CompleteRetryPlan, TypeOK

\* The fail request loads the row, then gives the chunk back.
LEMMA FailReadQuiet ==
  ASSUME TypeOK, NEW c \in Chunk, QuietAttempt(c), HeldOnce({c}),
         NEW w \in Worker, FailRead(w)
  PROVE  QuietAttempt(c)'
<1> DEFINE d == failCall[w].chunk
<1>1. c \in Chunk /\ c \in {c} /\ QuietAttempt(c)
  OBVIOUS
<1>2. UNCHANGED <<row, output, completeCall>> /\ failCall[w].phase = "sent"
  BY DEF FailRead
<1>3. CASE FailAnswered(w)
  <2>1. LeavesAlone(c)
    BY <1>2, <1>3, FailAnsweredLeaves
  <2>2. QED
    BY <1>1, <2>1, LeftAlone
<1>4. CASE /\ row[d].status \in {"pending", "processing"}
           /\ failCall' = [failCall EXCEPT ![w].phase = "read", ![w].seen = row[d]]
           /\ UNCHANGED work
  <2>1. /\ failCall'[w].chunk = failCall[w].chunk
        /\ failCall'[w].phase = "read"
        /\ \A u \in Worker : u # w => failCall'[u] = failCall[u]
    BY <1>4 DEF TypeOK, FailCall
  <2>2. \A u \in Worker : /\ Completing(u, c)' = Completing(u, c)
                          /\ Failing(u, c)' = Failing(u, c)
                          /\ Busy(u, c)' = Busy(u, c)
                          /\ Working(u, c)' = Working(u, c)
    BY <1>2, <1>4, <2>1 DEF Busy, Completing, Failing, Working
  <2>3. d = c => row[c].status = "processing"
    BY <1>1, <1>2, <1>4 DEF HeldOnce, Holds, Failing
  <2>4. \A u \in Worker : FailureIsDue(u, c)'
    BY <1>1, <1>2, <2>1, <2>2, <2>3 DEF QuietAttempt, FailureIsDue, Failing
  <2>5. \A u \in Worker : WorkIsRecorded(u, c)'
    BY <1>1, <1>2, <1>4, <2>2 DEF QuietAttempt, WorkIsRecorded
  <2>6. \A u \in Worker : CompletionIsFresh(u, c)'
    BY <1>1, <1>2, <1>4, <2>2 DEF QuietAttempt, CompletionIsFresh
  <2>7. QED
    BY <1>1, <1>2, <2>4, <2>5, <2>6 DEF QuietAttempt, ResultIsKept
<1>5. QED
  BY <1>3, <1>4 DEF FailRead

\* A quiet chunk is given back out of processing, with its attempt counted.
LEMMA FailedQuietRow ==
  ASSUME TypeOK, NEW c \in Chunk, QuietAttempt(c), HeldOnce({c}),
         NEW w \in Worker, FailWrite(w), failCall[w].chunk = c
  PROVE  /\ row[c].status = "processing"
         /\ row'[c].attempts = row[c].attempts + 1
         /\ \/ row'[c].status = "failed"
            \/ row'[c].status = "pending" /\ row[c].attempts + 1 < MaxAttempts
         /\ row'[c].result = row[c].result
         /\ row'[c].filtered = row[c].filtered
<1>1. c \in Chunk /\ c \in {c} /\ QuietAttempt(c)
  OBVIOUS
<1>2. Failing(w, c) /\ failCall[w].phase = "read"
  BY DEF FailWrite, Failing
<1>3. /\ row[c].status = "processing"
      /\ failCall[w].seen.status = "processing"
      /\ failCall[w].seen.attempts = row[c].attempts
  BY <1>1, <1>2 DEF QuietAttempt, FailureIsDue, HeldOnce, FreshFailure
<1>4. row'[c] = FailedRow(row[c], failCall[w].seen, failCall[w].retryable)
  BY <1>1 DEF FailWrite, TypeOK
<1>5. QED
  BY <1>3, <1>4 DEF FailedRow, ReleasedRow, FailStatus, Saved

LEMMA FailWriteQuiet ==
  ASSUME TypeOK, NEW c \in Chunk, QuietAttempt(c), HeldOnce({c}),
         NEW w \in Worker, FailWrite(w)
  PROVE  QuietAttempt(c)'
<1> DEFINE d == failCall[w].chunk
<1>1. /\ c \in Chunk /\ c \in {c} /\ d \in Chunk
      /\ QuietAttempt(c)
  BY DEF TypeOK, FailCall
<1>2. /\ UNCHANGED <<output, completeCall>>
      /\ failCall[w].phase = "read"
      /\ FailAnswered(w)
      /\ \A b \in Chunk \ {d} : row'[b] = row[b]
  BY DEF FailWrite, TypeOK
<1>3. CASE d # c
  <2>1. LeavesAlone(c)
    BY <1>1, <1>2, <1>3, FailAnsweredLeaves
  <2>2. QED
    BY <1>1, <2>1, LeftAlone
<1>4. CASE d = c
  <2>1. Failing(w, c)
    BY <1>2, <1>4 DEF Failing
  <2>2. \A u \in Worker : ~Completing(u, c) /\ ~Busy(u, c)
    BY <1>1, <2>1 DEF QuietAttempt, CompletionIsFresh, HeldOnce, Holds
  <2>3. \A u \in Worker : Failing(u, c) => u = w
    BY <1>1, <2>1 DEF HeldOnce, Holds
  <2>4. \A u \in Worker : ~(Busy(u, c)') /\ ~(Failing(u, c)')
    BY <1>1, <1>2, <2>2, <2>3, FailAnsweredHolds
  <2>5. \A u \in Worker : ~(Completing(u, c)')
    BY <1>2, <2>2 DEF Completing
  <2>6. ResultIsKept(c)'
    BY <1>1, <1>4, FailedQuietRow DEF QuietAttempt, ResultIsKept
  <2>7. QED
    BY <2>4, <2>5, <2>6 DEF QuietAttempt, WorkIsRecorded, Working, Busy,
       OutputKind, CompletionIsFresh, FailureIsDue
<1>5. QED
  BY <1>3, <1>4

\* The induction step, for any chunk that the operator does not write to.
LEMMA QuietAttemptStep ==
  ASSUME TypeOK, NEW c \in Chunk \ SlowChunks, QuietAttempt(c), HeldOnce({c}),
         [Next]_vars, Operator => row'[c] = row[c]
  PROVE  QuietAttempt(c)'
<1>1. ASSUME NEW d \in Chunk, LeaseExpires(d) PROVE QuietAttempt(c)'
  <2>1. LeavesAlone(c)
    BY <1>1 DEF LeaseExpires, TypeOK, Row, LeavesAlone, Busy, Completing,
       Failing
  <2>2. QED
    BY <2>1, LeftAlone
<1>2. ASSUME NEW d \in Chunk, BackoffElapses(d) PROVE QuietAttempt(c)'
  <2>1. LeavesAlone(c)
    BY <1>2 DEF BackoffElapses, LeavesAlone, Busy, Completing, Failing
  <2>2. QED
    BY <2>1, LeftAlone
<1>3. ASSUME NEW w \in Worker, NEW d \in Chunk, ClaimNext(w, d)
      PROVE  QuietAttempt(c)'
  BY <1>3, ClaimQuiet
<1>4. ASSUME NEW w \in Worker, WorkerStep(w) PROVE QuietAttempt(c)'
  BY <1>4, VerifyQuiet, UploadQuiet, SendCompleteQuiet, SendFailQuiet
  DEF WorkerStep
<1>5. ASSUME NEW w \in Worker, CompleteHandoffFails(w) PROVE QuietAttempt(c)'
  <2>1. LeavesAlone(c)
    BY <1>5, CompleteAnsweredLeaves DEF CompleteHandoffFails
  <2>2. QED
    BY <2>1, LeftAlone
<1>6. ASSUME NEW w \in Worker, Handler(w) PROVE QuietAttempt(c)'
  BY <1>5, <1>6, CompleteReadQuiet, CompleteWriteQuiet, CompleteRetryPlanQuiet,
     FailReadQuiet, FailWriteQuiet DEF Handler
<1>7. ASSUME NEW w \in Worker, GiveUp(w) PROVE QuietAttempt(c)'
  <2>1. UNCHANGED <<row, output, completeCall, failCall>> /\ work[w].chunk # c
    BY <1>7 DEF GiveUp
  <2>2. \A u \in Worker : Busy(u, c)' => Busy(u, c) /\ work'[u] = work[u]
    <3>1. CASE work[w].pc = "completing" /\ Fails(w, TRUE)
      <4>1. ~Busy(w, c)
        BY <2>1 DEF Busy
      <4>2. QED
        BY <3>1, <4>1, FailsHolds DEF Fails, TypeOK
    <3>2. CASE work' = [work EXCEPT ![w] = Idle]
      BY <3>2, IdleLeaves
    <3>3. QED
      BY <1>7, <3>1, <3>2 DEF GiveUp
  <2>3. LeavesAlone(c)
    BY <2>1, <2>2 DEF LeavesAlone, Completing, Failing
  <2>4. QED
    BY <2>3, LeftAlone
<1>8. ASSUME NEW w \in Worker, Crash(w) PROVE QuietAttempt(c)'
  <2>1. LeavesAlone(c)
    BY <1>8, IdleLeaves DEF Crash, LeavesAlone, Completing, Failing
  <2>2. QED
    BY <2>1, LeftAlone
<1>9. ASSUME NEW w \in Worker, CompleteLost(w) PROVE QuietAttempt(c)'
  <2>1. LeavesAlone(c)
    BY <1>9, CompleteAnsweredLeaves DEF CompleteLost
  <2>2. QED
    BY <2>1, LeftAlone
<1>10. ASSUME NEW w \in Worker, FailLost(w) PROVE QuietAttempt(c)'
  <2>1. LeavesAlone(c)
    BY <1>10, FailAnsweredLeaves DEF FailLost
  <2>2. QED
    BY <2>1, LeftAlone
<1>11. ASSUME Operator PROVE QuietAttempt(c)'
  <2>1. LeavesAlone(c)
    BY <1>11 DEF Operator, OperatorRead, OperatorWrite, RequeueFailedChunks,
       RequeueStuckChunks, BulkRequeue, LeavesAlone, Busy, Completing, Failing
  <2>2. QED
    BY <2>1, LeftAlone
<1>12. CASE UNCHANGED vars
  <2>1. LeavesAlone(c)
    BY <1>12 DEF vars, LeavesAlone, Busy, Completing, Failing
  <2>2. QED
    BY <2>1, LeftAlone
<1>13. QED
  BY <1>1, <1>2, <1>3, <1>4, <1>6, <1>7, <1>8, <1>9, <1>10, <1>11, <1>12
  DEF Next, Disruption

LEMMA HeldOnceOne ==
  ASSUME NEW S, HeldOnce(S), NEW c \in S
  PROVE  HeldOnce({c})
BY DEF HeldOnce

LEMMA QuietHeld ==
  ASSUME AttemptHeldOnce, QuietInv, NEW c \in Quiet
  PROVE  c \in Chunk /\ c \in Unattended /\ QuietAttempt(c) /\ HeldOnce({c})
<1>1. c \in Chunk /\ c \in Unattended
  BY DEF Quiet, Unattended
<1>2. QED
  BY <1>1, HeldOnceOne DEF QuietInv, AttemptHeldOnce

LEMMA QuietInvStep ==
  TypeOK /\ AttemptHeldOnce /\ QuietInv /\ [Next]_vars => QuietInv'
<1> SUFFICES ASSUME TypeOK, AttemptHeldOnce, QuietInv, [Next]_vars, NEW c \in Quiet
             PROVE  QuietAttempt(c)'
  BY DEF QuietInv
<1>1. c \in Chunk \ SlowChunks
  BY DEF Quiet, Unattended
<1>2. QED
  BY <1>1, QuietHeld, QuietAttemptStep, OperatorSpares

LEMMA QuietAttemptInit ==
  ASSUME Init, NEW c \in Chunk
  PROVE  QuietAttempt(c)
BY DEF Init, NewRow, Idle, NoComplete, NoFail, QuietAttempt, ResultIsKept,
   WorkIsRecorded, Working, OutputKind, CompletionIsFresh, Completing,
   FailureIsDue, Failing

LEMMA QuietInvInit == Init => QuietInv
BY QuietAttemptInit DEF QuietInv, Quiet, Unattended

LEMMA QuietAlways == Spec => []QuietInv
<1>1. TypeOK /\ AttemptHeldOnce /\ QuietInv /\ [Next]_vars => QuietInv'
  BY QuietInvStep
<1>2. QED
  BY <1>1, QuietInvInit, TypeCorrect, AttemptsHeldOnce, PTL DEF Spec

\* The files and counts of a completed quiet chunk belong to one attempt,
\* although uploads go to keys that every attempt at the chunk shares.
THEOREM ResultsAreOneVerification == Spec => []ResultIsOneVerification
<1>1. QuietInv => ResultIsOneVerification
  BY DEF QuietInv, QuietAttempt, ResultIsKept, ResultIsOneVerification
<1>2. QED
  BY <1>1, QuietAlways, PTL

\* While a worker verifies or uploads, the row is in processing under its name.
THEOREM WorkersHoldTheirLease == Spec => []WorkingWorkerHoldsLease
<1>1. QuietInv => WorkingWorkerHoldsLease
  BY DEF QuietInv, QuietAttempt, WorkIsRecorded, WorkingWorkerHoldsLease
<1>2. QED
  BY <1>1, QuietAlways, PTL

-----------------------------------------------------------------------------
(* Quiet chunks implement ChunkLifecycle. *)

statusBar == [c \in Quiet |-> row[c].status]
attemptsBar == [c \in Quiet |-> row[c].attempts]

\* A step that keeps the status and the attempts of every quiet chunk stutters.
LEMMA QuietStutter ==
  ASSUME \A c \in Quiet : /\ row'[c].status = row[c].status
                          /\ row'[c].attempts = row[c].attempts
  PROVE  UNCHANGED <<statusBar, attemptsBar>>
BY DEF statusBar, attemptsBar

\* A step on one chunk that is a step of the life cycle.
LEMMA QuietStep ==
  ASSUME NEW c \in Quiet,
         \A d \in Quiet \ {c} : /\ row'[d].status = row[d].status
                                /\ row'[d].attempts = row[d].attempts,
         \/ /\ row[c].status = "pending"
            /\ row'[c].status = "processing"
            /\ row'[c].attempts = row[c].attempts
         \/ /\ row[c].status = "processing"
            /\ row'[c].status = "completed"
            /\ row'[c].attempts = row[c].attempts
         \/ /\ row[c].status = "processing"
            /\ row'[c].attempts = row[c].attempts + 1
            /\ \/ row'[c].status = "failed"
               \/ row'[c].status = "pending" /\ row[c].attempts + 1 < MaxAttempts
  PROVE  Lifecycle!Next
<1> DEFINE s == row'[c].status
           n == row'[c].attempts
<1>1. statusBar' = [statusBar EXCEPT ![c] = s]
  BY DEF statusBar
<1>2. attemptsBar' = [attemptsBar EXCEPT ![c] = n]
  BY DEF attemptsBar
<1>3. statusBar[c] = row[c].status /\ attemptsBar[c] = row[c].attempts
  BY DEF statusBar, attemptsBar
<1>4. n = row[c].attempts => attemptsBar' = attemptsBar
  BY <1>2, <1>3 DEF attemptsBar
<1>5. CASE row[c].status = "pending"
  <2>1. Lifecycle!Lease(c)
    BY <1>1, <1>3, <1>4, <1>5 DEF Lifecycle!Lease, statusBar, attemptsBar
  <2>2. QED
    BY <2>1 DEF Lifecycle!Next
<1>6. CASE row[c].status = "processing" /\ s = "completed"
  <2>1. Lifecycle!Complete(c)
    BY <1>1, <1>3, <1>4, <1>6 DEF Lifecycle!Complete, statusBar, attemptsBar
  <2>2. QED
    BY <2>1 DEF Lifecycle!Next
<1>7. CASE row[c].status = "processing" /\ s = "failed"
  <2>1. Lifecycle!Fail(c)
    BY <1>1, <1>2, <1>3, <1>7 DEF Lifecycle!Fail, statusBar, attemptsBar
  <2>2. QED
    BY <2>1 DEF Lifecycle!Next
<1>8. CASE row[c].status = "processing" /\ s = "pending"
  <2>1. Lifecycle!Retry(c)
    BY <1>1, <1>2, <1>3, <1>8 DEF Lifecycle!Retry, statusBar, attemptsBar
  <2>2. QED
    BY <2>1 DEF Lifecycle!Next
<1>9. QED
  BY <1>5, <1>6, <1>7, <1>8

LEMMA LifecycleStep ==
  ASSUME TypeOK, AttemptHeldOnce, QuietInv, [Next]_vars
  PROVE  Lifecycle!Next \/ UNCHANGED <<statusBar, attemptsBar>>
<1>1. ASSUME row' = row
      PROVE  UNCHANGED <<statusBar, attemptsBar>>
  BY <1>1 DEF statusBar, attemptsBar
<1>2. ASSUME NEW d \in Chunk, LeaseExpires(d)
      PROVE  UNCHANGED <<statusBar, attemptsBar>>
  <2>1. \A c \in Quiet : /\ row'[c].status = row[c].status
                         /\ row'[c].attempts = row[c].attempts
    BY <1>2 DEF LeaseExpires, TypeOK, Row, Quiet, Unattended
  <2>2. QED
    BY <2>1, QuietStutter
<1>3. ASSUME NEW w \in Worker, NEW c \in Chunk, ClaimNext(w, c)
      PROVE  Lifecycle!Next \/ UNCHANGED <<statusBar, attemptsBar>>
  <2>1. /\ row[c].status = "pending"
        /\ row'[c].status = "processing"
        /\ row'[c].attempts = row[c].attempts
        /\ \A d \in Chunk \ {c} : row'[d] = row[d]
    BY <1>3 DEF ClaimNext, Claimable, ClaimedRow, TypeOK
  <2>2. CASE c \in Quiet
    BY <2>1, <2>2, QuietStep DEF Quiet, Unattended
  <2>3. CASE c \notin Quiet
    BY <2>1, <2>3, QuietStutter DEF Quiet, Unattended
  <2>4. QED
    BY <2>2, <2>3
<1>4. ASSUME NEW w \in Worker, CompleteWrite(w)
      PROVE  Lifecycle!Next \/ UNCHANGED <<statusBar, attemptsBar>>
  <2> DEFINE c == completeCall[w].chunk
  <2>1. \A d \in Chunk \ {c} : row'[d] = row[d]
    BY <1>4 DEF CompleteWrite, TypeOK
  <2>2. CASE c \in Quiet
    <3>1. /\ row[c].status = "processing"
          /\ row'[c].status = "completed"
          /\ row'[c].attempts = row[c].attempts
      BY <1>4, <2>2, QuietHeld, CompletedQuietRow
    <3>2. QED
      BY <2>1, <2>2, <3>1, QuietStep DEF Quiet, Unattended
  <2>3. CASE c \notin Quiet
    BY <2>1, <2>3, QuietStutter DEF Quiet, Unattended
  <2>4. QED
    BY <2>2, <2>3
<1>5. ASSUME NEW w \in Worker, CompleteRetryPlan(w)
      PROVE  UNCHANGED <<statusBar, attemptsBar>>
  <2>1. \A c \in Quiet : /\ row'[c].status = row[c].status
                         /\ row'[c].attempts = row[c].attempts
    <3>1. row \in [Chunk -> Row] /\ Quiet \subseteq Chunk
      BY DEF TypeOK, Quiet, Unattended
    <3>2. \/ row' = row
          \/ row' = [row EXCEPT ![completeCall[w].chunk].filtered = TRUE]
      BY <1>5 DEF CompleteRetryPlan
    <3>3. QED
      BY <3>1, <3>2 DEF Row
  <2>2. QED
    BY <2>1, QuietStutter
<1>6. ASSUME NEW w \in Worker, FailWrite(w)
      PROVE  Lifecycle!Next \/ UNCHANGED <<statusBar, attemptsBar>>
  <2> DEFINE c == failCall[w].chunk
  <2>1. \A d \in Chunk \ {c} : row'[d] = row[d]
    BY <1>6 DEF FailWrite, TypeOK
  <2>2. CASE c \in Quiet
    <3>1. /\ row[c].status = "processing"
          /\ row'[c].attempts = row[c].attempts + 1
          /\ \/ row'[c].status = "failed"
             \/ row'[c].status = "pending" /\ row[c].attempts + 1 < MaxAttempts
      BY <1>6, <2>2, QuietHeld, FailedQuietRow
    <3>2. QED
      BY <2>1, <2>2, <3>1, QuietStep DEF Quiet, Unattended
  <2>3. CASE c \notin Quiet
    BY <2>1, <2>3, QuietStutter DEF Quiet, Unattended
  <2>4. QED
    BY <2>2, <2>3
<1>7. ASSUME Operator
      PROVE  UNCHANGED <<statusBar, attemptsBar>>
  BY <1>7, QuietHeld, OperatorSpares, QuietStutter
<1>8. QED
  BY <1>1, <1>2, <1>3, <1>4, <1>5, <1>6, <1>7
  DEF Next, vars, BackoffElapses, WorkerStep, Verify, Upload, SendComplete,
      SendFail, Handler, CompleteRead, CompleteHandoffFails, FailRead,
      Disruption, GiveUp, Crash, CompleteLost, FailLost

LEMMA LifecycleInit == Init => Lifecycle!Init
BY DEF Init, Lifecycle!Init, NewRow, Quiet, Unattended

\* The claims, reports and lost calls of quiet chunks are steps of the life
\* cycle that the contract documents, or change nothing it speaks of.
THEOREM QuietChunksImplementLifecycle == Spec => QuietLifecycle
<1>1. TypeOK /\ AttemptHeldOnce /\ QuietInv /\ [Next]_vars
        => [Lifecycle!Next]_<<statusBar, attemptsBar>>
  BY LifecycleStep
<1>2. QED
  BY <1>1, LifecycleInit, TypeCorrect, AttemptsHeldOnce, QuietAlways, PTL
  DEF Spec, QuietLifecycle, Lifecycle!Spec, statusBar, attemptsBar
=============================================================================
