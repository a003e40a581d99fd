----------------------------- MODULE ChunkLease -----------------------------
(***************************************************************************)
(* The chunk rows of verification_job_chunks and everything that writes    *)
(* them: the claim-next, complete and fail endpoints, the Go worker that   *)
(* calls them, and the operator's requeue and mark-failed buttons.         *)
(*                                                                         *)
(* Only claim-next locks the row.  Complete, fail and the row buttons load *)
(* the row, decide, and save later what they changed relative to what they *)
(* loaded, so each of them is two actions here: a read, which takes the    *)
(* snapshot `seen', and a write.                                           *)
(*                                                                         *)
(* Time is abstract: a lease is live until LeaseExpires, a retry chunk is  *)
(* not due until BackoffElapses.                                           *)
(*                                                                         *)
(* Chunk stands for the rows whose retry_attempt claim-next admits; the    *)
(* others are a matter of VerificationPipeline.                            *)
(*                                                                         *)
(* A definition under a comment that begins with "Variant" belongs to no   *)
(* specification: it is its neighbour with a mistake that some property    *)
(* below must expose.                                                      *)
(***************************************************************************)
EXTENDS Integers, FiniteSets

CONSTANTS
  Chunk,            \* chunk rows
  Worker,           \* worker_ids (the slots of one process share theirs, see
                    \* README)
  Verdict,          \* distinguishable results of verifying one chunk
  NoWorker,         \* null assigned_worker_id
  NoVerdict,        \* null keys and counts
  MaxAttempts,      \* engine.max_attempts
  Stage,            \* processing_stage of each chunk
  Capability,       \* worker_capability of each worker
  OperatorChunks,   \* the chunks of the jobs an operator works on by hand
  SlowChunks,       \* chunks whose responses may outlast the client timeout
  MaxOperatorActions \* bound: clicks of the operator

Stages == {"screening", "smtp_probe"}

ASSUME ChunkLeaseAssumption ==
  /\ Chunk # {}
  /\ MaxAttempts \in Nat \ {0}
  /\ MaxOperatorActions \in Nat
  /\ NoWorker \notin Worker
  /\ NoVerdict \notin Verdict
  /\ Stage \in [Chunk -> Stages]
  /\ Capability \in [Worker -> Stages \cup {"all"}]
  /\ OperatorChunks \subseteq Chunk
  /\ SlowChunks \subseteq Chunk

VARIABLES
  row,           \* the table: one row per chunk
  due,           \* chunks whose available_at is null or has passed
  output,        \* the three result objects at each chunk's fixed keys
  work,          \* where each worker goroutine is in processChunk
  completeCall,  \* each worker's complete request, in flight or none
  failCall,      \* each worker's fail request, in flight or none
  operator,      \* the operator's row action, in flight or none
  clicks         \* operator actions so far

vars == <<row, due, output, work, completeCall, failCall, operator,
          clicks>>

-----------------------------------------------------------------------------
Status == {"pending", "processing", "completed", "failed"}
Lease == {"none", "live", "expired"}
OutputKind == {"valid", "invalid", "risky"}

Row == [status : Status, attempts : Nat, lease : Lease,
        worker : Worker \cup {NoWorker},
        result : Verdict \cup {NoVerdict},
        filtered : BOOLEAN]

\* The row ParseAndChunkJob and the planners insert.
NewRow == [status |-> "pending", attempts |-> 0, lease |-> "none",
           worker |-> NoWorker, result |-> NoVerdict, filtered |-> FALSE]

\* Where processChunk is.  "complete" and "fail" are about to send.
Step == {"idle", "claimed", "valid", "invalid", "risky", "complete",
         "completing", "fail", "failing"}

Phase == {"none", "sent", "read", "retry_plan"}

Work == [pc : Step, chunk : Chunk, verdict : Verdict \cup {NoVerdict},
         retryable : BOOLEAN]

CompleteCall == [phase : Phase, chunk : Chunk,
                 verdict : Verdict \cup {NoVerdict}, seen : Row]
FailCall == [phase : Phase, chunk : Chunk, retryable : BOOLEAN, seen : Row]
OperatorCall == [kind : {"none", "requeue", "mark_failed"}, chunk : Chunk,
                 seen : Row]

\* Eloquent saves a column only if its new value differs from the value that
\* was loaded: old is the column now, seen the loaded value, new the value set.
Saved(old, seen, new) == IF new = seen THEN old ELSE new

AnyChunk == CHOOSE c \in Chunk : TRUE
Idle == [pc |-> "idle", chunk |-> AnyChunk, verdict |-> NoVerdict,
         retryable |-> TRUE]
NoComplete == [phase |-> "none", chunk |-> AnyChunk, verdict |-> NoVerdict,
               seen |-> NewRow]
NoFail == [phase |-> "none", chunk |-> AnyChunk, retryable |-> TRUE,
           seen |-> NewRow]
NoOperation == [kind |-> "none", chunk |-> AnyChunk, seen |-> NewRow]

Init ==
  /\ row = [c \in Chunk |-> NewRow]
  /\ due = {c \in Chunk : Stage[c] = "screening"}
  /\ output = [c \in Chunk |-> [k \in OutputKind |-> NoVerdict]]
  /\ work = [w \in Worker |-> Idle]
  /\ completeCall = [w \in Worker |-> NoComplete]
  /\ failCall = [w \in Worker |-> NoFail]
  /\ operator = NoOperation
  /\ clicks = 0

-----------------------------------------------------------------------------
(* Time. *)

LeaseExpires(c) ==
  /\ row[c].lease = "live"
  /\ row' = [row EXCEPT ![c].lease = "expired"]
  /\ UNCHANGED <<due, output, work, completeCall, failCall, operator,
                 clicks>>

BackoffElapses(c) ==
  /\ c \notin due
  /\ due' = due \cup {c}
  /\ UNCHANGED <<row, output, work, completeCall, failCall, operator,
                 clicks>>

-----------------------------------------------------------------------------
(* POST chunks/claim-next: one locked transaction.  The switches that make   *)
(* it answer 204 (engine paused, server inactive or draining) are left out:  *)
(* no specification below forces a claim while one of them may be on.        *)

Capable(w, c) == Capability[w] \in {"all", Stage[c]}

\* Variant: a processing chunk is handed out again once its lease has expired.
ClaimableExpired(c) ==
  /\ row[c].status \in {"pending", "processing"}
  /\ c \in due
  /\ row[c].lease # "live"

Claimable(c) ==
  /\ row[c].status = "pending"
  /\ c \in due
  /\ row[c].lease # "live"

\* Variants: the claim does not record its worker, or its expiry.
ClaimedRowAnonymous(old, w) ==
  [status |-> "processing", attempts |-> old.attempts, lease |-> "live",
   worker |-> old.worker, result |-> old.result, filtered |-> old.filtered]

ClaimedRowUnleased(old, w) ==
  [status |-> "processing", attempts |-> old.attempts, lease |-> old.lease,
   worker |-> w, result |-> old.result, filtered |-> old.filtered]

ClaimedRow(old, w) ==
  [status |-> "processing", attempts |-> old.attempts, lease |-> "live",
   worker |-> w, result |-> old.result, filtered |-> old.filtered]

ClaimNext(w, c) ==
  /\ work[w].pc = "idle"
  /\ Capable(w, c)
  /\ Claimable(c)
  /\ row' = [row EXCEPT ![c] = ClaimedRow(@, w)]
  /\ \/ work' = [work EXCEPT ![w] = [pc |-> "claimed", chunk |-> c,
                                     verdict |-> NoVerdict,
                                     retryable |-> TRUE]]
     \/ UNCHANGED work     \* the response never reaches the worker
  /\ UNCHANGED <<due, output, completeCall, failCall, operator,
                 clicks>>

-----------------------------------------------------------------------------
(* processChunk in the worker. *)

Fails(w, retryable) ==
  work' = [work EXCEPT ![w].pc = "fail", ![w].verdict = NoVerdict,
                       ![w].retryable = retryable]

\* Details, input URL, download, verification and output URLs.  Only an
\* unreadable input is reported as not retryable.
Verify(w) ==
  /\ work[w].pc = "claimed"
  /\ \/ \E v \in Verdict : work' = [work EXCEPT ![w].pc = "valid",
                                                ![w].verdict = v]
     \/ \E retryable \in BOOLEAN : Fails(w, retryable)
  /\ UNCHANGED <<row, due, output, completeCall, failCall, operator,
                 clicks>>

\* Variant: the risky file is not uploaded.
NextUploadShort == [valid |-> "invalid", invalid |-> "complete",
                    risky |-> "complete"]

NextUpload == [valid |-> "invalid", invalid |-> "risky", risky |-> "complete"]

\* One PUT per result file, in this order, to keys that depend only on the
\* chunk.  An error may be reported for a PUT that was stored.
Upload(w) ==
  /\ work[w].pc \in OutputKind
  /\ \/ /\ output' = [output EXCEPT
                        ![work[w].chunk][work[w].pc] = work[w].verdict]
        /\ \/ work' = [work EXCEPT ![w].pc = NextUpload[work[w].pc]]
           \/ Fails(w, TRUE)
     \/ /\ Fails(w, TRUE)
        /\ UNCHANGED output
  /\ UNCHANGED <<row, due, completeCall, failCall, operator, clicks>>

SendComplete(w) ==
  /\ work[w].pc = "complete"
  /\ completeCall[w].phase = "none"
  /\ completeCall' = [completeCall EXCEPT
       ![w] = [phase |-> "sent", chunk |-> work[w].chunk,
               verdict |-> work[w].verdict, seen |-> NewRow]]
  /\ work' = [work EXCEPT ![w].pc = "completing"]
  /\ UNCHANGED <<row, due, output, failCall, operator, clicks>>

SendFail(w) ==
  /\ work[w].pc = "fail"
  /\ failCall[w].phase = "none"
  /\ failCall' = [failCall EXCEPT
       ![w] = [phase |-> "sent", chunk |-> work[w].chunk,
               retryable |-> work[w].retryable, seen |-> NewRow]]
  /\ work' = [work EXCEPT ![w].pc = "failing"]
  /\ UNCHANGED <<row, due, output, completeCall, operator, clicks>>

\* The client gives up on a request that the server is still executing: 30 s
\* timeout or a broken connection.
GiveUp(w) ==
  /\ work[w].chunk \in SlowChunks
  /\ \/ /\ work[w].pc = "completing"
        /\ Fails(w, TRUE)
     \/ /\ work[w].pc = "failing"
        /\ work' = [work EXCEPT ![w] = Idle]
  /\ UNCHANGED <<row, due, output, completeCall, failCall, operator,
                 clicks>>

\* The process dies, or its context is cancelled and no further call is sent.
Crash(w) ==
  /\ work[w].pc # "idle"
  /\ work' = [work EXCEPT ![w] = Idle]
  /\ UNCHANGED <<row, due, output, completeCall, failCall, operator,
                 clicks>>

-----------------------------------------------------------------------------
(* POST chunks/{chunk}/complete.  The response ends the request and, if the *)
(* worker still waits for it, the worker's step.                            *)

CompleteAnswered(w, ok) ==
  /\ completeCall' = [completeCall EXCEPT ![w] = NoComplete]
  /\ \/ work[w].pc # "completing" /\ UNCHANGED work
     \/ work[w].pc = "completing" /\ ok /\ work' = [work EXCEPT ![w] = Idle]
     \/ work[w].pc = "completing" /\ ~ok /\ Fails(w, TRUE)

\* Never delivered: the client sees an error and nothing was executed.
CompleteLost(w) ==
  /\ completeCall[w].phase = "sent"
  /\ CompleteAnswered(w, FALSE)
  /\ UNCHANGED <<row, due, output, failCall, operator, clicks>>

PayloadMatches(r, v) == r.result = v /\ ~r.filtered

CompleteRead(w) ==
  LET c == completeCall[w].chunk IN
  /\ completeCall[w].phase = "sent"
  /\ \/ /\ row[c].status = "completed"
        /\ CompleteAnswered(w, PayloadMatches(row[c], completeCall[w].verdict))
     \/ /\ row[c].status = "failed"
        /\ CompleteAnswered(w, FALSE)
     \/ /\ row[c].status \in {"pending", "processing"}
        /\ completeCall' = [completeCall EXCEPT ![w].phase = "read",
                                                ![w].seen = row[c]]
        /\ UNCHANGED work
  /\ UNCHANGED <<row, due, output, failCall, operator, clicks>>

\* The screening-to-probe planner threw: 503 and the row is not touched.
CompleteHandoffFails(w) ==
  /\ completeCall[w].phase = "read"
  /\ Stage[completeCall[w].chunk] = "screening"
  /\ CompleteAnswered(w, FALSE)
  /\ UNCHANGED <<row, due, output, failCall, operator, clicks>>

CompletedRow(old, seen, v) ==
  [status   |-> Saved(old.status, seen.status, "completed"),
   attempts |-> old.attempts,
   lease    |-> Saved(old.lease, seen.lease, "none"),
   worker   |-> Saved(old.worker, seen.worker, NoWorker),
   result   |-> IF seen.filtered THEN v ELSE Saved(old.result, seen.result, v),
   filtered |-> old.filtered /\ seen.result # NoVerdict /\ ~seen.filtered]

CompleteWrite(w) ==
  LET c == completeCall[w].chunk IN
  /\ completeCall[w].phase = "read"
  /\ row' = [row EXCEPT ![c] = CompletedRow(@, completeCall[w].seen,
                                            completeCall[w].verdict)]
  /\ IF Stage[c] = "screening"
     THEN CompleteAnswered(w, TRUE)
     ELSE /\ completeCall' = [completeCall EXCEPT ![w].phase = "retry_plan"]
          /\ UNCHANGED work
  /\ UNCHANGED <<due, output, failCall, operator, clicks>>

\* A probe chunk goes on to the tempfail planner.  If some risky rows are to be
\* retried, it points the chunk at a filtered risky file with new counts.  An
\* exception there is a 500 for a chunk that is already completed.
CompleteRetryPlan(w) ==
  LET c == completeCall[w].chunk IN
  /\ completeCall[w].phase = "retry_plan"
  /\ \/ /\ row[c].result # NoVerdict
        /\ row' = [row EXCEPT ![c].filtered = TRUE]
        /\ CompleteAnswered(w, TRUE)
     \/ /\ \E ok \in BOOLEAN : CompleteAnswered(w, ok)
        /\ UNCHANGED row
  /\ UNCHANGED <<due, output, failCall, operator, clicks>>

-----------------------------------------------------------------------------
(* POST chunks/{chunk}/fail.  The worker ignores its answer. *)

FailAnswered(w) ==
  /\ failCall' = [failCall EXCEPT ![w] = NoFail]
  /\ work' = IF work[w].pc = "failing" THEN [work EXCEPT ![w] = Idle] ELSE work

FailLost(w) ==
  /\ failCall[w].phase = "sent"
  /\ FailAnswered(w)
  /\ UNCHANGED <<row, due, output, completeCall, operator, clicks>>

\* Variant: a completed chunk is not protected from a failure.
FailReadCompleted(w) ==
  LET c == failCall[w].chunk IN
  /\ failCall[w].phase = "sent"
  /\ \/ /\ row[c].status = "failed"
        /\ FailAnswered(w)
     \/ /\ row[c].status # "failed"
        /\ failCall' = [failCall EXCEPT ![w].phase = "read",
                                        ![w].seen = row[c]]
        /\ UNCHANGED work
  /\ UNCHANGED <<row, due, output, completeCall, operator, clicks>>

FailRead(w) ==
  LET c == failCall[w].chunk IN
  /\ failCall[w].phase = "sent"
  /\ \/ /\ row[c].status \in {"completed", "failed"}
        /\ FailAnswered(w)
     \/ /\ row[c].status \in {"pending", "processing"}
        /\ failCall' = [failCall EXCEPT ![w].phase = "read",
                                        ![w].seen = row[c]]
        /\ UNCHANGED work
  /\ UNCHANGED <<row, due, output, completeCall, operator, clicks>>

\* Variants: the limit is off by one; the status is not one of the table's.
FailStatusOneMore(seen, retryable) ==
  IF retryable /\ seen.attempts < MaxAttempts THEN "pending" ELSE "failed"

FailStatusUnknown(seen, retryable) ==
  IF retryable /\ seen.attempts + 1 < MaxAttempts THEN "retrying" ELSE "failed"

FailStatus(seen, retryable) ==
  IF retryable /\ seen.attempts + 1 < MaxAttempts THEN "pending" ELSE "failed"

\* Variant: the attempt is not counted.
ReleasedRowUncounted(old, seen, status) ==
  [status   |-> Saved(old.status, seen.status, status),
   attempts |-> old.attempts,
   lease    |-> Saved(old.lease, seen.lease, "none"),
   worker   |-> Saved(old.worker, seen.worker, NoWorker),
   result   |-> old.result,
   filtered |-> old.filtered]

ReleasedRow(old, seen, status) ==
  [status   |-> Saved(old.status, seen.status, status),
   attempts |-> seen.attempts + 1,
   lease    |-> Saved(old.lease, seen.lease, "none"),
   worker   |-> Saved(old.worker, seen.worker, NoWorker),
   result   |-> old.result,
   filtered |-> old.filtered]

FailedRow(old, seen, retryable) ==
  ReleasedRow(old, seen, FailStatus(seen, retryable))

FailWrite(w) ==
  LET c == failCall[w].chunk IN
  /\ failCall[w].phase = "read"
  /\ row' = [row EXCEPT ![c] = FailedRow(@, failCall[w].seen,
                                         failCall[w].retryable)]
  /\ FailAnswered(w)
  /\ UNCHANGED <<due, output, completeCall, operator, clicks>>

-----------------------------------------------------------------------------
(* The operator: row buttons save a loaded row, bulk buttons are one UPDATE. *)

OperatorRead(c, kind) ==
  /\ operator.kind = "none"
  /\ clicks < MaxOperatorActions
  /\ row[c].status # "completed"
  /\ operator' = [kind |-> kind, chunk |-> c, seen |-> row[c]]
  /\ clicks' = clicks + 1
  /\ UNCHANGED <<row, due, output, work, completeCall, failCall>>

\* Variant: the keys are cleared whether or not they were set when loaded.
RequeuedRowCleared(old, seen) ==
  [status   |-> Saved(old.status, seen.status, "pending"),
   attempts |-> seen.attempts + 1,
   lease    |-> Saved(old.lease, seen.lease, "none"),
   worker   |-> Saved(old.worker, seen.worker, NoWorker),
   result   |-> NoVerdict,
   filtered |-> FALSE]

RequeuedRow(old, seen) ==
  [status   |-> Saved(old.status, seen.status, "pending"),
   attempts |-> seen.attempts + 1,
   lease    |-> Saved(old.lease, seen.lease, "none"),
   worker   |-> Saved(old.worker, seen.worker, NoWorker),
   result   |-> Saved(old.result, seen.result, NoVerdict),
   filtered |-> old.filtered /\ seen.result = NoVerdict]

MarkedFailedRow(old, seen) == ReleasedRow(old, seen, "failed")

OperatorWrite ==
  LET c == operator.chunk IN
  /\ operator.kind # "none"
  /\ row' = [row EXCEPT
       ![c] = IF operator.kind = "requeue" THEN RequeuedRow(@, operator.seen)
              ELSE MarkedFailedRow(@, operator.seen)]
  /\ operator' = NoOperation
  /\ UNCHANGED <<due, output, work, completeCall, failCall, clicks>>

BulkRequeue(chosen) ==
  /\ chosen # {}
  /\ clicks < MaxOperatorActions
  /\ row' = [c \in Chunk |->
       IF c \in chosen THEN [NewRow EXCEPT !.attempts = row[c].attempts + 1]
       ELSE row[c]]
  /\ clicks' = clicks + 1
  /\ UNCHANGED <<due, output, work, completeCall, failCall, operator>>

RequeueFailedChunks ==
  BulkRequeue({c \in OperatorChunks : row[c].status = "failed"})

RequeueStuckChunks ==
  BulkRequeue({c \in OperatorChunks : /\ row[c].status = "processing"
                                      /\ row[c].lease = "expired"})

-----------------------------------------------------------------------------
WorkerStep(w) ==
  Verify(w) \/ Upload(w) \/ SendComplete(w) \/ SendFail(w)

Handler(w) ==
  \/ CompleteRead(w) \/ CompleteHandoffFails(w)
  \/ CompleteWrite(w) \/ CompleteRetryPlan(w)
  \/ FailRead(w) \/ FailWrite(w)

Disruption(w) ==
  GiveUp(w) \/ Crash(w) \/ CompleteLost(w) \/ FailLost(w)

Operator ==
  \/ \E c \in OperatorChunks, kind \in {"requeue", "mark_failed"} :
       OperatorRead(c, kind)
  \/ OperatorWrite \/ RequeueFailedChunks \/ RequeueStuckChunks

Next ==
  \/ \E c \in Chunk : LeaseExpires(c) \/ BackoffElapses(c)
  \/ \E w \in Worker, c \in Chunk : ClaimNext(w, c)
  \/ \E w \in Worker : WorkerStep(w) \/ Handler(w) \/ Disruption(w)
  \/ Operator

Spec == Init /\ [][Next]_vars

-----------------------------------------------------------------------------
(* Fairness: worker goroutines and PHP requests that have not died keep      *)
(* running, time passes, and an engine that is not switched off for good     *)
(* polls claim-next again and again (loop.go Run).                           *)

Fairness ==
  /\ \A c \in Chunk : WF_vars(BackoffElapses(c)) /\ WF_vars(LeaseExpires(c))
  /\ \A w \in Worker :
       /\ SF_vars(\E c \in Chunk : ClaimNext(w, c))
       /\ WF_vars(WorkerStep(w))
       /\ WF_vars(Handler(w))
  /\ WF_vars(OperatorWrite)

FairSpec == Spec /\ Fairness

-----------------------------------------------------------------------------
(* Properties. *)

TypeOK ==
  /\ row \in [Chunk -> Row]
  /\ due \in SUBSET Chunk
  /\ output \in [Chunk -> [OutputKind -> Verdict \cup {NoVerdict}]]
  /\ work \in [Worker -> Work]
  /\ completeCall \in [Worker -> CompleteCall]
  /\ failCall \in [Worker -> FailCall]
  /\ operator \in OperatorCall
  /\ clicks \in Nat

\* A worker between claiming c and sending its fail request, or waiting for
\* the answer to its complete request.
Busy(w, c) == work[w].chunk = c /\ work[w].pc \notin {"idle", "failing"}
Working(w, c) ==
  work[w].chunk = c /\ work[w].pc \in {"claimed", "complete"} \cup OutputKind
Completing(w, c) == completeCall[w].chunk = c /\ completeCall[w].phase # "none"
Failing(w, c) == failCall[w].chunk = c /\ failCall[w].phase # "none"

Unattended == Chunk \ OperatorChunks
Quiet == Unattended \ SlowChunks

\* "Leases prevent double processing" (docs/ENGINE_CONTRACT.md): unless an
\* operator requeues it, a chunk is never worked on by two workers, although
\* complete and fail check neither the token nor the expiry of the lease and
\* may be executed long after the worker that sent them went on.
ExclusiveProcessing ==
  \A c \in Unattended, w1, w2 \in Worker :
    Busy(w1, c) /\ Busy(w2, c) => w1 = w2

\* The three result objects of a completed chunk, and the counts recorded with
\* it, come from one verification: no uploads of two attempts are mixed.
ResultIsOneVerification ==
  \A c \in Quiet : row[c].status = "completed" =>
    \A k \in OutputKind : output[c][k] = row[c].result

\* The row names the worker that verifies the chunk or uploads its results.
WorkingWorkerHoldsLease ==
  \A c \in Quiet, w \in Worker : Working(w, c) =>
    row[c].status = "processing" /\ row[c].worker = w

\* The retry policy of fail (docs/ENGINE_CONTRACT.md): the attempts are counted
\* exactly once per failed claim, so they never pass max_attempts and a chunk
\* offered to workers has an attempt left.
AttemptsBounded ==
  \A c \in Unattended :
    /\ row[c].attempts <= MaxAttempts
    /\ row[c].status = "pending" => row[c].attempts < MaxAttempts

\* A chunk in processing has an expiry time, without which the operator's
\* requeue of stuck chunks would never find it.
ProcessingHasLease ==
  \A c \in Unattended : row[c].status = "processing" => row[c].lease # "none"

\* Why the three above hold although nothing is checked against the lease: an
\* attempt is held by the worker that claimed it until its fail request has
\* been executed, even if that worker is gone by then, and only a fail request
\* gives the chunk back.
Holds(w, c) == Busy(w, c) \/ Failing(w, c)

FreshFailure(w, c) ==
  Failing(w, c) /\ failCall[w].phase = "read" =>
    /\ failCall[w].seen.status = "processing"
    /\ failCall[w].seen.attempts = row[c].attempts

FreshCompletion(w, c) ==
  Completing(w, c) /\ completeCall[w].phase = "read" =>
    completeCall[w].seen.status # "completed"

HeldOnce(chosen) ==
  /\ \A c \in chosen :
       /\ \A w1, w2 \in Worker : Holds(w1, c) /\ Holds(w2, c) => w1 = w2
       /\ row[c].attempts <= MaxAttempts
       /\ row[c].status = "pending" =>
            /\ row[c].attempts < MaxAttempts
            /\ \A w \in Worker : ~Holds(w, c)
       /\ row[c].status = "processing" => row[c].lease # "none"
  /\ \A w \in Worker, c \in chosen :
       /\ Holds(w, c) => row[c].attempts < MaxAttempts
       /\ ~(Busy(w, c) /\ Failing(w, c))
       /\ FreshFailure(w, c)
       /\ FreshCompletion(w, c)

AttemptHeldOnce ==
  /\ operator.kind # "none" => operator.chunk \in OperatorChunks
  /\ HeldOnce(Unattended)

\* Every click of the operator lets at most one more worker onto a chunk.
WorkersBoundedByClicks ==
  \A c \in Chunk : Cardinality({w \in Worker : Busy(w, c)}) <= 1 + clicks

\* A completed chunk names its result files: FinalizeVerificationJob would merge
\* a completed chunk without keys as if it had no rows.  One click cannot break
\* this where the client waits for its answers.  It can after a completion that
\* a late fail reopened: requeue loads a pending row with keys, the next worker
\* completes it, and the save clears keys but not the status, which it loaded as
\* pending.  Two clicks reopen a completion by themselves.
CompletedHasResult ==
  \A c \in Chunk \ SlowChunks :
    clicks <= 1 /\ row[c].status = "completed" => row[c].result # NoVerdict

\* A claim nobody works on any more: its worker died, or never heard of it.
Abandoned(c) ==
  /\ row[c].status = "processing"
  /\ \A w \in Worker : ~Busy(w, c) /\ ~Completing(w, c) /\ ~Failing(w, c)

\* No step of the protocol takes up an abandoned claim again, not even when its
\* lease has expired: what the documentation's re-claiming would do is left to
\* an operator.
AbandonedStays ==
  [][\A c \in Unattended : Abandoned(c) => Abandoned(c)']_vars

Lifecycle == INSTANCE ChunkLifecycle WITH
  Chunk <- Quiet,
  status <- [c \in Quiet |-> row[c].status],
  attempts <- [c \in Quiet |-> row[c].attempts]

\* Chunks of jobs that no operator touches, on a network where a client waits
\* for the answer, live the life cycle of docs/ENGINE_CONTRACT.md.
QuietLifecycle == Lifecycle!Spec

\* Every chunk ends up completed or failed, or with an abandoned claim: it is
\* not retried for ever, and no call of the protocol blocks another.
EventuallySettled ==
  \A c \in Unattended :
    <>[](row[c].status \in {"completed", "failed"} \/ Abandoned(c))

-----------------------------------------------------------------------------
(* What the documentation says and the code does not do. *)

\* "leases expire automatically and allow re-claiming"
\* (docs/ENGINE_CONTRACT.md:15): claim-next selects pending chunks only.
ExpiredLeaseIsReclaimed ==
  \A c \in Chunk :
    (row[c].status = "processing" /\ row[c].lease = "expired")
      ~> (row[c].status # "processing" \/ row[c].lease = "live")

\* "`pending` -> `processing` (lease) -> `completed` or `failed`"
\* (docs/ENGINE_CONTRACT.md:11): no step leaves completed.  A fail request that
\* loaded the row before complete saved it writes pending or failed over it.
CompletedIsFinal ==
  [][\A c \in Unattended :
       row[c].status = "completed" => row'[c].status = "completed"]_vars
=============================================================================
