# A verification development for ValidEmailVerifierGUI

The repository is an email verification service: a Laravel application that
takes a customer's list, splits it into chunks and merges the results; Go
engine workers that claim chunks over HTTP, verify the addresses and upload the
results; and a Go control plane that steers the workers. This directory holds
TLA+ specifications of its core, the runs of TLC that check them on small
instances, and proofs checked by TLAPS.

Paths below are relative to the repository; `Controller` stands for
`app/Http/Controllers/Api/Verifier/VerifierChunk...Controller.php`.

## 1. Inventory

| Component | State | Operations | Hard behaviour | What makes it correct |
|---|---|---|---|---|
| Chunk leases (`ClaimNext`, `Complete`, `Fail` controllers; chunk buttons in Filament) | rows of `verification_job_chunks`: status, attempts, lease, worker, result keys | claim, complete, fail, requeue, mark failed, bulk requeue | only claim locks the row, the others load, decide and save later; no handler checks the claim token; lost and late answers, worker crashes | one worker per chunk, attempts counted once, results of one attempt, every chunk settles |
| Go worker loop (`engine-worker-go/internal/worker/loop.go`) | slots running `processChunk` | claim, download, verify, upload three files, complete, or fail | client timeout of 30 s against a handler that goes on, crash at any step | reports each claim once, uploads before completing |
| Pipeline (`PrepareVerificationJob`, `ParseAndChunkJob`, `ScreeningToProbeChunkPlanner`, `TempfailRetryPlanner`, `FinalizeVerificationJob`, `VerificationResultsMerger`) | `verification_jobs` row, chunk rows, objects in storage, queued jobs | activate, parse, plan probes, plan retries, finalize | chunks are created while others complete; planners write before or after the row is saved; queue jobs die and are delivered again | a completed job holds each email once; a job ends once; it does end |
| Job administration (`ViewVerificationJob`, `VerificationJobsTable`) | the same rows | finalize, mark failed, cancel, retry | writes over whatever runs | does not corrupt a result |
| Legacy whole-job API (`VerifierJob...Controller.php`) | `verification_jobs` claims | claim, status, complete | a second protocol over the same rows | a job has one result |
| SeedSend SG6 (`app/Services/SeedSend`, three queue jobs, webhook) | campaigns, recipients, events, credit ledger, consents | start, dispatch, ingest events, pause, resume, cancel, retry, reconcile, settle, revoke | claims and cancellations are transactions, everything else reads first and writes later; crash between send and update; jobs delivered twice or given up; consent that ends in mid-batch | no message nobody asked for, none after the consent ended, consumed + released = reserved, a campaign is carried on and comes to rest |
| Policy rollout (`services/go-control-plane/store.go`, `policy_canary_autopilot.go`) | version map, history, autopilot state in Redis | validate, promote, roll back, autopilot step | load-change-save without a transaction, rollback chooses from a history it extends | one active version, a rollback undoes the promotion |
| Control-plane workers (`store.go`, `handlers.go`, `alerts.go`, `autoscale.go`) | heartbeats, desired state, quarantine, incidents | heartbeat, set desired state, quarantine, clean up, open and resolve incidents | reads before a pipeline, writes after it; a late heartbeat still executed; a worker that returns while it is being removed | a quarantined worker takes no work, the worker ends in the state its key asks for, a missing worker is reported, incidents end |
| Checkout and billing (`CheckoutIntentService`, `BillingService`, `Invoice`) | intents, invoices, payments, balance | complete an intent, record a payment, apply credit | webhook against browser return, read-modify-write of the balance | an intent is completed once, money is neither lost nor created |
| Cache and write-back (`WriteBackVerificationCacheJob`, `EmailVerificationCache`) | cached outcomes | look up, write back | partial batches, throttling | every outcome of a completed job is written |
| Queue health, Laravel policy records, engine servers, SMTP/DNS verification, portal and metrics | | | thresholds, single-row edits, I/O, display | not protocols between actors |

Interactions: workers call the chunk endpoints over HTTP and PUT results to
storage with signed URLs; `Complete` calls the planners, which insert chunks
that workers claim later, and dispatches `FinalizeVerificationJob`; the parser
inserts chunks while workers may already complete them; the merger reads the
objects at the keys in the chunk rows and the cache files at the keys in the job
row; operators write the same rows from the browser. The worker's loop sends a
heartbeat to the control plane and claims only in the state `running` that the
answer last gave it. The three SeedSend jobs share the campaign and its recipients
with the administrator's requests and hand the campaign to each other over queues.

`PROJECT.json` lists each hazard at its line of the source, with the properties
that cover it.

## 2. Plan

Written, in this order:

1. `ChunkLease`, its abstract `ChunkLifecycle`, and the proofs in
   `ChunkLeaseProofs` (types, attempts, abandoned claims), `ChunkResultProofs`
   (results, the life cycle) and `ChunkOperatorProofs` (the operator's clicks);
2. `VerificationPipeline`, its abstract `JobContract`, and the proofs in
   `PipelineProofs` (types, the tree of chunks, finalizations),
   `PipelineOwnerProofs` (every email has one owner) and
   `PipelineDeliveryProofs` (delivery, the contract);
3. `SeedSendCampaign` and `SeedSendProofs`;
4. `WorkerControl` and `WorkerControlProofs`.

The `MC...` modules give constants their values. No module composes two
components by conjunction: `VerificationPipeline` takes from `ChunkLease` that a
chunk has one attempt at a time (proved there as `ProcessingIsExclusive`), and
`WorkerControl` ends where the worker claims, which is where `ChunkLease` begins.

What would come next, most useful first:

1. the operator's requeue together with the planners (two attempts at one chunk),
   and re-activation of a job;
2. the policy rollout: version map, promote, rollback, canary autopilot;
3. checkout: intents, payments and balance under concurrent completion.

## 3. Modules

### ChunkLease

The chunk rows and every writer of them.

| Variable | Code |
|---|---|
| `row` | status, attempts, lease columns, `assigned_worker_id`; `result` is the keys and counts that belong to one upload, `filtered` that `TempfailRetryPlanner` changed the risky key |
| `due` | `available_at` is null or has passed |
| `output` | the objects at the three keys of a chunk, which depend only on job and `chunk_no` |
| `work` | where a goroutine is in `processChunk` |
| `completeCall`, `failCall` | one request of each kind in flight per worker, with the row it loaded |
| `operator`, `clicks` | a row button between loading and saving; clicks so far |

Claim is one action (a transaction with `lockForUpdate`). Complete, fail and the
row buttons are a read and a write; a save writes only the columns that differ
from what was loaded (`Saved`), as Eloquent does. After saving a probe chunk,
complete goes on to the retry planner, which may point the row at another risky
file, or raise an exception for a chunk that is already completed
(`CompleteRetryPlan`). A screening chunk whose planner throws is answered 503
before any write (`CompleteHandoffFails`). `GiveUp` is the client timeout,
`CompleteLost` and `FailLost` calls that never arrive, `Crash` the end of the
process. The second disjunct of `ClaimNext` is a response that never arrives.

`Worker` stands for a slot of a worker process. The slots of one process send
the same worker_id; here every slot has one of its own. Nothing in claim,
complete or fail compares the stored id with the caller, so this only makes
`WorkingWorkerHoldsLease` say more. Which claimable chunk a worker gets (routing
scores, affinity) is any of them.

`ChunkLifecycle` is the abstract specification: a chunk waits, is leased, and
ends completed or failed, counting an attempt per failure. Its refinement holds
for `Quiet` chunks: those no operator touches (`OperatorChunks`) and whose
requests the client waits for (`SlowChunks`). Safety that survives late answers
is stated for `Unattended` chunks, the operator's influence for all.

### VerificationPipeline

One job. `parser` is `ParseAndChunkJob` with the emails still to read, the chunk
being filled, the cache hits so far and its chunk counter; `chunks`, `output`
and `request` are the chunk rows in order of creation, the files of each and how
far its attempt is; `queued` and `finalizer` are the queued finalizations and
the one `WithoutOverlapping` lets run, with the rows it loaded. `job.rows[e]`
names the sources of e's rows in the merged files.

A chunk's file content is abstracted to `settled` (rows that stay) and `again`
(rows that the screening planner hands to probes, or the retry planner to a
retry). The complete handler is one action per commit:
`CreateProbeChunks`, `SaveHandoff` (rewrite of the screening files and the row),
`SaveScreening`, `SaveProbe`, `PlanRetry`, `FilterRisky`, `DispatchFinalize`.
`JobContract` is the abstract specification: the job starts, and ends failed, or
completed with one row per email; if its parse was lost before, with at most one.

All three queue jobs have `failOnTimeout` and none has a `failed()` hook, so a job
that times out in any try, or dies in its last one, is gone and no row says so:

- `ParseDies`: the parse starts over if it has a try left, or is lost for good
  (`parser.pc = "lost"`). Without a chunk the job then stays in processing. With
  chunks written it completes when they do, without the emails the parse had not got
  to and without the cached rows: the one way in which a completed job may lack
  an email here. The chunks of a first try make a second fail the job. The save and the
  dispatch at the end of the parse are one step (`ParseEnds`); a death between
  them leaves the same, with the cached rows known;
- `PrepareDies` (`"prepared"`): before the save it leaves the job pending, after it
  in processing with no parse. If it is delivered again, it starts a pending job,
  and finds one in processing no longer its business;
- `FinalizeDies` (`"finalizing"`): the finalization is delivered again or gone, or the
  lock it leaves behind uses up its tries. `FinalizeReleased` is the same without a
  death: `WithoutOverlapping` releases a second finalization every 30 seconds
  while the first merges, which counts as a try; that the first is still there
  makes it harmless;
- `CompleteDies`: the complete request ends between two of its commits.

`Deaths` names the points at which Prepare, complete and Finalize may die; the
parse may always.

Assumed of the environment:

- a chunk has one attempt at a time, which is `ChunkLease!ExclusiveProcessing`
  (proved there for chunks no operator touches, so the requeue buttons are in
  ChunkLease only), and a worker that claimed a chunk reports in the end
  (abandoned claims are ChunkLease's subject); an error answer from complete and
  the worker's fail after it are one step;
- the backoff of a retry chunk (minutes) outlasts the request that created it;
- the cache and its mode do not change between two tries of one parse, and a
  cache hit has one of the three known statuses;
- a list is the set of its normalized addresses (deduplication is a set);
- the job is activated once: purging the chunks of an earlier activation is not
  modelled.

### SeedSendCampaign

One campaign from the moment `startCampaign` has committed and its dispatch job
is queued.

| Variable | Code |
|---|---|
| `consent` | the consent's status: approved, or revoked or expired |
| `campaign`, `recipient` | `seed_send_campaigns.status` and the age of `started_at`; `seed_send_recipients.status` and `attempt_count` |
| `ledger` | the consume and release entries of `seed_send_credit_ledger` (the reservation is one credit per recipient) |
| `events` | keys of `seed_send_events` |
| `queue` | waiting jobs of the dispatch and reconcile lanes, by number of their try |
| `dispatcher`, `reconciler`, `ingestor` | where each process is in its job and what it has read; `Dispatcher` may have several processes, the other lanes have one (the repository's `config/horizon.php:309-350` gives every lane one, so the runs with two dispatchers check more than it deploys) |
| `admin` | a request between reading the campaign and its last write |
| `sent`, `late` | messages the provider accepted; those after the consent had ended |
| `forgotten`, `torn` | a job was lost or ended without a successor; a settlement was cut in two or counted during a retry |

`DispatchSeedSendCampaignJob` is `DispatchStarts`, `Claim` (one transaction), `Reload`,
`Check`, `Send`, `Record`, and at the end of the batch `WrapUp`, `DispatchPauses`,
`DispatchEnds`. The HTTP call is `Send`: the provider accepts the message or not, and
a call that throws may have been accepted. `ReconcileSeedSendCampaignJob` is
`TakeReconcile`, `Count`, `Defer`, `Total`, `Complete`, `SettleConsume`,
`SettleRelease`: outside a transaction, one step per write. An event is inserted
(`Ingest`), applied (`Apply`), and may pause the campaign (`Guard`,
`IngestPauses`). The buttons read and write in two steps (`PauseRead`,
`PauseWrite` and so on); a retry selects, resets, requeues and dispatches. A process dies
between any two steps (`DispatcherDies`, `ReconcilerDies`, `IngestorDies`,
`AdminDies`); the queue gives its job out once more, if it has a try left. Ids
decide in the code which recipients make up a batch; here any may.

### WorkerControl

One worker and its keys in Redis; keys of different workers are disjoint.

| Variable | Code |
|---|---|
| `worker` | the loop of `Worker.Run`: down, before its first heartbeat, waiting for an answer, or claiming; `desiredState`; `active` |
| `requests` | `UpsertHeartbeat` for the heartbeat the worker waits for, and for one it has given up: its locals between the Redis calls |
| `keys` | `worker:<id>:desired_state`, `:desired_state_updated`, `:quarantined`, `:status`, the age of `:last_seen` (and with it of the keys that live 60 s), membership of `workers:known` and `workers:active` |
| `checker` | `runChecks`: `CleanupStaleKnownWorkers`, `checkOfflineWorkers`, `checkStuckDesiredState` and what they have read |
| `incidents` | the active incidents `worker_offline` and `worker_stuck_desired` |
| `missed`, `told`, `orphaned` | the worker lost its last heartbeat; it has heard of the quarantine in force; a check stopped between removing a worker and resolving its incidents |

Each Redis call of a request is a step; a pipeline is one step. `HeartbeatTimesOut`
is the client timeout of ten seconds (the request goes on as the late one, until the
server notices), `HeartbeatFails` a request that never arrives or meets an error,
`CheckStops` the end of the check's process, lease or time. Time is the ages of
`last_seen` and `desired_state_updated`; they advance only while the worker is
down or not heard, because its interval (30 s) is shorter than every TTL.

Leaving out: `checkWorkerErrorRate`, because the worker sends no `Metrics`
(`loop.go:1295-1316`) and the rate is always 0 (its automatic drain and
quarantine are the operators' two calls); pool capacity and autoscaling, which
recommend and write nothing a worker reads; provider health.

## 4. Runs

| Run | Question | Result |
|---|---|---|
| `lease_safety` | two workers, a screening chunk with late answers and a probe chunk, two attempts, two verdicts | holds; 1.8 million states |
| `lease_operator` | three workers and one click of an operator on a probe chunk | holds |
| `lease_liveness` | one worker, two chunks, one with late answers, fairness | holds |
| `lease_expiry_doc` | are expired leases re-claimed, as documented? | violated |
| `lease_reopen_doc` | is completed final, as documented? | violated |
| `pipeline_safety` | three emails, chunks of two, failing attempts, parses that start over or are lost, an administrator, deaths of complete after the save and of finalizations | holds; 4.0 million states |
| `pipeline_contract` | three emails, chunks of one, one cached, retries and cache-only mode on or off, a parse and a Prepare that may be lost | implements JobContract and ends, apart from the five named stalls |
| `pipeline_early_doc` | workers finish a chunk during the parse | violated |
| `pipeline_handoff_doc` | a repeated handoff with another screening result | violated |
| `seedsend_safety` | two recipients, two dispatching processes, batches of two, a retry and two deaths | holds; 1.0 million states |
| `seedsend_rest` | two recipients, one process, bounces, a click and a death, fairness | holds; 0.8 million states |
| `worker_control` | a worker, new or left behind by an earlier day, two orders of operators and one fault, fairness | holds; 1.8 million states |

What the properties say, beyond the types:

- `ExclusiveProcessing`: no unattended chunk is worked on by two workers,
  although neither token nor expiry is checked. It holds because an expired
  lease is *not* claimable; the variant `ClaimableExpired` (what the
  documentation promises) breaks it at once.
- `ResultIsOneVerification`: the three files of a completed quiet chunk and the
  recorded counts belong to one attempt.
- `WorkingWorkerHoldsLease`, `ProcessingHasLease`: the row tells the truth about
  who works on it, and can be found by the requeue of stuck chunks.
- `AttemptsBounded`: each failed claim is counted exactly once.
- `AttemptHeldOnce`: the inductive invariant of section 6.
- `AbandonedStays`: no step of the protocol takes up a claim again whose worker and
  requests are gone; this is the safety side of `EventuallySettled`, which has to
  admit such claims.
- `QuietLifecycle`: refinement of ChunkLifecycle.
- `WorkersBoundedByClicks`, `CompletedHasResult`: a click of the operator lets at
  most one more worker in, and a single click leaves no completed chunk without
  its result keys, where the client waits for its answers. A chunk in `SlowChunks`
  is exempt: a late fail reopens its completion, the requeue loads a pending row
  with keys, the next worker completes it, and the save of the requeue clears the
  keys and leaves the status, which it loaded as pending.
- `EventuallySettled`: every unattended chunk ends completed, failed or with an
  abandoned claim.
- `DeliveredOnce`, `OneOwner`: every email is the business of exactly one chunk
  or the cache at every moment after the parse, so the result of a completed
  job has it once. After a lost parse this is so for what it had written, and
  the other emails are nobody's: never is one there twice.
- `JobKeepsContract`: refinement of JobContract; nothing that comes late changes
  a settled job (checked without the administrator, who may).
- `FinalizationComes`: a job whose chunks are all completed has a finalization in
  the queue, at work, or still to be dispatched by a request: the safety side of
  `EventuallyFinal`.
- `EventuallyFinal`: the job ends, unless it is stalled in one of the five ways
  `Stalled` names: a chunk failed for good (fail dispatches no
  `FinalizeVerificationJob`, though `docs/DEEP_VERIFICATION_ENGINE_PLAN.md:375`
  wants the job failed), a retry chunk claim-next never hands out, a job whose
  emails were all cached outside cache-only mode, a parse lost for good before it
  wrote a chunk, or a Prepare lost before it dispatched the parse. It presumes what
  the run does: engines finish what they claim (an abandoned claim is
  ChunkLease's), and no complete request or finalization dies. Such a death is
  the sixth way, and the hazard list has it.
- `MailsBounded`: no recipient gets more than one message plus one per retry the
  administrator asked for, whatever dies, runs twice or returns late. It holds
  because a claim is committed before the message and never taken back.
- `LateMailsBounded`: after the consent has ended each process sends at most the
  message it had checked before.
- `LedgerSettled`: consume and release of an ended campaign add up to the
  reservation and charge everyone a message went to. It fails when a cancellation
  or a death falls between the two entries, or a retry into the count (`torn`).
- `OutcomeSurvives`: a recorded delivery or bounce is changed only by another
  event or by a retry that had selected the recipient before.
- `Driven`, `EventuallyAtRest`: an active campaign has a job that will carry it on,
  and it comes to rest; except after jobs the queue gave up, a request that died,
  and a dispatch job that found its whole batch taken away (`forgotten`).
- `QuarantineNeverRuns`: quarantine flag and desired state, written by different
  requests, never contradict each other.
- `QuarantineIsObeyed`: a worker that has heard of a quarantine claims nothing until
  it is lifted. A worker that restarts begins as running, and if its first
  heartbeat fails it claims although it is quarantined.
- `Converges`: when operators and faults come to rest a running worker is in the
  state its key asks for. The key itself may be other than the last order: a
  heartbeat that read the quarantine before a release sets draining after it
  (`store.go:300`), and no incident tells.
- `IncidentsAreOwned`: an open incident belongs to a worker the control plane still
  knows, or to one whose incidents the running check is about to resolve; the safety
  side of `IncidentsEnd`.
- `DownIsReported`, `IncidentsEnd`: a known worker that stays away is reported, and
  no incident outlives its cause, except for a worker whose removal was
  interrupted (`orphaned`).

### Bounds

- `MaxAttempts` 2: one retry and one final failure; the count only enters the
  comparison with its limit.
- Two workers are the smallest set in which one can take over from another; the
  operator run has three, so that one click could let in two. Two verdicts tell a
  mixed result from a pure one.
- `MaxOperatorActions` 1 bounds clicks in `lease_operator`; two clicks, or one and a
  late fail, leave a completed chunk without keys (`CompletedHasResult`). What n
  clicks can do is proved (`ClicksBoundWorkers`).
- `SlowChunks`: one chunk of each liveness and safety run, to have late requests
  next to a quiet chunk in one state space.
- Three emails: in chunks of two they give a full and a partial chunk, a probe
  chunk for each of two domains and one address screening rejects for good.
- `MaxProbeAttempts` 1 and 2: no retry chunk that is claimable, and one; with
  both the one that is not.
- `MaxParses` 2 is `ParseAndChunkJob::$tries`.
- `FailingChunks` names the chunks whose attempts may fail, one early and, in the
  contract run, one that is created by a planner.
- `AdminFinalizes` adds a finalization only if none is queued, which bounds the
  queue; requests add theirs without a limit but each ends.
- `MaxChunks` is the most chunks a job can have under `MaxProbeAttempts`.

- `seedsend_safety`: two recipients and two processes with batches of two are the
  least in which one process can hold what another, or a retry, resets; two
  deaths, one per try of a job. Events and clicks are left to the other run.
- `seedsend_rest`: batches of one, so that the chain of dispatch jobs has links;
  one click and one death, each at every point.
- `worker_control`: two clicks, to have a release after a quarantine and an order
  during one; one fault, a timeout, an outage of any length, a death or a check
  that stops; one late heartbeat at a time; concurrency one, because only growth
  matters. A worker that had gone stale before is an initial state, so that the
  fault can fall into its removal.

Symmetry is used in the two lease safety runs and in `seedsend_safety` (permutations
of workers and of verdicts, of recipients and of processes; they are compared for
equality alone, and those runs check no liveness).

`Deaths` is {"probe_saved", "finalizing"} in `pipeline_safety` and {"prepared"} in
`pipeline_contract`. A death at "saved", "probe_saved" or "finalizing" only loses
a finalization (a stall; `FinalizationComes` is violated). A death at
"retry_created", between the insertion of a retry chunk and the update of its
parent, delivers the retried emails twice: the
hazard list has it. `ProbeSettings` has one value per run: if probing is switched
off between two attempts at a screening chunk, its rows are kept beside the probe
chunks. `EarlyResults` is FALSE and `Flapping` empty in the passing runs, because
`pipeline_early_doc` and `pipeline_handoff_doc` show what happens otherwise. What
the passing pipeline runs establish, and the theorems of section 6 under the same
hypotheses, is therefore conditional: chunks are
completed after the parse is over, and screening rejects the same addresses in
each attempt. That the parse is over leaves out the hour between its death and its
redelivery too (`retry_after`), in which workers may finish its first chunks, as
after a loss.

Deadlock is not checked: a job that is settled, or a chunk in its last state with
all clicks spent, rightly has no next step.

### Fairness

- `ChunkLease`: time passes (weak fairness of lease expiry and backoff);
  goroutines and requests that have not died go on (weak); a polling worker that
  is idle again and again while something is claimable gets a claim (strong:
  between two polls another chunk may occupy it). Crashes, lost calls, timeouts
  and clicks are never forced. `EventuallySettled` is only about engines that
  keep polling: the switches that make claim-next answer 204 for good are not in
  the model.
- `VerificationPipeline`: queue workers take what is queued (Prepare, Parse,
  Finalize), engines poll and finish what they claim, and a complete request that
  has begun ends. Failures are never forced, and `FailingChunks` and
  `MaxAttempts` bound them.
- `SeedSendCampaign`: queue workers take what is queued and go on with what they
  have begun, requests that have loaded the campaign end, and time passes. Deaths,
  events, clicks and the end of the consent are never forced.
- `WorkerControl`: a running worker sends heartbeats which the server executes and
  answers, checks recur (the ticker of `alerts.go`), and time passes up to the
  grace of the offline check. That the stale TTL (a day) runs out is not assumed,
  nor that a late request is executed, or that a worker starts, claims or finishes.

## 5. Disagreements with the documentation

Each violation run is one statement of the repository that the code does not
keep; `PROJECT.json` quotes it.

1. Expired leases are not re-claimed (`docs/ENGINE_CONTRACT.md:15`); only an
   operator's requeue brings such a chunk back. The re-claiming as documented
   would need the token checked in complete and fail.
2. A completed chunk can be reopened by a fail request that was in flight
   (`docs/ENGINE_CONTRACT.md:11`).
3. A job can complete before its list is parsed
   (`docs/DEEP_VERIFICATION_ENGINE_PLAN.md:366`).
4. A screening handoff that is repeated after a failure can lose or double an
   email (`tests/Feature/VerifierChunkApiTest.php:627`).

## 6. Proofs

`ChunkLeaseProofs` proves, for every set of chunks, workers and verdicts and
every `MaxAttempts`, `Stage`, `Capability`, `OperatorChunks` and `SlowChunks`
that satisfy `ChunkLeaseAssumption`:

- `TypeCorrect`: `Spec => []TypeOK`;
- `AttemptsHeldOnce`: `Spec => []AttemptHeldOnce`;
- `ProcessingIsExclusive`, `AttemptsAreBounded`, `ProcessingIsLeased`: its
  consequences;
- `AbandonedClaimsStay`, the action property. It needs the invariant only for the
  operator's buttons, which write to `OperatorChunks`; every other step acts on
  the chunk of a busy worker or of a request in flight (`HandlersPassBy`,
  `WorkersPassBy`), or on a pending one.

`ExclusiveProcessing` is not inductive: a second worker comes in when the row
goes back to pending while the first is still at work, and that is the doing of
a fail request that may outlive the worker that sent it. `AttemptHeldOnce` adds
what keeps this from happening: an attempt is *held* while its worker is busy or
its fail request is unanswered; it is held by one worker; a pending chunk is held
by none; a worker is not busy on a chunk whose failure it has already reported;
and a fail request that has loaded the row still sees the attempts and status it
loaded, because the only other handler that could have changed them belongs to
the same attempt and leaves attempts alone. With late requests (`SlowChunks`)
complete and fail of one attempt do run side by side, which is why status may
leave completed (run `lease_reopen_doc`) and the invariant speaks about what was
loaded, not about the row. The proof has one step per action and, under it,
one per part of the invariant the action can disturb; `NoNewHolder` and
`CallsEnd` collect what actions that only end calls have in common.

`ChunkResultProofs` adds what holds for `Quiet` chunks, from `QuietInv`: a quiet
chunk is being worked on, reported as complete, or reported as failed, never two of
these at a time, so nothing changes its row or its files between the claim and the
report. `WorkIsRecorded` follows the uploads (before each PUT the earlier files are
those of this attempt), `CompletionIsFresh` says that what complete has loaded is
still true, `ResultIsKept` that files and counts of a completed chunk agree.

- `ResultsAreOneVerification`, `WorkersHoldTheirLease`: its consequences;
- `QuietChunksImplementLifecycle`: `Spec => QuietLifecycle`, the refinement. Each
  action of the code is a step of `ChunkLifecycle` for the chunk it writes, if
  that is a quiet one, and a stutter for the others (`LifecycleStep`); a bulk
  button, which writes many rows at once, writes none of these.

`ChunkOperatorProofs` is about all chunks, for any number of workers and clicks.

- `ClicksBoundWorkers`: the number of busy workers is not inductive, because a
  worker can also be on its way. `LoadInv` counts them with the fail requests in
  flight, a pending row and a button that has loaded the row: claim, fail and save
  only turn one of these into another, so the sum grows with clicks only.
- `CompletedChunksHaveResults`: until the first click `AttemptHeldOnce` and
  `QuietInv` hold for every chunk that is not slow, whoever may touch it later
  (`Untouched`); so the rows that the click and the requests have loaded by then
  carry no keys a save could clear (`ResultNamed`).

`PipelineProofs` proves, for every list, chunk size, routing and limit, and whatever
screening, settings and administrators do:

- `PipelineTypes`: `Spec => []TypeOK`. The work is in `MaxChunks`. `PipelineInv`
  describes the chunks as a tree: a probe chunk takes over emails of an earlier
  chunk, one level up (`Descends`), chunks of one level are disjoint, and a probe
  chunk gets its retry chunk once (`InStep`). That a parse which was delivered
  again adds nothing follows from the number 1 of the first chunk, which it wants to
  insert once more (`ParseInv`, `ScreeningGrows`).
  Each chunk then has an email and a level of its own (`TreeIsBounded`, an injection),
  and there are `2 + MaxProbeAttempts` levels;
- `FinalizationsCome`: `[]FinalizationComes`, assuming that no complete request dies
  after the row was saved and before a retry chunk was created or the finalization
  dispatched, and no finalization while it merges (`Deaths` without "probe_saved",
  "saved" and "finalizing"; with any of them TLC finds it violated). Finalizations
  that are released until they have no try left (`FinalizeReleased`) are admitted. A death at "retry_created" is harmless here, and needs `HeldBack`:
  claim-next holds the retry chunk back, so the job still waits for it.

`PipelineOwnerProofs` and `PipelineDeliveryProofs` are about the emails, and state
their hypotheses:

- `Steady`: screening rejects the same addresses in each attempt (`Flapping = {}`),
  probing is not switched on or off meanwhile (`ProbeSettings # BOOLEAN`), and no
  request dies between a retry chunk and the filtered file
  (`"retry_created" \notin Deaths`);
- `Orderly`: `Steady`, and workers finish no chunk before the parse is over
  (`~EarlyResults`).

These are not conveniences: dropping any one, TLC finds the code losing or
doubling an email, beyond what a lost parse explains. `OneOwner` is violated with `Flapping = {a}`, with
`Deaths = {"retry_created"}` and with both probe settings; `DeliveredOnce` with these
(the death needs `MaxProbeAttempts` 2, so that the retry chunk is claimed) and with
early results. Two of them are documented in section 5, the others are hazards.
Under them, for any constants that satisfy `VerificationPipelineAssumption`:

- `EveryEmailHasOneOwner`: `Steady` suffices, early results and the administrator
  are admitted. `Keeps` of the property is defined by files and rows; `OwnerInv`
  ties it to the tree: what a chunk keeps is what its children have not taken over
  (`Tended`, `KeepsIsRest`). The rests of different chunks are disjoint (`Disjoint`),
  and with the cache and what the parser still has in hand they partition the
  list (`Partition`). A parse that started over is exempt from the partition until
  it collides with the chunks of the first, and it is bound to, since an email
  that made the first open a chunk makes it open one (`Parsing`). If it is lost
  before that, `Disjoint` is left, which is why the property then says at most one.
- `EveryEmailDeliveredOnce`: `DeliveryInv` carries the partition through a
  finalization: nothing is completed before the parse is done or lost (`Patient`), and
  what a running finalization would merge is settled when it loads the rows and
  stays so, because completed chunks keep status and objects (`Snapshot`). Each
  email has one row, or none if the parse was lost (`Fits`).
- `JobsKeepContract`: `Spec => JobKeepsContract`, assuming also `~Administered`
  (an administrator may mark a completed job failed). `Undecided` says that a
  finalization which may save finds the job still in processing; every step then
  starts, fails or completes the job of the contract, or stutters (`Settles`).

`SeedSendProofs` proves, for every set of recipients and processes, every batch
size and every bound that satisfy `SeedSendAssumption`, six theorems:

- `TypeCorrect`, where the work is in the ledger: what is charged is a number of
  recipients, so the entries stay within the reservation;
- `MailsAreBounded`. `MailsBounded` alone says nothing of what a process is about to
  send. `MailInv` follows the entitlement: messages and claims in hand never
  exceed `attempt_count` (`ClaimPerMail`), and attempts, the pending row and the
  reset about to make it pending never exceed one plus the retries
  (`RetryPerClaim`);
- `LateMailsAreBounded`: a process that has sent a late message is not at `send`
  again (`LateInv`);
- `CampaignIsDriven`: `DrivenInv` sharpens `Driven` to a reconciliation that has not
  yet completed the campaign, since one that has leaves no job behind;
- `LedgerIsSettled`: `SettleInv` says that an undisturbed reconciliation has left no
  recipient unfinished when it adds up, so what it charges is the whole
  reservation; a cancellation charges everyone who was ever claimed, which
  by `MailInv` is everyone a message went to;
- `OutcomesSurvive`, the action property.

`WorkerControlProofs` proves, for any orders, concurrency and bounds that satisfy
`WorkerControlAssumption`:

- `TypeCorrect` and `QuarantinedNeverRuns`;
- `QuarantinesAreObeyed`, which needs `ToldInv`: while the worker has heard of the
  quarantine in force it drains, and the request it waits for, if past its read of
  the flag, has seen it; and `ReadInv`: such a request answers draining;
- `IncidentsHaveOwners`, which needs that the active list is part of the known
  workers, and that a check finds known workers only and alone removes them
  (`OwnedInv`).

Every invariant, action property and refinement that a passing run checks is thus
proved, the email properties under the hypotheses above. Only model-checked are the
liveness properties (`EventuallySettled`, `EventuallyFinal`, `EventuallyAtRest`,
`Converges`, `DownIsReported`, `IncidentsEnd`), because liveness under fairness is
outside the provers; `AbandonedStays`, `FinalizationComes`, `Driven` and
`IncidentsAreOwned` are the safety sides of four of them. The four violation runs
are counterexamples, not theorems. That `SetToSeq` enumerates the
shards is proved from its definition (`SetToSeqIsBijection`).

## 7. Not modelled

- Metrics, logs, notifications and reports; routing scores; the content of result
  rows, reasons and scores; authentication; presentation, which includes all
  JavaScript in the repository (bundled front-end assets and build configuration).
- Pipeline: a second activation of a job, the requeue buttons beside the planners,
  changes of the probe policy or the cache under a job, write-back.
- SeedSend: requesting and approving consent (an approval that races a
  revocation included), starting a campaign (its check for an active one is outside the
  transaction), counters, the provider's webhook and its own retries. One
  administrator's request is under way at a time, and one event.
- Worker control: see section 3; and Redis pipelines are one step, while the code
  uses `Pipeline`, which Redis may interleave with other clients' commands. It
  matters to `QuarantineNeverRuns` alone: `SetDesiredState("running")` writes the
  state before it deletes the quarantine (`store.go:717-723`), so a reader in
  between would see both.
- The policy rollout (`store.go:1299-1700`, `policy_canary_autopilot.go`) and checkout
  have real concurrency and no module here; `PROJECT.json` lists their hazards.
- The other components of section 1 without a module, for the reasons given in
  `PROJECT.json`: thresholds over metrics, single-row edits, or I/O.
