------------------------ MODULE VerificationPipeline ------------------------
(***************************************************************************)
(* One verification job from activation to its merged result files: the    *)
(* Prepare, ParseAndChunk and Finalize queue jobs, the screening-to-probe  *)
(* and tempfail-retry planners that the complete endpoint runs, and the    *)
(* administrator's job buttons.                                            *)
(*                                                                         *)
(* How workers and the endpoints share a chunk row is ChunkLease's         *)
(* subject.  Here a chunk has at most one attempt at a time                *)
(* (ChunkLease!ExclusiveProcessing), whose worker always gets to report a  *)
(* failure, and the steps of the complete handler are separate actions.    *)
(*                                                                         *)
(* An email is either settled by a chunk's verification or to be verified  *)
(* again: by a probe chunk after screening, by a retry chunk after a       *)
(* temporary failure of a probe.                                           *)
(*                                                                         *)
(* A definition under a comment that begins with "Variant" belongs to no   *)
(* specification, as in ChunkLease.                                        *)
(***************************************************************************)
EXTENDS Integers, SequencesExt, FiniteSetsExt

CONSTANTS
  Email,            \* distinct normalized addresses of the uploaded list
  Cached,           \* those the cache store has an outcome for
  HardInvalid,      \* those screening always rejects (syntax, no MX)
  Flapping,         \* those screening rejects in one attempt, not in another
  Domain,           \* the routing bucket of each address
  ChunkSize,        \* engine.chunk_size_default
  MaxAttempts,      \* engine.max_attempts
  MaxProbeAttempts, \* engine.probe_max_attempts
  ProbeSettings,    \* values SmtpProbeStage::enabled() may have
  RetrySettings,    \* values engine.tempfail_retry_enabled may have
  CacheOnlySettings, \* values the engine's cache_only mode may have
  EarlyResults,     \* workers may finish a chunk before the parse is over
  Deaths,           \* where Prepare, complete or Finalize may be lost
  Administered,     \* an administrator may use the job's buttons
  MaxParses,        \* tries of ParseAndChunkJob
  FailingChunks     \* bound: the chunks an attempt at which may fail

ASSUME VerificationPipelineAssumption ==
  /\ IsFiniteSet(Email)
  /\ Cached \subseteq Email
  /\ HardInvalid \subseteq Email
  /\ Flapping \subseteq Email
  /\ ChunkSize \in Nat \ {0}
  /\ MaxAttempts \in Nat \ {0}
  /\ MaxProbeAttempts \in Nat \ {0}
  /\ MaxParses \in Nat \ {0}
  /\ ProbeSettings \subseteq BOOLEAN /\ ProbeSettings # {}
  /\ RetrySettings \subseteq BOOLEAN /\ RetrySettings # {}
  /\ CacheOnlySettings \subseteq BOOLEAN /\ CacheOnlySettings # {}
  /\ {EarlyResults, Administered} \subseteq BOOLEAN
  /\ Deaths \subseteq {"prepared", "probe_saved", "retry_created", "saved",
                        "finalizing"}
  /\ FailingChunks \subseteq Nat

VARIABLES
  job,        \* the verification_jobs row
  prepare,    \* is PrepareVerificationJob queued?
  parser,     \* ParseAndChunkJob
  chunks,     \* the job's rows of verification_job_chunks, oldest first
  output,     \* the result objects of each chunk
  request,    \* where the attempt at each chunk is
  queued,     \* FinalizeVerificationJobs in the queue
  finalizer   \* the one that runs: WithoutOverlapping

vars == <<job, prepare, parser, chunks, output, request, queued, finalizer>>

-----------------------------------------------------------------------------
JobStatus == {"pending", "processing", "completed", "failed"}
ChunkStatus == {"pending", "processing", "completed", "failed"}
RequestStep == {"none", "working", "complete", "handoff", "probe_saved",
                "retry_created", "saved"}

ChunkId == 1..Len(chunks)
CacheFile == 0      \* as a source of rows, the cached result files

\* no is chunk_no, retry is retry_attempt, parent is parent_chunk_id.
Chunk == [no : Nat, stage : {"screening", "smtp_probe"}, parent : Nat,
          retry : Nat, attempts : Nat, emails : SUBSET Email,
          status : ChunkStatus, filtered : BOOLEAN]
Output == [settled : SUBSET Email, again : SUBSET Email]

\* Variant: a status the table does not have.
NewChunkDraft(no, stage, parent, retry, emails) ==
  [no |-> no, stage |-> stage, parent |-> parent, retry |-> retry,
   attempts |-> 0, emails |-> emails, status |-> "draft",
   filtered |-> FALSE]

NewChunk(no, stage, parent, retry, emails) ==
  [no |-> no, stage |-> stage, parent |-> parent, retry |-> retry,
   attempts |-> 0, emails |-> emails, status |-> "pending",
   filtered |-> FALSE]

NoOutput == [settled |-> {}, again |-> {}]
NoRows == [e \in Email |-> {}]
\* An assumption: neither the cache nor its mode changes between two tries.
NewParse(tries, cacheOnly) ==
  [pc |-> "queued", cacheOnly |-> cacheOnly, todo |-> Email, open |-> {},
   hits |-> {}, no |-> 1, tries |-> tries]
NoFinalize == [pc |-> "idle", cached |-> {}, chunks |-> <<>>]

Init ==
  /\ job = [status |-> "pending", cached |-> {}, rows |-> NoRows]
  /\ prepare = TRUE
  /\ parser = [NewParse(0, FALSE) EXCEPT !.pc = "none"]
  /\ chunks = <<>>
  /\ output = <<>>
  /\ request = <<>>
  /\ queued = 0
  /\ finalizer = NoFinalize

-----------------------------------------------------------------------------
(* PrepareVerificationJob and ParseAndChunkJob. *)

Prepare ==
  /\ prepare
  /\ prepare' = FALSE
  /\ IF job.status = "pending"
     THEN /\ job' = [job EXCEPT !.status = "processing"]
          /\ \E cacheOnly \in CacheOnlySettings : parser' = NewParse(1, cacheOnly)
     ELSE UNCHANGED <<job, parser>>
  /\ UNCHANGED <<chunks, output, request, queued, finalizer>>

\* A worker that dies, or a timeout, before the parse was dispatched, be it
\* before or after the job was saved.  After a timeout, or in the last try, the
\* Prepare is lost; else it is delivered again, and a saved job finds itself done.
PrepareDies ==
  /\ "prepared" \in Deaths
  /\ prepare
  /\ job.status = "pending"
  /\ \/ job' = [job EXCEPT !.status = "processing"]
     \/ UNCHANGED job
  /\ prepare' \in BOOLEAN
  /\ UNCHANGED <<parser, chunks, output, request, queued, finalizer>>

ParseStarts ==
  /\ parser.pc = "queued"
  /\ parser' = [parser EXCEPT
                  !.pc = IF job.status = "processing" THEN "running" ELSE "done"]
  /\ UNCHANGED <<job, prepare, chunks, output, request, queued, finalizer>>

\* Inserts rows while the attempts are at the steps of `at'.
AddChunks(new, at) ==
  /\ chunks' = chunks \o new
  /\ output' = output \o [k \in DOMAIN new |-> NoOutput]
  /\ request' = at \o [k \in DOMAIN new |-> "none"]

\* finalizeChunk inserts the open chunk under the parser's own counter; the
\* table admits a chunk_no once per job, and the exception fails the job.
WriteChunk(emails, parsed) ==
  IF \E i \in ChunkId : chunks[i].no = parser.no
  THEN /\ job' = [job EXCEPT !.status = "failed"]
       /\ parser' = [parser EXCEPT !.pc = "done"]
       /\ UNCHANGED <<chunks, output, request>>
  ELSE /\ AddChunks(<<NewChunk(parser.no, "screening", 0, 0, emails)>>, request)
       /\ parser' = [parsed EXCEPT !.open = {}, !.no = @ + 1]
       /\ UNCHANGED job

ParseEmail(e) ==
  LET parsed == [parser EXCEPT !.todo = @ \ {e}]
      open == parser.open \cup {e} IN
  /\ parser.pc = "running"
  /\ e \in parser.todo
  /\ IF e \in Cached \/ parser.cacheOnly
     THEN /\ parser' = [parsed EXCEPT !.hits = @ \cup {e}]
          /\ UNCHANGED <<job, chunks, output, request>>
     ELSE IF Cardinality(open) >= ChunkSize
     THEN WriteChunk(open, parsed)
     ELSE /\ parser' = [parsed EXCEPT !.open = open]
          /\ UNCHANGED <<job, chunks, output, request>>
  /\ UNCHANGED <<prepare, queued, finalizer>>

ParseLastChunk ==
  /\ parser.pc = "running"
  /\ parser.todo = {}
  /\ parser.open # {}
  /\ WriteChunk(parser.open, parser)
  /\ UNCHANGED <<prepare, queued, finalizer>>

\* The cached rows become part of the job only here.
ParseEnds ==
  /\ parser.pc = "running"
  /\ parser.todo = {}
  /\ parser.open = {}
  /\ job' = [job EXCEPT !.cached = parser.hits]
  /\ parser' = [parser EXCEPT !.pc = "done"]
  /\ queued' = IF parser.cacheOnly /\ parser.no = 1 THEN queued + 1 ELSE queued
  /\ UNCHANGED <<prepare, chunks, output, request, finalizer>>

\* An unreadable upload, too many emails, a cache that is down.
ParseFails ==
  /\ parser.pc = "running"
  /\ job' = [job EXCEPT !.status = "failed"]
  /\ parser' = [parser EXCEPT !.pc = "done"]
  /\ UNCHANGED <<prepare, chunks, output, request, queued, finalizer>>

\* The queue worker dies, and the parse is delivered again if it has a try left.
\* A timeout (failOnTimeout) in any try and a death in the last one lose it for
\* good: there is no failed() hook, so the job's row does not learn of it.
ParseDies ==
  /\ parser.pc = "running"
  /\ \/ /\ parser.tries < MaxParses
        /\ parser' = NewParse(parser.tries + 1, parser.cacheOnly)
     \/ parser' = [parser EXCEPT !.pc = "lost"]
  /\ UNCHANGED <<job, prepare, chunks, output, request, queued, finalizer>>

-----------------------------------------------------------------------------
(* Workers. *)

\* A retry chunk is held back by available_at for minutes, in which the request
\* that created it ends.
Claimable(i) ==
  /\ chunks[i].status = "pending"
  /\ chunks[i].stage = "smtp_probe" =>
       /\ chunks[i].retry < MaxProbeAttempts
       /\ request[chunks[i].parent] # "retry_created"

Claim(i) ==
  /\ Claimable(i)
  /\ chunks' = [chunks EXCEPT ![i].status = "processing"]
  /\ request' = [request EXCEPT ![i] = "working"]
  /\ UNCHANGED <<job, prepare, parser, output, queued, finalizer>>

\* The emails of a chunk that one verification may leave to be verified again.
AgainSets(c) ==
  IF c.stage = "screening"
  THEN {c.emails \ (HardInvalid \cup rejected) : rejected \in SUBSET Flapping}
  ELSE SUBSET c.emails

\* No parse runs or will run again.
ParseOver == parser.pc \in {"done", "lost"}

Verify(i) ==
  /\ request[i] = "working"
  /\ EarlyResults \/ ParseOver
  /\ \E again \in AgainSets(chunks[i]) :
       output' = [output EXCEPT
         ![i] = [settled |-> chunks[i].emails \ again, again |-> again]]
  /\ request' = [request EXCEPT ![i] = "complete"]
  /\ UNCHANGED <<job, prepare, parser, chunks, queued, finalizer>>

\* The fail endpoint, called by the worker for its own errors and for every
\* error that complete answers before it has saved the row.
Fail(i) ==
  /\ i \in FailingChunks
  /\ request[i] \in {"working", "complete", "handoff"}
  /\ chunks' = [chunks EXCEPT
       ![i].attempts = @ + 1,
       ![i].status = IF chunks[i].attempts + 1 < MaxAttempts THEN "pending"
                     ELSE "failed"]
  /\ request' = [request EXCEPT ![i] = "none"]
  /\ UNCHANGED <<job, prepare, parser, output, queued, finalizer>>

-----------------------------------------------------------------------------
(* Complete for a screening chunk. *)

NextChunkNo == Max({chunks[i].no : i \in ChunkId} \cup {0}) + 1

\* One shard for each routing bucket.
Shards(emails) ==
  SetToSeq({{e \in emails : Domain[e] = d} : d \in {Domain[e] : e \in emails}})

ProbeChunks(i, emails) ==
  [k \in DOMAIN Shards(emails) |->
     NewChunk(NextChunkNo + k - 1, "smtp_probe", i, 0, Shards(emails)[k])]

\* Variant: probe chunks are created without a look at those that exist.
CreateProbeChunksAgain(i) ==
  /\ request[i] = "complete"
  /\ chunks[i].stage = "screening"
  /\ TRUE \in ProbeSettings
  /\ output[i].again # {}
  /\ AddChunks(ProbeChunks(i, output[i].again),
               [request EXCEPT ![i] = "handoff"])
  /\ UNCHANGED <<job, prepare, parser, queued, finalizer>>

\* createProbeChunks: one transaction with the job row locked.  An earlier
\* attempt at the same chunk may have got here before.
CreateProbeChunks(i) ==
  /\ request[i] = "complete"
  /\ chunks[i].stage = "screening"
  /\ TRUE \in ProbeSettings
  /\ output[i].again # {}
  /\ IF \E k \in ChunkId : chunks[k].parent = i
     THEN /\ request' = [request EXCEPT ![i] = "handoff"]
          /\ UNCHANGED <<chunks, output>>
     ELSE AddChunks(ProbeChunks(i, output[i].again),
                    [request EXCEPT ![i] = "handoff"])
  /\ UNCHANGED <<job, prepare, parser, queued, finalizer>>

\* rewriteScreeningOutputs, then the row.
SaveHandoff(i) ==
  /\ request[i] = "handoff"
  /\ output' = [output EXCEPT ![i].again = {}]
  /\ chunks' = [chunks EXCEPT ![i].status = "completed"]
  /\ request' = [request EXCEPT ![i] = "saved"]
  /\ UNCHANGED <<job, prepare, parser, queued, finalizer>>

\* Probing is switched off, or there is nothing to probe.
SaveScreening(i) ==
  /\ request[i] = "complete"
  /\ chunks[i].stage = "screening"
  /\ FALSE \in ProbeSettings \/ output[i].again = {}
  /\ chunks' = [chunks EXCEPT ![i].status = "completed"]
  /\ request' = [request EXCEPT ![i] = "saved"]
  /\ UNCHANGED <<job, prepare, parser, output, queued, finalizer>>

-----------------------------------------------------------------------------
(* Complete for a probe chunk. *)

SaveProbe(i) ==
  /\ request[i] = "complete"
  /\ chunks[i].stage = "smtp_probe"
  /\ chunks' = [chunks EXCEPT ![i].status = "completed"]
  /\ request' = [request EXCEPT ![i] = "probe_saved"]
  /\ UNCHANGED <<job, prepare, parser, output, queued, finalizer>>

\* max_probe_attempts is compared with the parent's attempt.
Retryable(i) == chunks[i].retry < MaxProbeAttempts /\ output[i].again # {}

PlanRetry(i) ==
  /\ request[i] = "probe_saved"
  /\ \/ /\ TRUE \in RetrySettings
        /\ Retryable(i)
        /\ AddChunks(<<NewChunk(NextChunkNo, "smtp_probe", i,
                                chunks[i].retry + 1, output[i].again)>>,
                     [request EXCEPT ![i] = "retry_created"])
     \/ /\ FALSE \in RetrySettings \/ ~Retryable(i)
        /\ request' = [request EXCEPT ![i] = "saved"]
        /\ UNCHANGED <<chunks, output>>
  /\ UNCHANGED <<job, prepare, parser, queued, finalizer>>

\* Variant: the row still names the risky file with the rows to be retried.
FilterRiskyForgotten(i) ==
  /\ request[i] = "retry_created"
  /\ request' = [request EXCEPT ![i] = "saved"]
  /\ UNCHANGED <<job, prepare, parser, chunks, output, queued, finalizer>>

\* Points the row at the risky file without the rows to be retried.
FilterRisky(i) ==
  /\ request[i] = "retry_created"
  /\ chunks' = [chunks EXCEPT ![i].filtered = TRUE]
  /\ request' = [request EXCEPT ![i] = "saved"]
  /\ UNCHANGED <<job, prepare, parser, output, queued, finalizer>>

\* Variant: only probe chunks ask for a finalization.
DispatchFinalizeForProbes(i) ==
  /\ request[i] = "saved"
  /\ request' = [request EXCEPT ![i] = "none"]
  /\ queued' = IF chunks[i].stage = "smtp_probe" THEN queued + 1 ELSE queued
  /\ UNCHANGED <<job, prepare, parser, chunks, output, finalizer>>

\* The end of complete for every chunk.
DispatchFinalize(i) ==
  /\ request[i] = "saved"
  /\ request' = [request EXCEPT ![i] = "none"]
  /\ queued' = queued + 1
  /\ UNCHANGED <<job, prepare, parser, chunks, output, finalizer>>

\* The request dies after the row was saved.  The worker reports a failure of a
\* chunk that is completed, which fail ignores.
CompleteDies(i) ==
  /\ request[i] \in Deaths
  /\ request' = [request EXCEPT ![i] = "none"]
  /\ UNCHANGED <<job, prepare, parser, chunks, output, queued, finalizer>>

-----------------------------------------------------------------------------
(* FinalizeVerificationJob. *)

\* Variant: probe chunks are not waited for.
AllScreened(rows) ==
  \A i \in DOMAIN rows :
    rows[i].stage = "screening" => rows[i].status = "completed"

AllCompleted(rows) == \A i \in DOMAIN rows : rows[i].status = "completed"
SomeFailed(rows) == \E i \in DOMAIN rows : rows[i].status = "failed"

FinalizeStarts ==
  /\ queued > 0
  /\ finalizer.pc = "idle"
  /\ queued' = queued - 1
  /\ finalizer' =
       IF /\ chunks # <<>> \/ job.cached # {}
          /\ job.status \notin {"completed", "failed"}
          /\ SomeFailed(chunks) \/ AllCompleted(chunks)
       THEN [pc |-> "loaded", cached |-> job.cached, chunks |-> chunks]
       ELSE NoFinalize
  /\ UNCHANGED <<job, prepare, parser, chunks, output, request>>

\* A failed chunk, a missing object or an exception during the merge.
FinalizeFails ==
  /\ finalizer.pc = "loaded"
  /\ job' = [job EXCEPT !.status = "failed"]
  /\ finalizer' = NoFinalize
  /\ UNCHANGED <<prepare, parser, chunks, output, request, queued>>

\* Variant: the keys are looked up again instead of taken from the loaded rows.
MergedRowsReloaded(e) ==
  {i \in DOMAIN finalizer.chunks :
     \/ e \in output[i].settled
     \/ e \in output[i].again /\ ~chunks[i].filtered}
  \cup {i \in {CacheFile} : e \in finalizer.cached}

\* The rows of e in the merged files, by where they come from: the objects are
\* read now, at the keys of the rows that were loaded.
MergedRows(e) ==
  {i \in DOMAIN finalizer.chunks :
     \/ e \in output[i].settled
     \/ e \in output[i].again /\ ~finalizer.chunks[i].filtered}
  \cup {i \in {CacheFile} : e \in finalizer.cached}

FinalizeSaves ==
  /\ finalizer.pc = "loaded"
  /\ ~SomeFailed(finalizer.chunks)
  /\ job' = [job EXCEPT !.status = "completed",
                        !.rows = [e \in Email |-> MergedRows(e)]]
  /\ finalizer' = NoFinalize
  /\ UNCHANGED <<prepare, parser, chunks, output, request, queued>>

\* The worker dies or times out, without a failed() hook.  It leaves the lock of
\* WithoutOverlapping behind: the finalization may be delivered again, and it and
\* those behind it may as well use up their tries before the lock expires.
FinalizeDies ==
  /\ "finalizing" \in Deaths
  /\ finalizer.pc = "loaded"
  /\ finalizer' = NoFinalize
  /\ queued' \in 0..(queued + 1)
  /\ UNCHANGED <<job, prepare, parser, chunks, output, request>>

\* While one finalization merges, WithoutOverlapping releases the next every 30
\* seconds, which uses up its tries.
FinalizeReleased ==
  /\ finalizer.pc = "loaded"
  /\ queued > 0
  /\ queued' = queued - 1
  /\ UNCHANGED <<job, prepare, parser, chunks, output, request, finalizer>>

-----------------------------------------------------------------------------
(* The administrator. *)

AdminFailsJob ==
  /\ Administered
  /\ job.status # "failed"
  /\ job' = [job EXCEPT !.status = "failed"]
  /\ UNCHANGED <<prepare, parser, chunks, output, request, queued, finalizer>>

AdminFinalizes ==
  /\ Administered
  /\ job.status = "processing"
  /\ AllCompleted(chunks)
  /\ queued = 0
  /\ queued' = 1
  /\ UNCHANGED <<job, prepare, parser, chunks, output, request, finalizer>>

-----------------------------------------------------------------------------
Parse ==
  \/ ParseStarts \/ (\E e \in Email : ParseEmail(e))
  \/ ParseLastChunk \/ ParseEnds

Complete(i) ==
  \/ CreateProbeChunks(i) \/ SaveHandoff(i) \/ SaveScreening(i)
  \/ SaveProbe(i) \/ PlanRetry(i) \/ FilterRisky(i) \/ DispatchFinalize(i)

Finalize == FinalizeStarts \/ FinalizeSaves \/ FinalizeFails

Trouble ==
  \/ PrepareDies \/ ParseFails \/ ParseDies \/ FinalizeDies \/ FinalizeReleased
  \/ \E i \in ChunkId : Fail(i) \/ CompleteDies(i)

Next ==
  \/ Prepare \/ Parse \/ Finalize
  \/ \E i \in ChunkId : Claim(i) \/ Verify(i) \/ Complete(i)
  \/ Trouble
  \/ AdminFailsJob \/ AdminFinalizes

Spec == Init /\ [][Next]_vars

-----------------------------------------------------------------------------
(* Fairness: queue workers take what is queued, engines poll claim-next and  *)
(* finish what they claim, and a complete request that has begun ends.       *)

MaxChunks == Cardinality(Email) * (2 + MaxProbeAttempts)

Fairness ==
  /\ WF_vars(Prepare)
  /\ WF_vars(Parse)
  /\ WF_vars(Finalize)
  /\ \A i \in 1..MaxChunks :
       /\ WF_vars(i \in ChunkId /\ Claim(i))
       /\ WF_vars(i \in ChunkId /\ Verify(i))
       /\ WF_vars(i \in ChunkId /\ Complete(i))

FairSpec == Spec /\ Fairness

-----------------------------------------------------------------------------
(* Properties. *)

TypeOK ==
  /\ job \in [status : JobStatus, cached : SUBSET Email,
              rows : [Email -> SUBSET (ChunkId \cup {CacheFile})]]
  /\ prepare \in BOOLEAN
  /\ parser \in [pc : {"none", "queued", "running", "done", "lost"},
                 cacheOnly : BOOLEAN, todo : SUBSET Email, open : SUBSET Email,
                 hits : SUBSET Email, no : Nat, tries : Nat]
  /\ chunks \in Seq(Chunk)
  /\ output \in Seq(Output)
  /\ request \in Seq(RequestStep)
  /\ Len(chunks) <= MaxChunks
  /\ Len(output) = Len(chunks) /\ Len(request) = Len(chunks)
  /\ queued \in Nat
  /\ finalizer.pc \in {"idle", "loaded"}
  /\ finalizer.cached \subseteq Email
  /\ finalizer.chunks \in Seq(Chunk)

\* The result files of a completed job hold exactly one row for every email of
\* the upload, although its rows come from the cache, from screening, from
\* probes and from retries, whose chunks are created while others complete.
\* If the parse was lost for good, the chunks it had written still complete the
\* job: the emails it had not got to are missing, and no email is there twice.
DeliveredOnce ==
  job.status = "completed" =>
    \A e \in Email :
      \/ Cardinality(job.rows[e]) = 1
      \/ parser.pc = "lost" /\ job.rows[e] = {}

\* What the merge would take from chunk i, or what remains to be verified in
\* it apart from what a chunk created from it has taken over.
Keeps(i) ==
  IF chunks[i].status = "completed" /\ request[i] # "retry_created"
  THEN output[i].settled \cup (IF chunks[i].filtered THEN {} ELSE output[i].again)
  ELSE chunks[i].emails
         \ UNION {chunks[k].emails : k \in {m \in ChunkId : chunks[m].parent = i}}

\* The chunks and the cache that answer for e.
Owners(e) == {i \in ChunkId : e \in Keeps(i)}
             \cup {i \in {CacheFile} : e \in job.cached}

\* At every moment between parsing and finalization each email is the business
\* of exactly one chunk or of the cache: creating probe and retry chunks,
\* rewriting and filtering the parent's files, failing and verifying again
\* neither drop nor duplicate it.  Nobody has what a lost parse did not write.
OneOwner ==
  job.status = "processing" /\ ParseOver =>
    \A e \in Email :
      \/ Cardinality(Owners(e)) = 1
      \/ parser.pc = "lost" /\ Owners(e) = {}

\* A job that waits for no chunk any more is about to be finalized: the request
\* that completed the last chunk, or the parse that found every email in the
\* cache, has asked for it or will, and no finalization that came too early has
\* used this one up.  Only a request or a finalization that dies can break it.
FinalizationComes ==
  /\ job.status = "processing"
  /\ AllCompleted(chunks)
  /\ chunks # <<>> \/ (parser.pc = "done" /\ parser.cacheOnly /\ job.cached # {})
  => \/ queued > 0
     \/ finalizer.pc = "loaded"
     \/ \E i \in ChunkId : request[i] \in {"probe_saved", "retry_created", "saved"}

Contract == INSTANCE JobContract WITH
  status <- job.status,
  lost <- parser.pc = "lost",
  rows <- [e \in Email |-> Cardinality(job.rows[e])]

\* Without the administrator a job keeps the contract: it is settled once, and
\* no finalization, parse or request that comes late changes it afterwards.  Its
\* files are complete unless the parse was lost before.
JobKeepsContract == Contract!Spec

\* How a job can be left unsettled for ever although the engines finish what
\* they claim and no complete request or finalization dies: a chunk that failed
\* for good as the last to settle (fail dispatches no FinalizeVerificationJob,
\* which alone would notice), a retry chunk that claim-next never hands out
\* because its retry_attempt has reached max_probe_attempts, a job whose every
\* email was cached, a parse lost for good before it wrote a chunk, and a Prepare
\* lost before it dispatched the parse, with the job pending or in processing.
Stalled ==
  \/ SomeFailed(chunks)
  \/ \E i \in ChunkId : /\ chunks[i].status = "pending"
                        /\ chunks[i].stage = "smtp_probe"
                        /\ chunks[i].retry >= MaxProbeAttempts
  \/ /\ chunks = <<>>
     /\ ParseOver
     /\ parser.pc = "done" => ~parser.cacheOnly
  \/ parser.pc = "none" /\ (job.status = "processing" \/ ~prepare)

\* Apart from those, and from a chunk whose worker never reports and a complete
\* request or finalization that dies, every job is finalized or fails, also after
\* a parse that is lost with chunks written: the last chunk to complete always
\* leaves a finalization in the queue that sees them all completed, whatever
\* order the requests and finalizations run in.
EventuallyFinal == <>(job.status \in {"completed", "failed"} \/ Stalled)

=============================================================================
