----------------------- MODULE PipelineDeliveryProofs -----------------------
(***************************************************************************)
(* That a completed job delivers one row for every email (DeliveredOnce),  *)
(* and that without the administrator a job keeps JobContract, for every   *)
(* value of the constants that Orderly admits.                             *)
(***************************************************************************)
EXTENDS PipelineOwnerProofs

\* Delivery assumes in addition that no chunk is finished before the parse is
\* over: a finalization that starts earlier merges a part of the list.
Orderly == Steady /\ ~EarlyResults

-----------------------------------------------------------------------------
(* The invariant. *)

\* Before the parse is over nothing is completed.
Patient ==
  ~ParseOver => \A i \in ChunkId : /\ request[i] \in {"none", "working"}
                                    /\ chunks[i].status # "completed"

\* The rows of an email in result files that leave out only what was lost.
Fits(rows) ==
  \/ \E i : rows = {i}
  \/ parser.pc = "lost" /\ rows = {}

\* What a finalization would merge was settled when it loaded the rows.
Snapshot ==
  finalizer.pc = "loaded" /\ ~SomeFailed(finalizer.chunks) =>
    /\ \A i \in DOMAIN finalizer.chunks : chunks[i].status = "completed"
    /\ \A e \in Email : Fits(MergedRows(e))

Delivered ==
  job.status = "completed" => \A e \in Email : Fits(job.rows[e])

DeliveryInv == Patient /\ Snapshot /\ Delivered

\* Without the administrator: no finalization is under way in a job that is
\* completed, and one that can save its result finds the job in processing.
Undecided ==
  /\ job.status = "completed" => ParseOver
  /\ finalizer.pc = "loaded" => job.status \in {"processing", "failed"}
  /\ finalizer.pc = "loaded" /\ ~SomeFailed(finalizer.chunks) =>
       ParseOver /\ job.status = "processing"

-----------------------------------------------------------------------------
(* The steps that leave the finalizer alone.                                 *)

\* A snapshot lasts as long as completed chunks keep their status and objects.
LEMMA SnapshotLasts ==
  ASSUME Shape, Snapshot, UNCHANGED finalizer, ParseOver => parser' = parser,
         \A i \in ChunkId : chunks[i].status = "completed" =>
           chunks'[i].status = "completed" /\ output'[i] = output[i]
  PROVE  Snapshot'
<1>1. DOMAIN finalizer.chunks \subseteq ChunkId
  BY DEF Shape, ChunkId
<1>2. CASE finalizer.pc = "loaded" /\ ~SomeFailed(finalizer.chunks)
  <2>1. /\ \A i \in DOMAIN finalizer.chunks :
             chunks[i].status = "completed"
        /\ \A e \in Email : Fits(MergedRows(e))
    BY <1>2 DEF Snapshot
  <2>2. \A i \in DOMAIN finalizer.chunks :
          chunks'[i].status = "completed" /\ output'[i] = output[i]
    BY <1>1, <2>1
  <2>3. \A e \in Email : MergedRows(e)' = MergedRows(e)
    BY <2>2 DEF MergedRows
  <2>4. \A e \in Email : Fits(MergedRows(e))'
    BY <2>1, <2>3 DEF Fits, ParseOver
  <2>5. QED
    BY <2>1, <2>2, <2>4 DEF Snapshot
<1>3. CASE ~(finalizer.pc = "loaded" /\ ~SomeFailed(finalizer.chunks))
  <2>1. SomeFailed(finalizer.chunks)' <=> SomeFailed(finalizer.chunks)
    BY DEF SomeFailed
  <2>2. QED
    BY <1>3, <2>1 DEF Snapshot
<1>4. QED
  BY <1>2, <1>3

LEMMA MoveDelivery ==
  ASSUME PipelineInv, DeliveryInv, NEW i \in ChunkId, NEW row, NEW out, NEW step,
         Moves(i, row, out, step),
         chunks[i].status = "completed" => row.status = "completed" /\ out = output[i],
         ~ParseOver => step \in {"none", "working"} /\ row.status # "completed"
  PROVE  DeliveryInv'
<1>1. Shape /\ ChunkId' = ChunkId
  BY DEF PipelineInv, Moves, ChunkId
<1>2. \A j \in ChunkId : chunks[j].status = "completed" =>
        chunks'[j].status = "completed" /\ output'[j] = output[j]
  BY DEF Moves
<1>3. Snapshot'
  BY <1>1, <1>2, SnapshotLasts DEF Moves, DeliveryInv
<1>4. Patient'
  BY <1>1 DEF Patient, ParseOver, Moves, DeliveryInv
<1>5. Delivered'
  BY DEF Delivered, Fits, Moves, DeliveryInv
<1>6. QED
  BY <1>3, <1>4, <1>5 DEF DeliveryInv

LEMMA AddDelivery ==
  ASSUME PipelineInv, DeliveryInv, NEW new \in Seq(Chunk), NEW at \in Seq(RequestStep),
         Len(at) = Len(chunks), AddChunks(new, at),
         \A k \in DOMAIN new : new[k].status = "pending",
         ~ParseOver => \A j \in ChunkId : at[j] \in {"none", "working"},
         ParseOver => parser' = parser,
         UNCHANGED <<job, finalizer>>
  PROVE  DeliveryInv'
<1>1. Shape
  BY DEF PipelineInv
<1>2. /\ \A j \in ChunkId : /\ chunks'[j] = chunks[j]
                            /\ output'[j] = output[j]
                            /\ request'[j] = at[j]
      /\ \A j \in ChunkId' \ ChunkId :
           /\ j - Len(chunks) \in DOMAIN new
           /\ chunks'[j] = new[j - Len(chunks)]
           /\ request'[j] = "none"
  BY <1>1, ChunksAdded
<1>3. Snapshot'
  BY <1>1, <1>2, SnapshotLasts DEF DeliveryInv
<1>4. Patient'
  <2>1. SUFFICES ASSUME ~ParseOver', NEW j \in ChunkId'
                 PROVE  /\ request'[j] \in {"none", "working"}
                        /\ chunks'[j].status # "completed"
    BY DEF Patient
  <2>2. CASE j \in ChunkId
    BY <1>2, <2>1, <2>2 DEF Patient, ParseOver, DeliveryInv
  <2>3. CASE j \notin ChunkId
    BY <1>2, <2>3
  <2>4. QED
    BY <2>2, <2>3
<1>5. Delivered'
  <2>1. SUFFICES ASSUME job'.status = "completed", NEW e \in Email
                 PROVE  Fits(job.rows[e])'
    BY DEF Delivered
  <2>2. Fits(job.rows[e])
    BY <2>1 DEF Delivered, DeliveryInv
  <2>3. QED
    BY <2>2 DEF Fits, ParseOver
<1>6. QED
  BY <1>3, <1>4, <1>5 DEF DeliveryInv

LEMMA RowsDelivery ==
  ASSUME PipelineInv, DeliveryInv, UNCHANGED <<chunks, output, request, finalizer>>,
         ParseOver => parser' = parser,
         job'.status = "completed" => job.status = "completed" /\ job'.rows = job.rows
  PROVE  DeliveryInv'
<1>1. Shape /\ ChunkId' = ChunkId
  BY DEF PipelineInv, ChunkId
<1>2. Snapshot'
  BY <1>1, SnapshotLasts DEF DeliveryInv
<1>3. Patient'
  BY <1>1 DEF Patient, ParseOver, DeliveryInv
<1>4. Delivered'
  <2>1. SUFFICES ASSUME job'.status = "completed", NEW e \in Email
                 PROVE  Fits(job.rows[e])'
    BY DEF Delivered
  <2>2. Fits(job.rows[e]) /\ job'.rows = job.rows
    BY <2>1 DEF Delivered, DeliveryInv
  <2>3. QED
    BY <2>2 DEF Fits, ParseOver
<1>5. QED
  BY <1>2, <1>3, <1>4 DEF DeliveryInv

-----------------------------------------------------------------------------
(* The steps of workers and of complete.                                     *)

\* Without early results the parse is over when an attempt reports.
LEMMA ReportsAreLate ==
  ASSUME DeliveryInv, NEW i \in ChunkId, request[i] \notin {"none", "working"}
  PROVE  ParseOver
BY DEF DeliveryInv, Patient

LEMMA WorkerDelivery ==
  ASSUME Orderly, PipelineInv, DeliveryInv, NEW i \in ChunkId,
         Claim(i) \/ Verify(i) \/ Fail(i)
  PROVE  DeliveryInv'
<1>1. Shape /\ InStep(i) /\ chunks[i] \in Chunk
  BY Entries DEF PipelineInv
<1>2. CASE Claim(i)
  <2> DEFINE row == [chunks[i] EXCEPT !.status = "processing"]
  <2>1. Moves(i, row, output[i], "working")
    BY <1>1, <1>2, ClaimMoves
  <2>2. row.status = "processing" /\ chunks[i].status = "pending"
    BY <1>1, <1>2 DEF Chunk, Claim, Claimable
  <2> HIDE DEF row
  <2>3. QED
    BY <2>1, <2>2, MoveDelivery
<1>3. CASE Verify(i)
  <2>1. PICK again \in AgainSets(chunks[i]) :
          Moves(i, chunks[i],
                [settled |-> chunks[i].emails \ again, again |-> again], "complete")
    BY <1>1, <1>3, VerifyMoves
  <2>2. chunks[i].status = "processing" /\ ParseOver
    BY <1>1, <1>3 DEF Verify, InStep, Orderly
  <2>3. QED
    BY <2>1, <2>2, MoveDelivery
<1>4. CASE Fail(i)
  <2> DEFINE row == [chunks[i] EXCEPT
                       !.attempts = @ + 1,
                       !.status = IF chunks[i].attempts + 1 < MaxAttempts THEN "pending"
                                  ELSE "failed"]
  <2>1. Moves(i, row, output[i], "none")
    BY <1>1, <1>4, FailMoves
  <2>2. row.status \in {"pending", "failed"} /\ chunks[i].status = "processing"
    BY <1>1, <1>4 DEF Chunk, Fail, InStep
  <2> HIDE DEF row
  <2>3. QED
    BY <2>1, <2>2, MoveDelivery
<1>5. QED
  BY <1>2, <1>3, <1>4

LEMMA SaveDelivery ==
  ASSUME PipelineInv, DeliveryInv, NEW i \in ChunkId,
         SaveHandoff(i) \/ SaveScreening(i) \/ SaveProbe(i)
  PROVE  DeliveryInv'
<1>1. Shape /\ InStep(i)
  BY DEF PipelineInv
<1>2. chunks[i].status = "processing"
  BY <1>1 DEF InStep, SaveHandoff, SaveScreening, SaveProbe
<1>3. ParseOver
  BY ReportsAreLate DEF SaveHandoff, SaveScreening, SaveProbe
<1>4. \E row, out, step : Moves(i, row, out, step)
  BY <1>1, SaveMoves
<1>5. QED
  BY <1>2, <1>3, <1>4, MoveDelivery

LEMMA RequestDelivery ==
  ASSUME PipelineInv, DeliveryInv, NEW i \in ChunkId, NEW step \in RequestStep,
         request' = [request EXCEPT ![i] = step],
         UNCHANGED <<chunks, output, job, prepare, parser, finalizer>>,
         request[i] \notin {"none", "working"}
  PROVE  DeliveryInv'
<1>1. Moves(i, chunks[i], output[i], step)
  BY RequestOnly DEF PipelineInv
<1>2. ParseOver
  BY ReportsAreLate
<1>3. QED
  BY <1>1, <1>2, MoveDelivery

LEMMA EndDelivery ==
  ASSUME PipelineInv, DeliveryInv, NEW i \in ChunkId,
         FilterRisky(i) \/ DispatchFinalize(i) \/ CompleteDies(i)
  PROVE  DeliveryInv'
<1>1. Shape /\ chunks[i] \in Chunk /\ "none" \in RequestStep
  BY Entries DEF PipelineInv, RequestStep
<1>2. CASE FilterRisky(i)
  <2> DEFINE row == [chunks[i] EXCEPT !.filtered = TRUE]
  <2>1. Moves(i, row, output[i], "saved")
    BY <1>1, <1>2, FilterRiskyMoves
  <2>2. row.status = chunks[i].status
    BY <1>1 DEF Chunk
  <2>3. ParseOver
    BY <1>2, ReportsAreLate DEF FilterRisky
  <2> HIDE DEF row
  <2>4. QED
    BY <2>1, <2>2, <2>3, MoveDelivery
<1>3. CASE DispatchFinalize(i) \/ CompleteDies(i)
  <2>1. /\ request' = [request EXCEPT ![i] = "none"]
        /\ UNCHANGED <<chunks, output, job, prepare, parser, finalizer>>
    BY <1>3 DEF DispatchFinalize, CompleteDies
  <2>2. request[i] \notin {"none", "working"}
    <3>1. CASE DispatchFinalize(i)
      BY <3>1 DEF DispatchFinalize
    <3>2. CASE CompleteDies(i)
      <4>1. request[i] \in Deaths
        BY <3>2 DEF CompleteDies
      <4>2. request[i] \in {"prepared", "probe_saved", "retry_created", "saved",
                             "finalizing"}
        BY <4>1, VerificationPipelineAssumption
      <4>3. QED
        BY <4>2
    <3>3. QED
      BY <1>3, <3>1, <3>2
  <2>3. QED
    BY <1>1, <2>1, <2>2, RequestDelivery
<1>4. QED
  BY <1>2, <1>3

LEMMA PlannerDelivery ==
  ASSUME PipelineInv, DeliveryInv, NEW i \in ChunkId,
         CreateProbeChunks(i) \/ PlanRetry(i)
  PROVE  DeliveryInv'
<1>1. /\ Shape /\ InStep(i)
      /\ {"handoff", "retry_created", "saved"} \subseteq RequestStep
  BY DEF PipelineInv, RequestStep
<1>2. /\ ParseOver /\ request[i] \in {"complete", "probe_saved"}
      /\ UNCHANGED <<job, prepare, parser, finalizer>>
  BY ReportsAreLate DEF CreateProbeChunks, PlanRetry
<1>3. \A step \in RequestStep :
        /\ [request EXCEPT ![i] = step] \in Seq(RequestStep)
        /\ Len([request EXCEPT ![i] = step]) = Len(chunks)
  BY <1>1 DEF Shape, ChunkId
<1>4. CASE UNCHANGED <<chunks, output>>
           /\ \E step \in RequestStep : request' = [request EXCEPT ![i] = step]
  <2>1. PICK step \in RequestStep : request' = [request EXCEPT ![i] = step]
    BY <1>4
  <2>2. QED
    BY <1>2, <1>4, <2>1, RequestDelivery
<1>5. ASSUME NEW new \in Seq(Chunk), NEW step \in RequestStep,
             AddChunks(new, [request EXCEPT ![i] = step]),
             \A k \in DOMAIN new : new[k].status = "pending"
      PROVE  DeliveryInv'
  <2> DEFINE at == [request EXCEPT ![i] = step]
  <2>1. at \in Seq(RequestStep) /\ Len(at) = Len(chunks) /\ AddChunks(new, at)
    BY <1>3, <1>5
  <2> HIDE DEF at
  <2>2. QED
    BY <1>2, <1>5, <2>1, AddDelivery
<1>6. CASE CreateProbeChunks(i)
  <2>1. (\E k \in ChunkId : chunks[k].parent = i) <=> Kids(i) # {}
    BY DEF Kids
  <2>2. CASE Kids(i) # {}
    BY <1>1, <1>4, <1>6, <2>1, <2>2 DEF CreateProbeChunks
  <2>3. CASE Kids(i) = {}
    <3> DEFINE new == ProbeChunks(i, output[i].again)
    <3>1. /\ new \in Seq(Chunk)
          /\ \A k \in DOMAIN new : new[k].status = "pending"
      BY <1>6, <2>3, ProbesGrow DEF CreateProbeChunks
    <3>2. AddChunks(new, [request EXCEPT ![i] = "handoff"])
      BY <1>6, <2>1, <2>3 DEF CreateProbeChunks
    <3> HIDE DEF new
    <3>3. QED
      BY <1>1, <1>5, <3>1, <3>2
  <2>4. QED
    BY <2>2, <2>3
<1>7. CASE PlanRetry(i)
  <2>1. chunks[i].stage = "smtp_probe" /\ Kids(i) = {}
    BY <1>1, <1>7 DEF PlanRetry, InStep
  <2> DEFINE row == NewChunk(NextChunkNo, "smtp_probe", i,
                             chunks[i].retry + 1, output[i].again)
             new == <<row>>
  <2>2. CASE Retryable(i) /\ AddChunks(new, [request EXCEPT ![i] = "retry_created"])
    <3>1. row \in Chunk /\ row.status = "pending"
      BY <2>1, <2>2, RetryGrows
    <3> HIDE DEF row
    <3>2. new \in Seq(Chunk) /\ \A k \in DOMAIN new : new[k].status = "pending"
      BY <3>1, OneRow
    <3> HIDE DEF new
    <3>3. QED
      BY <1>1, <1>5, <2>2, <3>2
  <2>3. CASE request' = [request EXCEPT ![i] = "saved"] /\ UNCHANGED <<chunks, output>>
    BY <1>1, <1>4, <2>3
  <2>4. QED
    BY <1>7, <2>2, <2>3 DEF PlanRetry
<1>8. QED
  BY <1>6, <1>7

-----------------------------------------------------------------------------
(* The steps of the queue jobs.                                              *)

LEMMA ParserDelivery ==
  ASSUME PipelineInv, DeliveryInv,
         \/ Prepare \/ PrepareDies
         \/ ParseStarts \/ ParseEnds \/ ParseFails \/ ParseDies
  PROVE  DeliveryInv'
<1>1. Shape /\ ParseInv
  BY DEF PipelineInv
<1>2. UNCHANGED <<chunks, output, request, finalizer>>
  BY DEF Prepare, PrepareDies, ParseStarts, ParseEnds, ParseFails, ParseDies
<1>3. ParseOver => parser' = parser
  <2>1. CASE Prepare \/ PrepareDies
    <3>1. job.status = "pending" => ~ParseOver
      BY <1>1 DEF ParseInv, ParseOver
    <3>2. job.status # "pending" => parser' = parser
      BY <2>1 DEF Prepare, PrepareDies
    <3>3. QED
      BY <3>1, <3>2
  <2>2. CASE ParseStarts \/ ParseEnds \/ ParseFails \/ ParseDies
    BY <2>2 DEF ParseStarts, ParseEnds, ParseFails, ParseDies, ParseOver
  <2>3. QED
    BY <2>1, <2>2
<1>4. job'.status = "completed" => job.status = "completed" /\ job'.rows = job.rows
  <2>1. \/ job' = job
        \/ job' = [job EXCEPT !.status = "processing"]
        \/ job' = [job EXCEPT !.status = "failed"]
        \/ job' = [job EXCEPT !.cached = parser.hits]
    BY DEF Prepare, PrepareDies, ParseStarts, ParseEnds, ParseFails, ParseDies
  <2>2. QED
    BY <1>1, <2>1 DEF Shape
<1>5. QED
  BY <1>2, <1>3, <1>4, RowsDelivery

LEMMA WriteChunkDelivery ==
  ASSUME PipelineInv, DeliveryInv, parser.pc = "running",
         NEW emails \in SUBSET Email, NEW parsed,
         WriteChunk(emails, parsed), UNCHANGED <<prepare, queued, finalizer>>
  PROVE  DeliveryInv'
<1>1. Shape /\ ParseInv /\ ~ParseOver
  BY DEF PipelineInv, ParseOver
<1>2. CASE \E i \in ChunkId : chunks[i].no = parser.no
  <2>1. UNCHANGED <<chunks, output, request>> /\ job' = [job EXCEPT !.status = "failed"]
    BY <1>2 DEF WriteChunk
  <2>2. job'.status = "failed"
    BY <1>1, <2>1 DEF Shape
  <2>3. QED
    BY <1>1, <2>1, <2>2, RowsDelivery
<1>3. CASE ~\E i \in ChunkId : chunks[i].no = parser.no
  <2> DEFINE row == NewChunk(parser.no, "screening", 0, 0, emails)
             new == <<row>>
  <2>1. AddChunks(new, request) /\ job' = job
    BY <1>3 DEF WriteChunk
  <2>2. row \in Chunk /\ row.status = "pending"
    <3>1. parser.no \in Nat /\ 0 \in Nat /\ "screening" \in {"screening", "smtp_probe"}
      BY <1>1 DEF Shape
    <3>2. QED
      BY <3>1, NewChunkIsChunk
  <2> HIDE DEF row
  <2>3. new \in Seq(Chunk) /\ \A k \in DOMAIN new : new[k].status = "pending"
    BY <2>2, OneRow
  <2> HIDE DEF new
  <2>4. request \in Seq(RequestStep) /\ Len(request) = Len(chunks)
    BY <1>1 DEF Shape
  <2>5. \A j \in ChunkId : request[j] \in {"none", "working"}
    BY <1>1 DEF DeliveryInv, Patient
  <2>6. QED
    BY <1>1, <2>1, <2>3, <2>4, <2>5, AddDelivery
<1>4. QED
  BY <1>2, <1>3

LEMMA ParseDelivery ==
  ASSUME PipelineInv, DeliveryInv, ParseLastChunk \/ \E e \in Email : ParseEmail(e)
  PROVE  DeliveryInv'
<1>1. Shape
  BY DEF PipelineInv
<1>2. /\ parser.pc = "running" /\ ~ParseOver
      /\ UNCHANGED <<prepare, queued, finalizer>>
  BY DEF ParseLastChunk, ParseEmail, ParseOver
<1>3. CASE ParseLastChunk
  <2>1. parser.open \in SUBSET Email /\ WriteChunk(parser.open, parser)
    BY <1>1, <1>3 DEF Shape, ParseLastChunk
  <2>2. QED
    BY <1>2, <2>1, WriteChunkDelivery
<1>4. ASSUME NEW e \in Email, ParseEmail(e)
      PROVE  DeliveryInv'
  <2> DEFINE parsed == [parser EXCEPT !.todo = @ \ {e}]
             open == parser.open \cup {e}
  <2>1. \/ UNCHANGED <<job, chunks, output, request>>
        \/ WriteChunk(open, parsed)
    BY <1>4 DEF ParseEmail
  <2>2. open \in SUBSET Email
    BY <1>1 DEF Shape
  <2> HIDE DEF parsed, open
  <2>3. CASE WriteChunk(open, parsed)
    BY <1>2, <2>2, <2>3, WriteChunkDelivery
  <2>4. CASE UNCHANGED <<job, chunks, output, request>>
    BY <1>2, <2>4, RowsDelivery
  <2>5. QED
    BY <2>1, <2>3, <2>4
<1>5. QED
  BY <1>3, <1>4

\* Rows that are all completed were completed after the parse.
LEMMA LoadedLate ==
  ASSUME PipelineInv, OwnerInv, DeliveryInv,
         chunks # <<>> \/ job.cached # {}, AllCompleted(chunks)
  PROVE  ParseOver
<1>1. CASE chunks # <<>>
  <2>1. 1 \in ChunkId /\ ChunkId = DOMAIN chunks
    BY <1>1 DEF PipelineInv, Shape, ChunkId
  <2>2. QED
    BY <2>1 DEF DeliveryInv, Patient, AllCompleted
<1>2. CASE job.cached # {}
  BY <1>2 DEF OwnerInv, Parsing, ParseOver
<1>3. QED
  BY <1>1, <1>2

\* A finalization that starts in time finds every email where one chunk, or the
\* cache, keeps it, unless it was lost with the parse, and every chunk completed.
LEMMA LoadedRows ==
  ASSUME PipelineInv, OwnerInv, DeliveryInv, job.status \notin {"completed", "failed"},
         chunks # <<>> \/ job.cached # {}, AllCompleted(chunks), NEW e \in Email
  PROVE  Fits({k \in ChunkId : \/ e \in output[k].settled
                               \/ e \in output[k].again /\ ~chunks[k].filtered}
              \cup {k \in {CacheFile} : e \in job.cached})
<1>1. Shape /\ ParseInv
  BY DEF PipelineInv
<1>2. ChunkId = DOMAIN chunks /\ \A k \in ChunkId : chunks[k].status = "completed"
  BY <1>1 DEF Shape, ChunkId, AllCompleted
<1>3. ParseOver /\ job.status \in {"pending", "processing"}
  BY <1>1, LoadedLate DEF Shape, JobStatus
<1>4. Fits(Owners(e))
  <2>1. CASE parser.pc = "done"
    <3>1. Partition
      BY <1>3, <2>1 DEF OwnerInv, Whole
    <3>2. QED
      BY <2>1, <3>1, PartitionIsOneOwner DEF Fits
  <2>2. CASE parser.pc = "lost"
    <3>1. Disjoint
      BY <1>3 DEF OwnerInv, Whole
    <3>2. QED
      BY <2>2, <3>1, DisjointIsNoTwoOwners DEF Fits
  <2>3. QED
    BY <1>3, <2>1, <2>2 DEF ParseOver
<1>5. \A k \in ChunkId : request[k] # "retry_created"
  BY <1>2 DEF OwnerInv, Tended, Kids
<1>6. \A k \in ChunkId :
        Keeps(k) = output[k].settled
                   \cup (IF chunks[k].filtered THEN {} ELSE output[k].again)
  BY <1>2, <1>5 DEF Keeps
<1>7. Owners(e) = {k \in ChunkId : \/ e \in output[k].settled
                                   \/ e \in output[k].again /\ ~chunks[k].filtered}
                  \cup {k \in {CacheFile} : e \in job.cached}
  BY <1>6 DEF Owners
<1>8. QED
  BY <1>4, <1>7

LEMMA FinalizeDelivery ==
  ASSUME PipelineInv, OwnerInv, DeliveryInv,
         \/ Finalize \/ FinalizeDies \/ FinalizeReleased
         \/ AdminFailsJob \/ AdminFinalizes
  PROVE  DeliveryInv'
<1>1. Shape
  BY DEF PipelineInv
<1>2. UNCHANGED <<parser, chunks, output, request>>
  BY DEF Finalize, FinalizeStarts, FinalizeSaves, FinalizeFails, FinalizeDies,
         FinalizeReleased, AdminFailsJob, AdminFinalizes
<1>3. Patient'
  BY <1>2 DEF DeliveryInv, Patient, ParseOver, ChunkId
<1>4. ASSUME finalizer' = NoFinalize
      PROVE  Snapshot'
  BY <1>4 DEF Snapshot, NoFinalize
<1>5. CASE FinalizeStarts
  <2>1. job' = job
    BY <1>5 DEF FinalizeStarts
  <2>2. Delivered'
    BY <1>2, <2>1 DEF DeliveryInv, Delivered, Fits
  <2>3. CASE finalizer' = NoFinalize
    BY <1>3, <1>4, <2>2, <2>3 DEF DeliveryInv
  <2>4. CASE finalizer' # NoFinalize
    <3>1. /\ finalizer' = [pc |-> "loaded", cached |-> job.cached, chunks |-> chunks]
          /\ chunks # <<>> \/ job.cached # {}
          /\ job.status \notin {"completed", "failed"}
          /\ SomeFailed(chunks) \/ AllCompleted(chunks)
      BY <1>5, <2>4 DEF FinalizeStarts
    <3>2. finalizer'.cached = job.cached /\ finalizer'.chunks = chunks
      BY <3>1
    <3>3. SomeFailed(finalizer.chunks)' <=> SomeFailed(chunks)
      BY <3>2 DEF SomeFailed
    <3>4. CASE SomeFailed(chunks)
      BY <1>3, <2>2, <3>3, <3>4 DEF DeliveryInv, Snapshot
    <3>5. CASE AllCompleted(chunks)
      <4>1. \A i \in DOMAIN finalizer'.chunks : chunks'[i].status = "completed"
        BY <1>2, <3>2, <3>5 DEF AllCompleted
      <4>2. DOMAIN chunks = ChunkId
        BY <1>1 DEF Shape, ChunkId
      <4>3. \A e \in Email :
              MergedRows(e)' = {k \in ChunkId :
                                  \/ e \in output[k].settled
                                  \/ e \in output[k].again /\ ~chunks[k].filtered}
                               \cup {k \in {CacheFile} : e \in job.cached}
        BY <1>2, <3>2, <4>2 DEF MergedRows
      <4>4. ASSUME NEW e \in Email
            PROVE  Fits(MergedRows(e))'
        BY <1>2, <3>1, <3>5, <4>3, LoadedRows DEF Fits
      <4>5. Snapshot'
        BY <4>1, <4>4 DEF Snapshot
      <4>6. QED
        BY <1>3, <2>2, <4>5 DEF DeliveryInv
    <3>6. QED
      BY <3>1, <3>4, <3>5
  <2>5. QED
    BY <2>3, <2>4
<1>6. CASE FinalizeFails
  <2>1. job'.status = "failed" /\ finalizer' = NoFinalize
    BY <1>1, <1>6 DEF FinalizeFails, Shape
  <2>2. QED
    BY <1>3, <1>4, <2>1 DEF DeliveryInv, Delivered
<1>7. CASE FinalizeSaves
  <2>1. /\ finalizer.pc = "loaded" /\ ~SomeFailed(finalizer.chunks)
        /\ job'.rows = [e \in Email |-> MergedRows(e)]
        /\ finalizer' = NoFinalize
    BY <1>1, <1>7 DEF FinalizeSaves, Shape
  <2>2. \A e \in Email : Fits(MergedRows(e))
    BY <2>1 DEF DeliveryInv, Snapshot
  <2>3. Delivered'
    BY <1>2, <2>1, <2>2 DEF Delivered, Fits
  <2>4. QED
    BY <1>3, <1>4, <2>1, <2>3 DEF DeliveryInv
<1>8. CASE AdminFailsJob \/ AdminFinalizes
  <2>1. finalizer' = finalizer
    BY <1>8 DEF AdminFailsJob, AdminFinalizes
  <2>2. job' = job \/ job'.status = "failed"
    BY <1>1, <1>8 DEF AdminFailsJob, AdminFinalizes, Shape
  <2>3. QED
    BY <1>2, <2>1, <2>2, RowsDelivery
<1>9. CASE FinalizeDies
  <2>1. finalizer' = NoFinalize /\ job' = job
    BY <1>9 DEF FinalizeDies
  <2>2. QED
    BY <1>2, <1>3, <1>4, <2>1 DEF DeliveryInv, Delivered, Fits
<1>10. CASE FinalizeReleased
  BY <1>2, <1>10, RowsDelivery DEF FinalizeReleased
<1>11. QED
  BY <1>5, <1>6, <1>7, <1>8, <1>9, <1>10 DEF Finalize

-----------------------------------------------------------------------------
(* Every step.                                                               *)

LEMMA InitDeliveryInv == Init => DeliveryInv
<1> SUFFICES ASSUME Init PROVE DeliveryInv
  OBVIOUS
<1>1. ChunkId = {}
  BY DEF Init, ChunkId
<1>2. job.status = "pending" /\ finalizer.pc = "idle"
  BY DEF Init, NoFinalize
<1>3. QED
  BY <1>1, <1>2 DEF DeliveryInv, Patient, Snapshot, Delivered

LEMMA NextDeliveryInv ==
  ASSUME Orderly, PipelineInv, OwnerInv, DeliveryInv, [Next]_vars
  PROVE  DeliveryInv'
<1>1. CASE UNCHANGED vars
  <2>1. UNCHANGED <<chunks, output, request, parser, job, finalizer>>
    BY <1>1 DEF vars
  <2>2. QED
    BY <2>1, RowsDelivery
<1>2. CASE \/ Prepare \/ PrepareDies
           \/ ParseStarts \/ ParseEnds \/ ParseFails \/ ParseDies
  BY <1>2, ParserDelivery
<1>3. CASE ParseLastChunk \/ \E e \in Email : ParseEmail(e)
  BY <1>3, ParseDelivery
<1>4. CASE \/ Finalize \/ FinalizeDies \/ FinalizeReleased
           \/ AdminFailsJob \/ AdminFinalizes
  BY <1>4, FinalizeDelivery
<1>5. ASSUME NEW i \in ChunkId,
             Claim(i) \/ Verify(i) \/ Fail(i) \/ Complete(i) \/ CompleteDies(i)
      PROVE  DeliveryInv'
  <2>1. CASE Claim(i) \/ Verify(i) \/ Fail(i)
    BY <2>1, WorkerDelivery
  <2>2. CASE SaveHandoff(i) \/ SaveScreening(i) \/ SaveProbe(i)
    BY <2>2, SaveDelivery
  <2>3. CASE FilterRisky(i) \/ DispatchFinalize(i) \/ CompleteDies(i)
    BY <2>3, EndDelivery
  <2>4. CASE CreateProbeChunks(i) \/ PlanRetry(i)
    BY <2>4, PlannerDelivery
  <2>5. QED
    BY <1>5, <2>1, <2>2, <2>3, <2>4 DEF Complete
<1>6. QED
  BY <1>1, <1>2, <1>3, <1>4, <1>5 DEF Next, Parse, Trouble

LEMMA DeliveryIsOrderly ==
  ASSUME Orderly
  PROVE  Spec => [](PipelineInv /\ OwnerInv /\ DeliveryInv)
<1>1. Init => PipelineInv /\ OwnerInv /\ DeliveryInv
  BY InitPipelineInv, InitOwnerInv, InitDeliveryInv
<1>2. PipelineInv /\ OwnerInv /\ DeliveryInv /\ [Next]_vars
        => (PipelineInv /\ OwnerInv /\ DeliveryInv)'
  BY NextPipelineInv, NextOwnerInv, NextDeliveryInv DEF Orderly
<1>3. QED
  BY <1>1, <1>2, PTL DEF Spec

\* The result files of a completed job hold exactly one row for every email of
\* the upload, and after a parse that was lost for good at most one, whatever the list, the shards and the retries, and whatever the
\* order of reports, planners and finalizations, late or repeated.
THEOREM EveryEmailDeliveredOnce ==
  ASSUME Orderly
  PROVE  Spec => []DeliveredOnce
<1>1. DeliveryInv => DeliveredOnce
  BY FS_Singleton DEF DeliveryInv, Delivered, Fits, DeliveredOnce
<1>2. QED
  BY <1>1, DeliveryIsOrderly, PTL

-----------------------------------------------------------------------------
(* The refinement of JobContract.                                            *)

\* What a job shows its customer, in the terms of the contract.
statusBar == job.status
lostBar == parser.pc = "lost"
rowsBar == [e \in Email |-> Cardinality(job.rows[e])]

\* The ways a step may change the job's row and lose the parse.
Settles ==
  \/ /\ job'.status = job.status /\ job'.rows = job.rows
     /\ lostBar => lostBar'
  \/ /\ job.status = "pending" /\ job'.status = "processing"
     /\ job'.rows = job.rows /\ lostBar' = lostBar
  \/ /\ job.status = "processing" /\ job'.status = "failed"
     /\ job'.rows = job.rows /\ lostBar' = lostBar
  \/ /\ job.status = "processing" /\ job'.status = "completed"
     /\ \A e \in Email : Fits(job'.rows[e])
     /\ lostBar' = lostBar

\* A step of a worker or of complete is no business of the job's row.
LEMMA ChunkStepsSettleNothing ==
  ASSUME Undecided, NEW i \in ChunkId,
         Claim(i) \/ Verify(i) \/ Fail(i) \/ Complete(i) \/ CompleteDies(i)
  PROVE  Settles /\ Undecided'
<1>1. UNCHANGED <<job, parser, finalizer>>
  BY DEF Claim, Verify, Fail, Complete, CompleteDies, CreateProbeChunks, SaveHandoff,
         SaveScreening, SaveProbe, PlanRetry, FilterRisky, DispatchFinalize
<1>2. SomeFailed(finalizer.chunks)' <=> SomeFailed(finalizer.chunks)
  BY <1>1 DEF SomeFailed
<1>3. QED
  BY <1>1, <1>2 DEF Settles, Undecided, ParseOver, lostBar

\* As long as the parse runs, the job is not completed.
LEMMA ParserSettles ==
  ASSUME PipelineInv, Undecided,
         \/ Prepare \/ PrepareDies
         \/ ParseStarts \/ ParseEnds \/ ParseFails \/ ParseDies
         \/ ParseLastChunk \/ \E e \in Email : ParseEmail(e)
  PROVE  Settles /\ Undecided'
<1>1. Shape /\ ParseInv
  BY DEF PipelineInv
<1>2. finalizer' = finalizer
  BY DEF Prepare, PrepareDies, ParseStarts, ParseEnds, ParseFails, ParseDies,
         ParseLastChunk, ParseEmail
<1>3. SomeFailed(finalizer.chunks)' <=> SomeFailed(finalizer.chunks)
  BY <1>2 DEF SomeFailed
<1>4. CASE job' = job /\ (ParseOver => parser' = parser)
  BY <1>2, <1>3, <1>4 DEF Settles, Undecided, ParseOver, lostBar
<1>5. CASE /\ job.status = "pending" /\ job' = [job EXCEPT !.status = "processing"]
           /\ parser'.pc # "lost"
  <2>1. job'.status = "processing" /\ job'.rows = job.rows
    BY <1>1, <1>5 DEF Shape
  <2>2. finalizer.pc # "loaded" /\ parser.pc = "none"
    BY <1>1, <1>5 DEF Undecided, ParseInv
  <2>3. QED
    BY <1>2, <1>5, <2>1, <2>2 DEF Settles, Undecided, lostBar
<1>6. CASE /\ parser.pc = "running" /\ parser'.pc = "done"
           /\ job' = [job EXCEPT !.cached = parser.hits]
  <2>1. job'.status = job.status /\ job'.rows = job.rows
    BY <1>1, <1>6 DEF Shape
  <2>2. QED
    BY <1>2, <1>3, <1>6, <2>1 DEF Settles, Undecided, ParseOver, lostBar
<1>7. CASE /\ parser.pc = "running" /\ parser'.pc = "done"
           /\ job' = [job EXCEPT !.status = "failed"]
  <2>1. job'.status = "failed" /\ job'.rows = job.rows
    BY <1>1, <1>7 DEF Shape
  <2>2. job.status \in {"processing", "failed"}
    BY <1>1, <1>7 DEF Shape, JobStatus, ParseInv, ParseOver, Undecided
  <2>3. ~(finalizer.pc = "loaded" /\ ~SomeFailed(finalizer.chunks))
    BY <1>7 DEF Undecided, ParseOver
  <2>4. QED
    BY <1>2, <1>3, <1>7, <2>1, <2>2, <2>3 DEF Settles, Undecided, lostBar
<1>8. CASE Prepare \/ PrepareDies
  <2>1. CASE job.status = "pending" /\ job' = [job EXCEPT !.status = "processing"]
    <3>1. parser.pc = "none"
      BY <1>1, <2>1 DEF ParseInv
    <3>2. parser'.pc # "lost"
      BY <1>8, <3>1 DEF Prepare, PrepareDies, NewParse
    <3>3. QED
      BY <1>5, <2>1, <3>2
  <2>2. CASE job.status # "pending" \/ job' = job
    <3>1. job' = job
      BY <1>8, <2>2 DEF Prepare, PrepareDies
    <3>2. job.status = "pending" => ~ParseOver
      BY <1>1 DEF ParseInv, ParseOver
    <3>3. job.status # "pending" => parser' = parser
      BY <1>8 DEF Prepare, PrepareDies
    <3>4. QED
      BY <1>4, <3>1, <3>2, <3>3
  <2>3. QED
    BY <1>8, <2>1, <2>2 DEF Prepare, PrepareDies
<1>9. CASE ParseStarts \/ ParseDies
  BY <1>4, <1>9 DEF ParseStarts, ParseDies, ParseOver
<1>10. CASE ParseEnds
  <2>1. parser'.pc = "done"
    BY <1>1, <1>10 DEF ParseEnds, Shape
  <2>2. QED
    BY <1>6, <1>10, <2>1 DEF ParseEnds
<1>11. CASE ParseFails
  <2>1. parser'.pc = "done"
    BY <1>1, <1>11 DEF ParseFails, Shape
  <2>2. QED
    BY <1>7, <1>11, <2>1 DEF ParseFails
<1>12. CASE ParseLastChunk \/ \E e \in Email : ParseEmail(e)
  <2>1. /\ parser.pc = "running"
        /\ \/ job' = job
           \/ /\ job' = [job EXCEPT !.status = "failed"]
              /\ parser' = [parser EXCEPT !.pc = "done"]
    BY <1>12 DEF ParseLastChunk, ParseEmail, WriteChunk
  <2>2. parser' = [parser EXCEPT !.pc = "done"] => parser'.pc = "done"
    BY <1>1 DEF Shape
  <2>3. QED
    BY <1>4, <1>7, <2>1, <2>2 DEF ParseOver
<1>13. QED
  BY <1>8, <1>9, <1>10, <1>11, <1>12

\* A finalization loads no job that is settled or not yet prepared.
LEMMA FinalizeSettles ==
  ASSUME PipelineInv, OwnerInv, DeliveryInv, Undecided,
         Finalize \/ FinalizeDies \/ FinalizeReleased
  PROVE  Settles /\ Undecided'
<1>1. Shape /\ ParseInv
  BY DEF PipelineInv
<1>2. parser' = parser
  BY DEF Finalize, FinalizeStarts, FinalizeSaves, FinalizeFails, FinalizeDies,
         FinalizeReleased
<1>3. CASE (FinalizeStarts \/ FinalizeDies) /\ finalizer' = NoFinalize
  BY <1>2, <1>3
  DEF FinalizeStarts, FinalizeDies, NoFinalize, Settles, Undecided, ParseOver, lostBar
<1>4. CASE FinalizeStarts /\ finalizer' # NoFinalize
  <2>1. /\ finalizer' = [pc |-> "loaded", cached |-> job.cached, chunks |-> chunks]
        /\ chunks # <<>> \/ job.cached # {}
        /\ job.status \notin {"completed", "failed"}
        /\ SomeFailed(chunks) \/ AllCompleted(chunks)
        /\ job' = job
    BY <1>4 DEF FinalizeStarts
  <2>2. job.status = "processing"
    BY <1>1, <2>1 DEF Shape, JobStatus, ParseInv, OwnerInv, Parsing
  <2>3. finalizer'.chunks = chunks
    BY <2>1
  <2>4. SomeFailed(finalizer.chunks)' <=> SomeFailed(chunks)
    BY <2>3 DEF SomeFailed
  <2>5. AllCompleted(chunks) => ParseOver
    BY <2>1, LoadedLate
  <2>6. Undecided'
    BY <1>2, <2>1, <2>2, <2>4, <2>5 DEF Undecided, ParseOver
  <2>7. QED
    BY <1>2, <2>1, <2>6 DEF Settles, lostBar
<1>5. CASE FinalizeFails
  <2>1. /\ job.status \in {"processing", "failed"}
        /\ job'.status = "failed" /\ job'.rows = job.rows
        /\ finalizer'.pc = "idle"
    BY <1>1, <1>5 DEF FinalizeFails, NoFinalize, Shape, Undecided
  <2>2. QED
    BY <1>2, <2>1 DEF Settles, Undecided, lostBar
<1>6. CASE FinalizeSaves
  <2>1. /\ job.status = "processing" /\ ParseOver
        /\ job'.status = "completed"
        /\ job'.rows = [e \in Email |-> MergedRows(e)]
        /\ finalizer'.pc = "idle"
    BY <1>1, <1>6 DEF FinalizeSaves, NoFinalize, Shape, Undecided
  <2>2. \A e \in Email : Fits(MergedRows(e))
    BY <1>6 DEF FinalizeSaves, DeliveryInv, Snapshot
  <2>3. \A e \in Email : Fits(job'.rows[e])
    BY <2>1, <2>2
  <2>4. QED
    BY <1>2, <2>1, <2>3 DEF Settles, Undecided, ParseOver, lostBar
<1>7. CASE FinalizeReleased
  <2>1. UNCHANGED <<job, finalizer>>
    BY <1>7 DEF FinalizeReleased
  <2>2. SomeFailed(finalizer.chunks)' <=> SomeFailed(finalizer.chunks)
    BY <2>1 DEF SomeFailed
  <2>3. QED
    BY <1>2, <2>1, <2>2 DEF Settles, Undecided, ParseOver, lostBar
<1>8. QED
  BY <1>3, <1>4, <1>5, <1>6, <1>7 DEF Finalize, FinalizeDies

LEMMA UndecidedStep ==
  ASSUME ~Administered, PipelineInv, OwnerInv, DeliveryInv, Undecided, [Next]_vars
  PROVE  Settles /\ Undecided'
<1>1. CASE UNCHANGED vars
  <2>1. SomeFailed(finalizer.chunks)' <=> SomeFailed(finalizer.chunks)
    BY <1>1 DEF SomeFailed, vars
  <2>2. QED
    BY <1>1, <2>1 DEF vars, Settles, Undecided, ParseOver, lostBar
<1>2. CASE \E i \in ChunkId :
             Claim(i) \/ Verify(i) \/ Fail(i) \/ Complete(i) \/ CompleteDies(i)
  BY <1>2, ChunkStepsSettleNothing
<1>3. CASE \/ Prepare \/ PrepareDies
           \/ ParseStarts \/ ParseEnds \/ ParseFails \/ ParseDies
           \/ ParseLastChunk \/ \E e \in Email : ParseEmail(e)
  BY <1>3, ParserSettles
<1>4. CASE Finalize \/ FinalizeDies \/ FinalizeReleased
  BY <1>4, FinalizeSettles
<1>5. CASE AdminFailsJob \/ AdminFinalizes
  BY <1>5 DEF AdminFailsJob, AdminFinalizes
<1>6. QED
  BY <1>1, <1>2, <1>3, <1>4, <1>5 DEF Next, Parse, Trouble

\* What settles a job is a step of the contract.
LEMMA SettlesByContract ==
  ASSUME Settles
  PROVE  Contract!Next \/ UNCHANGED <<statusBar, lostBar, rowsBar>>
<1>1. CASE /\ job'.status = job.status /\ job'.rows = job.rows
           /\ lostBar => lostBar'
  BY <1>1 DEF statusBar, lostBar, rowsBar, Contract!Next, Contract!Lose
<1>2. CASE /\ job.status = "pending" /\ job'.status = "processing"
           /\ job'.rows = job.rows /\ lostBar' = lostBar
  BY <1>2 DEF Contract!Next, Contract!Start, lostBar
<1>3. CASE /\ job.status = "processing" /\ job'.status = "failed"
           /\ job'.rows = job.rows /\ lostBar' = lostBar
  BY <1>3 DEF Contract!Next, Contract!Fail, lostBar
<1>4. CASE /\ job.status = "processing" /\ job'.status = "completed"
           /\ \A e \in Email : Fits(job'.rows[e])
           /\ lostBar' = lostBar
  <2>1. \A e \in Email :
          Cardinality(job'.rows[e]) \in IF lostBar THEN {0, 1} ELSE {1}
    <3>1. SUFFICES ASSUME NEW e \in Email
                   PROVE  Cardinality(job'.rows[e]) \in IF lostBar THEN {0, 1} ELSE {1}
      OBVIOUS
    <3>2. CASE \E i : job'.rows[e] = {i}
      <4>1. Cardinality(job'.rows[e]) = 1
        BY <3>2, FS_Singleton
      <4>2. QED
        BY <4>1
    <3>3. CASE parser.pc = "lost" /\ job'.rows[e] = {}
      <4>1. Cardinality(job'.rows[e]) = 0
        BY <3>3, FS_EmptySet
      <4>2. QED
        BY <3>3, <4>1 DEF lostBar
    <3>4. QED
      BY <1>4, <3>2, <3>3 DEF Fits
  <2>2. rowsBar' \in [Email -> IF lostBar THEN {0, 1} ELSE {1}]
    BY <2>1 DEF rowsBar
  <2>3. QED
    BY <1>4, <2>2 DEF Contract!Next, Contract!Complete, rowsBar, lostBar
<1>5. QED
  BY <1>1, <1>2, <1>3, <1>4 DEF Settles

LEMMA ContractInit == Init => Contract!Init /\ Undecided
<1> SUFFICES ASSUME Init PROVE Contract!Init /\ Undecided
  OBVIOUS
<1>1. job.status = "pending" /\ finalizer.pc = "idle" /\ parser.pc = "none"
  BY DEF Init, NoFinalize, NewParse
<1>2. \A e \in Email : Cardinality(job.rows[e]) = 0
  BY FS_EmptySet DEF Init, NoRows
<1>3. QED
  BY <1>1, <1>2 DEF Contract!Init, Undecided

\* Without the administrator a job is processed once, ends once, and its result
\* files hold one row for every email from the moment it is completed, or at most
\* one if the parse was lost before: no late finalization, parse or request
\* changes what was delivered.
THEOREM JobsKeepContract ==
  ASSUME Orderly, ~Administered
  PROVE  Spec => JobKeepsContract
<1>1. PipelineInv /\ OwnerInv /\ DeliveryInv /\ Undecided /\ [Next]_vars => Undecided'
  BY UndecidedStep
<1>2. PipelineInv /\ OwnerInv /\ DeliveryInv /\ Undecided /\ [Next]_vars
        => [Contract!Next]_<<statusBar, lostBar, rowsBar>>
  BY UndecidedStep, SettlesByContract
<1>3. QED
  BY <1>1, <1>2, ContractInit, DeliveryIsOrderly, PTL
  DEF Spec, JobKeepsContract, Contract!Spec, statusBar, lostBar, rowsBar
=============================================================================
