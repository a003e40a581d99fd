--------------------------- MODULE PipelineProofs ---------------------------
(***************************************************************************)
(* Theorems about VerificationPipeline that hold however screening answers *)
(* and settings change: the shapes of its tables, the tree of chunks that  *)
(* the planners grow, which bounds the rows of verification_job_chunks,    *)
(* and the finalization that a job with all chunks completed can expect.   *)
(***************************************************************************)
EXTENDS VerificationPipeline, FunctionTheorems, FiniteSetTheorems, TLAPS

-----------------------------------------------------------------------------
(* The invariant. *)

\* The shapes of TypeOK, without its bound on the number of chunks.
Shape ==
  /\ job \in [status : JobStatus, cached : SUBSET Email,
              rows : [Email -> SUBSET (ChunkId \cup {CacheFile})]]
  /\ prepare \in BOOLEAN
  /\ parser \in [pc : {"none", "queued", "running", "done", "lost"},
                 cacheOnly : BOOLEAN, todo : SUBSET Email, open : SUBSET Email,
                 hits : SUBSET Email, no : Nat, tries : Nat]
  /\ chunks \in Seq(Chunk)
  /\ output \in Seq(Output)
  /\ request \in Seq(RequestStep)
  /\ Len(output) = Len(chunks) /\ Len(request) = Len(chunks)
  /\ queued \in Nat
  /\ finalizer.pc \in {"idle", "loaded"}
  /\ finalizer.cached \subseteq Email
  /\ finalizer.chunks \in Seq(Chunk)
  /\ Len(finalizer.chunks) <= Len(chunks)

Kids(i) == {k \in ChunkId : chunks[k].parent = i}

\* The level of a chunk: screening, or the attempt at probing.
Level(c) == IF c.stage = "screening" THEN 0 ELSE c.retry + 1

\* A screening chunk comes from the parser; a probe chunk takes over some of
\* the emails of an earlier chunk, one level up.
Descends(k) ==
  LET p == chunks[k].parent IN
  IF chunks[k].stage = "screening"
  THEN p = 0
  ELSE /\ p \in 1..(k - 1)
       /\ chunks[k].emails \subseteq chunks[p].emails
       /\ Level(chunks[k]) = Level(chunks[p]) + 1

\* NextChunkNo takes the largest number there is.
Nos == {chunks[i].no : i \in ChunkId} \cup {0}
Numbered == \E m \in Nos : \A n \in Nos : n <= m

Tree ==
  /\ Numbered
  /\ chunks # <<>> => chunks[1].no = 1
  /\ \A i \in ChunkId : /\ chunks[i].emails # {}
                        /\ Level(chunks[i]) <= MaxProbeAttempts + 1
                        /\ Descends(i)
  /\ \A i, j \in ChunkId : i # j /\ Level(chunks[i]) = Level(chunks[j]) =>
       chunks[i].emails \cap chunks[j].emails = {}

\* The request that works on a chunk agrees with its row, and only a request
\* that has completed a probe chunk gives it a retry chunk, once.
InStep(i) ==
  /\ request[i] \in {"working", "complete", "handoff"} <=>
       chunks[i].status = "processing"
  /\ request[i] \in {"probe_saved", "retry_created", "saved"} =>
       chunks[i].status = "completed"
  /\ request[i] \in {"probe_saved", "retry_created"} =>
       chunks[i].stage = "smtp_probe"
  /\ output[i].settled \cup output[i].again \subseteq chunks[i].emails
  /\ chunks[i].stage = "smtp_probe" /\ Kids(i) # {} =>
       chunks[i].status = "completed" /\ request[i] # "probe_saved"

\* A parse that was delivered again finds the chunks of the one that died.
Stale == parser.no = 1 /\ chunks # <<>>

ParseInv ==
  /\ job.status = "pending" => parser.pc = "none"
  /\ parser.pc = "none" => chunks = <<>>
  /\ parser.no # 0
  /\ parser.pc \in {"queued", "running"} =>
       /\ chunks = <<>> => parser.no = 1
       /\ parser.todo \cap parser.open = {}
       /\ \/ Stale
          \/ \A i \in ChunkId : chunks[i].stage = "screening" =>
               chunks[i].emails \cap (parser.todo \cup parser.open) = {}

PipelineInv == Shape /\ Tree /\ (\A i \in ChunkId : InStep(i)) /\ ParseInv

-----------------------------------------------------------------------------
(* The operators of the planners. *)

\* The next free chunk number is larger than every number in use.
LEMMA NextChunkNoIsFree ==
  ASSUME Shape, Numbered
  PROVE  /\ NextChunkNo \in Nat \ {0}
         /\ \A i \in ChunkId : chunks[i].no < NextChunkNo
<1>1. \A i \in ChunkId : chunks[i].no \in Nat
  <2>1. \A i \in ChunkId : chunks[i] \in Chunk
    BY DEF Shape, ChunkId
  <2>2. QED
    BY <2>1 DEF Chunk
<1>2. Nos \subseteq Nat
  BY <1>1 DEF Nos
<1>3. \E m \in Nos : \A n \in Nos : m >= n
  BY <1>2 DEF Numbered
<1>4. Max(Nos) \in Nos /\ \A n \in Nos : Max(Nos) >= n
  BY <1>3 DEF Max
<1>5. NextChunkNo = Max(Nos) + 1
  BY DEF NextChunkNo, Nos
<1>6. Max(Nos) \in Nat
  BY <1>2, <1>4
<1>7. ASSUME NEW i \in ChunkId PROVE chunks[i].no < NextChunkNo
  <2>1. chunks[i].no \in Nos
    BY DEF Nos
  <2>2. Max(Nos) >= chunks[i].no
    BY <1>4, <2>1
  <2>3. QED
    BY <1>1, <1>5, <1>6, <2>2
<1>8. QED
  BY <1>5, <1>6, <1>7

\* The community module's enumeration of a finite set.
LEMMA SetToSeqIsBijection ==
  ASSUME NEW S, IsFiniteSet(S)
  PROVE  /\ Cardinality(S) \in Nat
         /\ SetToSeq(S) \in Bijection(1..Cardinality(S), S)
<1>1. Cardinality(S) \in Nat /\ ExistsBijection(1..Cardinality(S), S)
  BY FS_CardinalityType
<1>2. \E f \in [1..Cardinality(S) -> S] : IsInjective(f)
  BY <1>1 DEF ExistsBijection, Bijection, Injection, IsInjective
<1>3. SetToSeq(S) \in [1..Cardinality(S) -> S] /\ IsInjective(SetToSeq(S))
  BY <1>2 DEF SetToSeq
<1>4. SetToSeq(S) \in Injection(1..Cardinality(S), S)
  BY <1>3 DEF IsInjective, Injection
<1>5. Cardinality(1..Cardinality(S)) = Cardinality(S)
  BY <1>1, FS_Interval
<1>6. SetToSeq(S) \in Surjection(1..Cardinality(S), S)
  BY <1>4, <1>5, FS_Injection
<1>7. QED
  BY <1>1, <1>4, <1>6 DEF Bijection

\* Shards cuts a set of emails into disjoint parts, none of them empty.
LEMMA ShardsPartition ==
  ASSUME NEW emails \in SUBSET Email
  PROVE  /\ Shards(emails) \in Seq(SUBSET Email)
         /\ \A k \in DOMAIN Shards(emails) :
              Shards(emails)[k] # {} /\ Shards(emails)[k] \subseteq emails
         /\ \A k, m \in DOMAIN Shards(emails) :
              k # m => Shards(emails)[k] \cap Shards(emails)[m] = {}
         /\ \A e \in emails : \E k \in DOMAIN Shards(emails) : e \in Shards(emails)[k]
<1> DEFINE Shard(d) == {e \in emails : Domain[e] = d}
           S == {Shard(d) : d \in {Domain[e] : e \in emails}}
<1>1. S \subseteq SUBSET Email
  OBVIOUS
<1>2. IsFiniteSet(S)
  <2>1. IsFiniteSet(SUBSET Email)
    BY VerificationPipelineAssumption, FS_SUBSET
  <2>2. QED
    BY <1>1, <2>1, FS_Subset
<1>3. /\ Cardinality(S) \in Nat
      /\ SetToSeq(S) \in Bijection(1..Cardinality(S), S)
  BY <1>2, SetToSeqIsBijection
<1>4. /\ Shards(emails) \in [1..Cardinality(S) -> S]
      /\ \A k, m \in 1..Cardinality(S) :
           Shards(emails)[k] = Shards(emails)[m] => k = m
      /\ \A s \in S : \E k \in 1..Cardinality(S) : Shards(emails)[k] = s
  <2>1. Shards(emails) = SetToSeq(S)
    BY DEF Shards
  <2> HIDE DEF S
  <2>2. QED
    BY <1>3, <2>1 DEF Bijection, Injection, Surjection, IsInjective
<1>5. \A s \in S : s # {} /\ s \subseteq emails
  OBVIOUS
<1>6. \A s, t \in S : s # t => s \cap t = {}
  OBVIOUS
<1>7. \A e \in emails : Shard(Domain[e]) \in S /\ e \in Shard(Domain[e])
  OBVIOUS
<1> HIDE DEF S, Shard
<1>8. Shards(emails) \in Seq(SUBSET Email) /\ DOMAIN Shards(emails) = 1..Cardinality(S)
  BY <1>1, <1>3, <1>4
<1>9. QED
  BY <1>4, <1>5, <1>6, <1>7, <1>8

-----------------------------------------------------------------------------
(* What the steps do to the sequences. *)

LEMMA Entries ==
  ASSUME Shape, NEW i \in ChunkId
  PROVE  /\ chunks[i] \in Chunk /\ output[i] \in Output /\ request[i] \in RequestStep
         /\ i \in Nat \ {0} /\ i <= Len(chunks) /\ Len(chunks) \in Nat
BY DEF Shape, ChunkId

\* A step that saves the row of one chunk.
LEMMA RowSaved ==
  ASSUME Shape, NEW i \in ChunkId, NEW r \in Chunk, chunks' = [chunks EXCEPT ![i] = r]
  PROVE  /\ chunks' \in Seq(Chunk)
         /\ Len(chunks') = Len(chunks)
         /\ chunks'[i] = r
         /\ \A j \in ChunkId : j # i => chunks'[j] = chunks[j]
BY DEF Shape, ChunkId

LEMMA RequestMoves ==
  ASSUME Shape, NEW i \in ChunkId, NEW r \in RequestStep,
         request' = [request EXCEPT ![i] = r]
  PROVE  /\ request' \in Seq(RequestStep)
         /\ Len(request') = Len(request)
         /\ request'[i] = r
         /\ \A j \in ChunkId : j # i => request'[j] = request[j]
BY DEF Shape, ChunkId

LEMMA OutputStored ==
  ASSUME Shape, NEW i \in ChunkId, NEW o \in Output, output' = [output EXCEPT ![i] = o]
  PROVE  /\ output' \in Seq(Output)
         /\ Len(output') = Len(output)
         /\ output'[i] = o
         /\ \A j \in ChunkId : j # i => output'[j] = output[j]
BY DEF Shape, ChunkId

LEMMA Appended ==
  ASSUME NEW S, NEW s \in Seq(S), NEW new \in Seq(S)
  PROVE  /\ s \o new \in Seq(S)
         /\ Len(s \o new) = Len(s) + Len(new)
         /\ \A j \in 1..Len(s) : (s \o new)[j] = s[j]
         /\ \A j \in (Len(s) + 1)..(Len(s) + Len(new)) :
              (s \o new)[j] = new[j - Len(s)]
OBVIOUS

\* A step that inserts rows.
LEMMA ChunksAdded ==
  ASSUME Shape, NEW new \in Seq(Chunk), NEW at \in Seq(RequestStep),
         Len(at) = Len(chunks), AddChunks(new, at)
  PROVE  /\ chunks' \in Seq(Chunk)
         /\ output' \in Seq(Output)
         /\ request' \in Seq(RequestStep)
         /\ Len(chunks') = Len(chunks) + Len(new)
         /\ Len(output') = Len(chunks') /\ Len(request') = Len(chunks')
         /\ \A j \in ChunkId : /\ chunks'[j] = chunks[j]
                               /\ output'[j] = output[j]
                               /\ request'[j] = at[j]
         /\ \A j \in ChunkId' \ ChunkId :
              /\ j - Len(chunks) \in DOMAIN new
              /\ chunks'[j] = new[j - Len(chunks)]
              /\ output'[j] = NoOutput
              /\ request'[j] = "none"
<1>1. NoOutput \in Output /\ "none" \in RequestStep
  BY DEF NoOutput, Output, RequestStep
<1>2. /\ chunks \in Seq(Chunk) /\ output \in Seq(Output) /\ request \in Seq(RequestStep)
      /\ Len(output) = Len(chunks) /\ Len(chunks) \in Nat /\ Len(new) \in Nat
      /\ DOMAIN new = 1..Len(new)
  BY DEF Shape
<1> DEFINE outputs == [k \in 1..Len(new) |-> NoOutput]
           steps == [k \in 1..Len(new) |-> "none"]
<1>3. /\ chunks' = chunks \o new
      /\ output' = output \o outputs
      /\ request' = at \o steps
  BY <1>2 DEF AddChunks
<1>4. /\ outputs \in Seq(Output) /\ Len(outputs) = Len(new)
      /\ \A k \in 1..Len(new) : outputs[k] = NoOutput
  BY <1>1, <1>2
<1>5. /\ steps \in Seq(RequestStep) /\ Len(steps) = Len(new)
      /\ \A k \in 1..Len(new) : steps[k] = "none"
  BY <1>1, <1>2
<1> HIDE DEF outputs, steps
<1>6. /\ chunks' \in Seq(Chunk)
      /\ Len(chunks') = Len(chunks) + Len(new)
      /\ \A j \in 1..Len(chunks) : chunks'[j] = chunks[j]
      /\ \A j \in (Len(chunks) + 1)..(Len(chunks) + Len(new)) :
           chunks'[j] = new[j - Len(chunks)]
  BY <1>2, <1>3, Appended
<1>7. /\ output' \in Seq(Output)
      /\ Len(output') = Len(chunks) + Len(new)
      /\ \A j \in 1..Len(chunks) : output'[j] = output[j]
      /\ \A j \in (Len(chunks) + 1)..(Len(chunks) + Len(new)) :
           output'[j] = outputs[j - Len(chunks)]
  BY <1>2, <1>3, <1>4, Appended
<1>8. /\ request' \in Seq(RequestStep)
      /\ Len(request') = Len(chunks) + Len(new)
      /\ \A j \in 1..Len(chunks) : request'[j] = at[j]
      /\ \A j \in (Len(chunks) + 1)..(Len(chunks) + Len(new)) :
           request'[j] = steps[j - Len(chunks)]
  <2>1. /\ at \o steps \in Seq(RequestStep)
        /\ Len(at \o steps) = Len(at) + Len(steps)
        /\ \A j \in 1..Len(at) : (at \o steps)[j] = at[j]
        /\ \A j \in (Len(at) + 1)..(Len(at) + Len(steps)) :
             (at \o steps)[j] = steps[j - Len(at)]
    <3>1. steps \in Seq(RequestStep)
      BY <1>5
    <3>2. ASSUME NEW S, NEW s \in Seq(S), NEW t \in Seq(S), s = at, t = steps
          PROVE  /\ s \o t \in Seq(S) /\ Len(s \o t) = Len(s) + Len(t)
                 /\ \A j \in 1..Len(s) : (s \o t)[j] = s[j]
                 /\ \A j \in (Len(s) + 1)..(Len(s) + Len(t)) :
                      (s \o t)[j] = t[j - Len(s)]
      BY Appended
    <3>3. QED
      BY <3>1, <3>2
  <2>2. QED
    BY <1>2, <1>3, <1>5, <2>1
<1>9. /\ ChunkId = 1..Len(chunks)
      /\ ChunkId' = 1..(Len(chunks) + Len(new))
  BY <1>6 DEF ChunkId
<1>10. \A j \in ChunkId' \ ChunkId :
         /\ j \in (Len(chunks) + 1)..(Len(chunks) + Len(new))
         /\ j - Len(chunks) \in 1..Len(new)
  BY <1>2, <1>9
<1>11. QED
  BY <1>2, <1>4, <1>5, <1>6, <1>7, <1>8, <1>9, <1>10

-----------------------------------------------------------------------------
(* The tree of chunks. *)

\* Steps that insert no row keep what a row is born with.
TreeKept ==
  /\ chunks' \in Seq(Chunk)
  /\ Len(chunks') = Len(chunks)
  /\ \A i \in ChunkId : /\ chunks'[i].no = chunks[i].no
                        /\ chunks'[i].stage = chunks[i].stage
                        /\ chunks'[i].parent = chunks[i].parent
                        /\ chunks'[i].retry = chunks[i].retry
                        /\ chunks'[i].emails = chunks[i].emails

LEMMA KeptTree ==
  ASSUME Shape, TreeKept
  PROVE  /\ ChunkId' = ChunkId
         /\ \A i \in ChunkId : Kids(i)' = Kids(i)
         /\ Tree => Tree'
<1>1. ChunkId' = ChunkId
  BY DEF TreeKept, ChunkId
<1>2. \A i \in ChunkId : Kids(i)' = Kids(i)
  BY <1>1 DEF TreeKept, Kids
<1>3. ASSUME Tree PROVE Tree'
  <2>1. Nos' = Nos
    BY <1>1 DEF TreeKept, Nos
  <2>2. chunks' # <<>> => chunks'[1].no = 1
    BY <1>3 DEF Shape, TreeKept, Tree, ChunkId
  <2>3. \A i \in ChunkId : Level(chunks'[i]) = Level(chunks[i])
    BY DEF TreeKept, Level
  <2>4. ASSUME NEW i \in ChunkId
        PROVE  chunks'[i].emails # {} /\ Descends(i)'
    <3>1. chunks[i].emails # {} /\ Descends(i)
      BY <1>3 DEF Tree
    <3>2. \A p \in 1..(i - 1) : p \in ChunkId
      BY DEF Shape, ChunkId
    <3>3. QED
      BY <2>3, <3>1, <3>2 DEF TreeKept, Descends
  <2>5. QED
    BY <1>1, <1>3, <2>1, <2>2, <2>3, <2>4 DEF Tree, Numbered, TreeKept
<1>4. QED
  BY <1>1, <1>2, <1>3

\* No chunk on the level of the children of p shares an email with p as long as
\* p has none: its parent is another chunk of the level of p.
LEMMA LevelIsFree ==
  ASSUME Shape, Tree, NEW p \in ChunkId, Kids(p) = {}, NEW j \in ChunkId,
         Level(chunks[j]) = Level(chunks[p]) + 1
  PROVE  chunks[j].emails \cap chunks[p].emails = {}
<1>1. /\ chunks[j] \in Chunk /\ chunks[p] \in Chunk
      /\ Level(chunks[p]) \in Nat
  BY Entries DEF Level, Chunk
<1>2. chunks[j].stage # "screening"
  BY <1>1 DEF Level
<1>3. PICK q \in ChunkId : q = chunks[j].parent
  BY <1>2, Entries DEF Tree, Descends, ChunkId
<1>4. /\ chunks[j].emails \subseteq chunks[q].emails
      /\ Level(chunks[j]) = Level(chunks[q]) + 1
  BY <1>2, <1>3 DEF Tree, Descends
<1>5. q # p
  BY <1>3 DEF Kids
<1>6. Level(chunks[q]) \in Nat
  BY Entries DEF Level, Chunk
<1>7. Level(chunks[q]) = Level(chunks[p])
  BY <1>1, <1>4, <1>6
<1>8. chunks[q].emails \cap chunks[p].emails = {}
  BY <1>5, <1>7 DEF Tree
<1>9. QED
  BY <1>4, <1>8

\* What AddChunks is given: the screening chunk of the parser, under parent 0, or
\* the probe chunks that take over emails of p.
Grows(new, p) ==
  /\ DOMAIN new # {}
  /\ chunks = <<>> => new[1].no = 1
  /\ \E k \in DOMAIN new : \A m \in DOMAIN new : new[m].no <= new[k].no
  /\ \A k \in DOMAIN new :
       /\ new[k].parent = p
       /\ new[k].emails # {}
       /\ Level(new[k]) <= MaxProbeAttempts + 1
       /\ IF new[k].stage = "screening"
          THEN p = 0
          ELSE /\ p \in ChunkId
               /\ new[k].emails \subseteq chunks[p].emails
               /\ Level(new[k]) = Level(chunks[p]) + 1
       /\ \A j \in ChunkId : Level(new[k]) = Level(chunks[j]) =>
            new[k].emails \cap chunks[j].emails = {}
       /\ \A m \in DOMAIN new : k # m => new[k].emails \cap new[m].emails = {}

LEMMA GrownTree ==
  ASSUME Shape, Tree, NEW new \in Seq(Chunk), NEW at \in Seq(RequestStep),
         Len(at) = Len(chunks), AddChunks(new, at),
         NEW p \in ChunkId \cup {0}, Grows(new, p)
  PROVE  /\ Tree'
         /\ \A i \in ChunkId : i # p => Kids(i)' = Kids(i)
         /\ \A i \in ChunkId' \ ChunkId : Kids(i)' = {}
<1>1. /\ Len(chunks) \in Nat /\ Len(new) \in Nat /\ DOMAIN new = 1..Len(new)
      /\ Len(new) > 0
  BY DEF Shape, Grows
<1>2. /\ chunks' \in Seq(Chunk)
      /\ Len(chunks') = Len(chunks) + Len(new)
      /\ \A j \in ChunkId : chunks'[j] = chunks[j]
      /\ \A j \in ChunkId' \ ChunkId :
           /\ j - Len(chunks) \in DOMAIN new
           /\ chunks'[j] = new[j - Len(chunks)]
  BY ChunksAdded
<1>3. /\ ChunkId = 1..Len(chunks)
      /\ ChunkId' = 1..(Len(chunks) + Len(new))
  BY <1>2 DEF ChunkId
<1>4. ChunkId \subseteq ChunkId'
  BY <1>1, <1>3
<1>5. ASSUME NEW k \in DOMAIN new
      PROVE  k + Len(chunks) \in ChunkId' \ ChunkId /\ chunks'[k + Len(chunks)] = new[k]
  <2>1. k + Len(chunks) \in ChunkId' \ ChunkId
    BY <1>1, <1>3
  <2>2. (k + Len(chunks)) - Len(chunks) = k
    BY <1>1
  <2>3. QED
    BY <1>2, <2>1, <2>2
<1>6. Numbered'
  <2>1. PICK m \in Nos : \A n \in Nos : n <= m
    BY DEF Tree, Numbered
  <2>2. PICK k \in DOMAIN new : \A l \in DOMAIN new : new[l].no <= new[k].no
    BY DEF Grows
  <2>3. Nos \subseteq Nat
    <3>1. ASSUME NEW i \in ChunkId
          PROVE  chunks[i].no \in Nat
      <4>1. chunks[i] \in Chunk
        BY Entries
      <4>2. QED
        BY <4>1 DEF Chunk
    <3>2. QED
      BY <3>1 DEF Nos
  <2>4. \A l \in DOMAIN new : new[l].no \in Nat
    <3>1. \A l \in DOMAIN new : new[l] \in Chunk
      BY <1>1
    <3>2. QED
      BY <3>1 DEF Chunk
  <2>5. Nos' = Nos \cup {new[l].no : l \in DOMAIN new}
    <3>1. \A i \in ChunkId' : chunks'[i].no \in Nos \cup {new[l].no : l \in DOMAIN new}
      <4>1. TAKE i \in ChunkId'
      <4>2. CASE i \in ChunkId
        BY <1>2, <4>2 DEF Nos
      <4>3. CASE i \notin ChunkId
        BY <1>2, <4>3
      <4>4. QED
        BY <4>2, <4>3
    <3>2. \A i \in ChunkId : chunks[i].no \in Nos'
      BY <1>2, <1>4 DEF Nos
    <3>3. \A l \in DOMAIN new : new[l].no \in Nos'
      BY <1>5 DEF Nos
    <3>4. 0 \in Nos /\ 0 \in Nos'
      BY DEF Nos
    <3>5. QED
      BY <3>1, <3>2, <3>3, <3>4 DEF Nos
  <2>6. \E M \in Nos' : \A n \in Nos' : n <= M
    <3>1. CASE m <= new[k].no
      <4>1. \A n \in Nos' : n <= new[k].no
        BY <2>1, <2>2, <2>3, <2>4, <2>5, <3>1
      <4>2. QED
        BY <2>5, <4>1
    <3>2. CASE ~(m <= new[k].no)
      <4>1. \A n \in Nos' : n <= m
        BY <2>1, <2>2, <2>3, <2>4, <2>5, <3>2
      <4>2. QED
        BY <2>5, <4>1
    <3>3. QED
      BY <3>1, <3>2
  <2>7. QED
    BY <2>6 DEF Numbered
<1>7. chunks'[1].no = 1
  <2>1. CASE chunks = <<>>
    <3>1. 1 \in ChunkId' \ ChunkId /\ 1 - Len(chunks) = 1
      BY <1>1, <1>3, <2>1
    <3>2. QED
      BY <1>2, <2>1, <3>1 DEF Grows
  <2>2. CASE chunks # <<>>
    <3>1. 1 \in ChunkId
      BY <1>1, <1>3, <2>2 DEF Shape
    <3>2. QED
      BY <1>2, <2>2, <3>1 DEF Tree
  <2>3. QED
    BY <2>1, <2>2
<1>8. ASSUME NEW i \in ChunkId'
      PROVE  /\ chunks'[i].emails # {}
             /\ Level(chunks'[i]) <= MaxProbeAttempts + 1
             /\ Descends(i)'
  <2>1. CASE i \in ChunkId
    <3>1. chunks'[i] = chunks[i]
      BY <1>2, <2>1
    <3>2. \A q \in 1..(i - 1) : chunks'[q] = chunks[q]
      <4>1. \A q \in 1..(i - 1) : q \in ChunkId
        BY <1>1, <1>3, <2>1
      <4>2. QED
        BY <1>2, <4>1
    <3>3. /\ chunks[i].emails # {}
          /\ Level(chunks[i]) <= MaxProbeAttempts + 1
          /\ Descends(i)
      BY <2>1 DEF Tree
    <3>4. Descends(i)'
      BY <3>1, <3>2, <3>3 DEF Descends
    <3>5. QED
      BY <3>1, <3>3, <3>4
  <2>2. CASE i \notin ChunkId
    <3>1. PICK k \in DOMAIN new : chunks'[i] = new[k]
      BY <1>2, <2>2
    <3>2. ChunkId \subseteq 1..(i - 1)
      BY <1>1, <1>3, <2>2
    <3>3. \A q \in ChunkId : chunks'[q] = chunks[q]
      BY <1>2
    <3>4. Descends(i)'
      BY <3>1, <3>2, <3>3 DEF Descends, Grows
    <3>5. QED
      BY <3>1, <3>4 DEF Grows
  <2>3. QED
    BY <2>1, <2>2
<1>9. ASSUME NEW i \in ChunkId', NEW j \in ChunkId', i # j,
             Level(chunks'[i]) = Level(chunks'[j])
      PROVE  chunks'[i].emails \cap chunks'[j].emails = {}
  <2>1. CASE i \in ChunkId /\ j \in ChunkId
    BY <1>2, <1>9, <2>1 DEF Tree
  <2>2. CASE i \in ChunkId /\ j \notin ChunkId
    <3>1. chunks'[i] = chunks[i] /\ \E k \in DOMAIN new : chunks'[j] = new[k]
      BY <1>2, <2>2
    <3>2. QED
      BY <1>9, <2>2, <3>1 DEF Grows
  <2>3. CASE i \notin ChunkId /\ j \in ChunkId
    <3>1. chunks'[j] = chunks[j] /\ \E k \in DOMAIN new : chunks'[i] = new[k]
      BY <1>2, <2>3
    <3>2. QED
      BY <1>9, <2>3, <3>1 DEF Grows
  <2>4. CASE i \notin ChunkId /\ j \notin ChunkId
    <3>1. /\ i - Len(chunks) \in DOMAIN new /\ chunks'[i] = new[i - Len(chunks)]
          /\ j - Len(chunks) \in DOMAIN new /\ chunks'[j] = new[j - Len(chunks)]
      BY <1>2, <2>4
    <3>2. i - Len(chunks) # j - Len(chunks)
      BY <1>1, <1>3, <1>9
    <3>3. QED
      BY <3>1, <3>2 DEF Grows
  <2>5. QED
    BY <2>1, <2>2, <2>3, <2>4
<1>10. Tree'
  BY <1>6, <1>7, <1>8, <1>9 DEF Tree
<1>11. \A k \in ChunkId' \ ChunkId : chunks'[k].parent = p
  BY <1>2 DEF Grows
<1>12. ASSUME NEW i \in ChunkId, i # p PROVE Kids(i)' = Kids(i)
  BY <1>2, <1>4, <1>11, <1>12 DEF Kids
<1>13. ASSUME NEW i \in ChunkId' \ ChunkId PROVE Kids(i)' = {}
  <2>1. ASSUME NEW k \in ChunkId' PROVE chunks'[k].parent # i
    <3>1. CASE k \in ChunkId
      <4>1. chunks[k].parent \in 1..(k - 1) \cup {0}
        BY <3>1 DEF Tree, Descends
      <4>2. chunks'[k].parent < i
        BY <1>1, <1>2, <1>3, <3>1, <4>1
      <4>3. QED
        BY <1>1, <1>2, <1>3, <3>1, <4>1
    <3>2. CASE k \notin ChunkId
      BY <1>1, <1>3, <1>11, <3>2
    <3>3. QED
      BY <3>1, <3>2
  <2>2. QED
    BY <2>1 DEF Kids
<1>14. QED
  BY <1>10, <1>12, <1>13

-----------------------------------------------------------------------------
(* The steps of workers and of complete move one chunk: its row, its result  *)
(* objects and the request that works on it.                                 *)

Moves(i, row, out, step) ==
  /\ chunks' \in Seq(Chunk) /\ output' \in Seq(Output) /\ request' \in Seq(RequestStep)
  /\ Len(chunks') = Len(chunks)
  /\ Len(output') = Len(output)
  /\ Len(request') = Len(request)
  /\ chunks'[i] = row /\ output'[i] = out /\ request'[i] = step
  /\ \A j \in ChunkId : j # i => /\ chunks'[j] = chunks[j]
                                 /\ output'[j] = output[j]
                                 /\ request'[j] = request[j]
  /\ UNCHANGED <<job, prepare, parser, finalizer>>

LEMMA Moved ==
  ASSUME Shape, NEW i \in ChunkId,
         NEW row \in Chunk, NEW out \in Output, NEW step \in RequestStep,
         \/ chunks' = [chunks EXCEPT ![i] = row]
         \/ chunks' = chunks /\ row = chunks[i],
         \/ output' = [output EXCEPT ![i] = out]
         \/ output' = output /\ out = output[i],
         request' = [request EXCEPT ![i] = step],
         UNCHANGED <<job, prepare, parser, finalizer>>
  PROVE  Moves(i, row, out, step)
<1>1. /\ chunks' \in Seq(Chunk)
      /\ Len(chunks') = Len(chunks)
      /\ chunks'[i] = row
      /\ \A j \in ChunkId : j # i => chunks'[j] = chunks[j]
  <2>1. CASE chunks' = [chunks EXCEPT ![i] = row]
    BY <2>1, RowSaved
  <2>2. CASE chunks' = chunks /\ row = chunks[i]
    BY <2>2 DEF Shape
  <2>3. QED
    BY <2>1, <2>2
<1>2. /\ output' \in Seq(Output)
      /\ Len(output') = Len(output)
      /\ output'[i] = out
      /\ \A j \in ChunkId : j # i => output'[j] = output[j]
  <2>1. CASE output' = [output EXCEPT ![i] = out]
    BY <2>1, OutputStored
  <2>2. CASE output' = output /\ out = output[i]
    BY <2>2 DEF Shape
  <2>3. QED
    BY <2>1, <2>2
<1>3. /\ request' \in Seq(RequestStep)
      /\ Len(request') = Len(request)
      /\ request'[i] = step
      /\ \A j \in ChunkId : j # i => request'[j] = request[j]
  BY RequestMoves
<1>4. QED
  BY <1>1, <1>2, <1>3 DEF Moves

LEMMA ClaimMoves ==
  ASSUME Shape, NEW i \in ChunkId, Claim(i)
  PROVE  Moves(i, [chunks[i] EXCEPT !.status = "processing"], output[i], "working")
<1> DEFINE row == [chunks[i] EXCEPT !.status = "processing"]
<1>1. row \in Chunk /\ "working" \in RequestStep
  BY Entries DEF Chunk, ChunkStatus, RequestStep
<1>2. chunks' = [chunks EXCEPT ![i] = row]
  BY DEF Claim, Shape, ChunkId
<1>3. /\ request' = [request EXCEPT ![i] = "working"]
      /\ UNCHANGED <<output, job, prepare, parser, finalizer>>
  BY DEF Claim
<1> HIDE DEF row
<1>4. Moves(i, row, output[i], "working")
  BY <1>1, <1>2, <1>3, Entries, Moved
<1>5. QED
  BY <1>4 DEF row

LEMMA VerifyMoves ==
  ASSUME Shape, NEW i \in ChunkId, Verify(i)
  PROVE  \E again \in AgainSets(chunks[i]) :
           Moves(i, chunks[i],
                 [settled |-> chunks[i].emails \ again, again |-> again], "complete")
<1>1. PICK again \in AgainSets(chunks[i]) :
        output' = [output EXCEPT
          ![i] = [settled |-> chunks[i].emails \ again, again |-> again]]
  BY DEF Verify
<1> DEFINE out == [settled |-> chunks[i].emails \ again, again |-> again]
<1>2. out \in Output /\ "complete" \in RequestStep
  BY Entries DEF Output, AgainSets, Chunk, RequestStep
<1>3. /\ output' = [output EXCEPT ![i] = out]
      /\ request' = [request EXCEPT ![i] = "complete"]
      /\ UNCHANGED <<chunks, job, prepare, parser, finalizer>>
  BY <1>1 DEF Verify
<1> HIDE DEF out
<1>4. Moves(i, chunks[i], out, "complete")
  BY <1>2, <1>3, Entries, Moved
<1>5. QED
  BY <1>4 DEF out

LEMMA FailMoves ==
  ASSUME Shape, NEW i \in ChunkId, Fail(i)
  PROVE  Moves(i, [chunks[i] EXCEPT
                     !.attempts = @ + 1,
                     !.status = IF chunks[i].attempts + 1 < MaxAttempts THEN "pending"
                                ELSE "failed"],
               output[i], "none")
<1> DEFINE row == [chunks[i] EXCEPT
                     !.attempts = @ + 1,
                     !.status = IF chunks[i].attempts + 1 < MaxAttempts THEN "pending"
                                ELSE "failed"]
<1>1. row \in Chunk /\ "none" \in RequestStep
  <2>1. chunks[i] \in Chunk
    BY Entries
  <2>2. chunks[i].attempts \in Nat
    BY <2>1 DEF Chunk
  <2>3. chunks[i].attempts + 1 \in Nat
    BY <2>2
  <2>4. [chunks[i] EXCEPT !.attempts = @ + 1] \in Chunk
    BY <2>1, <2>3 DEF Chunk
  <2>5. row \in Chunk
    BY <2>4 DEF Chunk, ChunkStatus
  <2>6. QED
    BY <2>5 DEF RequestStep
<1>2. chunks' = [chunks EXCEPT ![i] = row]
  BY DEF Fail, Shape, ChunkId
<1>3. /\ request' = [request EXCEPT ![i] = "none"]
      /\ UNCHANGED <<output, job, prepare, parser, finalizer>>
  BY DEF Fail
<1> HIDE DEF row
<1>4. Moves(i, row, output[i], "none")
  BY <1>1, <1>2, <1>3, Entries, Moved
<1>5. QED
  BY <1>4 DEF row

\* The steps of complete that mark the row completed.
LEMMA SaveMoves ==
  ASSUME Shape, NEW i \in ChunkId
  PROVE  /\ SaveHandoff(i) =>
              Moves(i, [chunks[i] EXCEPT !.status = "completed"],
                    [output[i] EXCEPT !.again = {}], "saved")
         /\ SaveScreening(i) =>
              Moves(i, [chunks[i] EXCEPT !.status = "completed"], output[i], "saved")
         /\ SaveProbe(i) =>
              Moves(i, [chunks[i] EXCEPT !.status = "completed"], output[i], "probe_saved")
<1> DEFINE row == [chunks[i] EXCEPT !.status = "completed"]
           out == [output[i] EXCEPT !.again = {}]
<1>1. row \in Chunk /\ out \in Output /\ {"saved", "probe_saved"} \subseteq RequestStep
  BY Entries DEF Chunk, ChunkStatus, Output, RequestStep
<1>2. ASSUME SaveHandoff(i) \/ SaveScreening(i) \/ SaveProbe(i)
      PROVE  chunks' = [chunks EXCEPT ![i] = row]
  BY <1>2 DEF SaveHandoff, SaveScreening, SaveProbe, Shape, ChunkId
<1>3. ASSUME SaveHandoff(i) PROVE output' = [output EXCEPT ![i] = out]
  BY <1>3 DEF SaveHandoff, Shape, ChunkId
<1> HIDE DEF row, out
<1>4. ASSUME SaveHandoff(i) PROVE Moves(i, row, out, "saved")
  <2>1. /\ request' = [request EXCEPT ![i] = "saved"]
        /\ UNCHANGED <<job, prepare, parser, finalizer>>
    BY <1>4 DEF SaveHandoff
  <2>2. QED
    BY <1>1, <1>2, <1>3, <1>4, <2>1, Moved
<1>5. ASSUME SaveScreening(i) PROVE Moves(i, row, output[i], "saved")
  <2>1. /\ request' = [request EXCEPT ![i] = "saved"]
        /\ UNCHANGED <<output, job, prepare, parser, finalizer>>
    BY <1>5 DEF SaveScreening
  <2>2. QED
    BY <1>1, <1>2, <1>5, <2>1, Entries, Moved
<1>6. ASSUME SaveProbe(i) PROVE Moves(i, row, output[i], "probe_saved")
  <2>1. /\ request' = [request EXCEPT ![i] = "probe_saved"]
        /\ UNCHANGED <<output, job, prepare, parser, finalizer>>
    BY <1>6 DEF SaveProbe
  <2>2. QED
    BY <1>1, <1>2, <1>6, <2>1, Entries, Moved
<1>7. QED
  BY <1>4, <1>5, <1>6 DEF row, out

LEMMA FilterRiskyMoves ==
  ASSUME Shape, NEW i \in ChunkId, FilterRisky(i)
  PROVE  Moves(i, [chunks[i] EXCEPT !.filtered = TRUE], output[i], "saved")
<1> DEFINE row == [chunks[i] EXCEPT !.filtered = TRUE]
<1>1. row \in Chunk /\ "saved" \in RequestStep
  BY Entries DEF Chunk, RequestStep
<1>2. chunks' = [chunks EXCEPT ![i] = row]
  BY DEF FilterRisky, Shape, ChunkId
<1>3. /\ request' = [request EXCEPT ![i] = "saved"]
      /\ UNCHANGED <<output, job, prepare, parser, finalizer>>
  BY DEF FilterRisky
<1> HIDE DEF row
<1>4. Moves(i, row, output[i], "saved")
  BY <1>1, <1>2, <1>3, Entries, Moved
<1>5. QED
  BY <1>4 DEF row

\* A step that moves nothing but the request.
LEMMA RequestOnly ==
  ASSUME Shape, NEW i \in ChunkId, NEW step \in RequestStep,
         request' = [request EXCEPT ![i] = step],
         UNCHANGED <<chunks, output, job, prepare, parser, finalizer>>
  PROVE  Moves(i, chunks[i], output[i], step)
BY Entries, Moved

-----------------------------------------------------------------------------
(* Those steps keep the tree and keep requests and rows in step.             *)

SameBirth(r, s) ==
  r.no = s.no /\ r.stage = s.stage /\ r.parent = s.parent /\ r.retry = s.retry
    /\ r.emails = s.emails

LEMMA MoveInStep ==
  ASSUME PipelineInv, NEW i \in ChunkId,
         NEW row \in Chunk, NEW out \in Output, NEW step \in RequestStep,
         Moves(i, row, out, step), SameBirth(row, chunks[i]), queued' \in Nat,
         step \in {"working", "complete", "handoff"} <=> row.status = "processing",
         step \in {"probe_saved", "retry_created", "saved"} => row.status = "completed",
         step \in {"probe_saved", "retry_created"} => row.stage = "smtp_probe",
         out.settled \cup out.again \subseteq row.emails,
         row.stage = "smtp_probe" /\ Kids(i) # {} =>
           row.status = "completed" /\ step # "probe_saved"
  PROVE  PipelineInv'
<1>1. Shape /\ Tree /\ ParseInv /\ \A j \in ChunkId : InStep(j)
  BY DEF PipelineInv
<1>2. TreeKept
  BY DEF Moves, TreeKept, SameBirth
<1>3. /\ ChunkId' = ChunkId
      /\ \A j \in ChunkId : Kids(j)' = Kids(j)
      /\ Tree'
  BY <1>1, <1>2, KeptTree
<1>4. Shape'
  BY <1>1, <1>3 DEF Shape, Moves
<1>5. ASSUME NEW j \in ChunkId PROVE InStep(j)'
  <2>1. Kids(j)' = Kids(j)
    BY <1>3
  <2>2. CASE j = i
    BY <2>1, <2>2 DEF InStep, Moves
  <2>3. CASE j # i
    <3>1. /\ chunks'[j] = chunks[j]
          /\ output'[j] = output[j]
          /\ request'[j] = request[j]
      BY <2>3 DEF Moves
    <3>2. QED
      BY <1>1, <2>1, <3>1 DEF InStep
  <2>4. QED
    BY <2>2, <2>3
<1>6. ParseInv'
  <2>1. job' = job /\ parser' = parser
    BY DEF Moves
  <2>2. chunks # <<>> /\ chunks' # <<>>
    BY <1>1, <1>2 DEF Shape, ChunkId, TreeKept
  <2>3. \A j \in ChunkId : /\ chunks'[j].stage = chunks[j].stage
                           /\ chunks'[j].emails = chunks[j].emails
    BY <1>2 DEF TreeKept
  <2>4. Stale' <=> Stale
    BY <2>1, <2>2 DEF Stale
  <2>5. QED
    BY <1>1, <1>3, <2>1, <2>2, <2>3, <2>4 DEF ParseInv
<1>7. QED
  BY <1>3, <1>4, <1>5, <1>6 DEF PipelineInv

\* A step that inserts rows: those of p, which is 0 for the parser's.
LEMMA AddInStep ==
  ASSUME PipelineInv, NEW new \in Seq(Chunk), NEW at \in Seq(RequestStep),
         Len(at) = Len(chunks), AddChunks(new, at),
         NEW p \in ChunkId \cup {0}, Grows(new, p),
         \A k \in DOMAIN new : new[k].status = "pending",
         \A j \in ChunkId : j # p => at[j] = request[j],
         \/ p = 0
         \/ /\ at[p] = "handoff"
            /\ chunks[p].status = "processing" /\ chunks[p].stage = "screening"
         \/ /\ at[p] = "retry_created"
            /\ chunks[p].status = "completed" /\ chunks[p].stage = "smtp_probe",
         UNCHANGED <<job, prepare, queued, finalizer>>,
         parser' \in [pc : {"none", "queued", "running", "done", "lost"},
                      cacheOnly : BOOLEAN, todo : SUBSET Email, open : SUBSET Email,
                      hits : SUBSET Email, no : Nat, tries : Nat]
  PROVE  Shape' /\ Tree' /\ (\A i \in ChunkId' : InStep(i)')
<1>1. Shape /\ Tree /\ \A j \in ChunkId : InStep(j)
  BY DEF PipelineInv
<1>2. /\ Tree'
      /\ \A i \in ChunkId : i # p => Kids(i)' = Kids(i)
      /\ \A i \in ChunkId' \ ChunkId : Kids(i)' = {}
  BY <1>1, GrownTree
<1>3. /\ chunks' \in Seq(Chunk)
      /\ output' \in Seq(Output)
      /\ request' \in Seq(RequestStep)
      /\ Len(chunks') = Len(chunks) + Len(new)
      /\ Len(output') = Len(chunks') /\ Len(request') = Len(chunks')
      /\ \A j \in ChunkId : /\ chunks'[j] = chunks[j]
                            /\ output'[j] = output[j]
                            /\ request'[j] = at[j]
      /\ \A j \in ChunkId' \ ChunkId :
           /\ j - Len(chunks) \in DOMAIN new
           /\ chunks'[j] = new[j - Len(chunks)]
           /\ output'[j] = NoOutput
           /\ request'[j] = "none"
  BY <1>1, ChunksAdded
<1>4. Len(chunks) <= Len(chunks') /\ ChunkId \subseteq ChunkId'
  BY <1>1, <1>3 DEF Shape, ChunkId
<1>5. Shape'
  <2>1. job' \in [status : JobStatus, cached : SUBSET Email,
                  rows : [Email -> SUBSET (ChunkId' \cup {CacheFile})]]
    BY <1>1, <1>4 DEF Shape
  <2>2. Len(finalizer'.chunks) <= Len(chunks')
    BY <1>1, <1>3, <1>4 DEF Shape
  <2>3. QED
    BY <1>1, <1>3, <2>1, <2>2 DEF Shape
<1>6. ASSUME NEW i \in ChunkId' PROVE InStep(i)'
  <2>1. CASE i \in ChunkId /\ i # p
    <3>1. /\ chunks'[i] = chunks[i]
          /\ output'[i] = output[i]
          /\ request'[i] = request[i]
      BY <1>3, <2>1
    <3>2. Kids(i)' = Kids(i) /\ InStep(i)
      BY <1>1, <1>2, <2>1
    <3>3. QED
      BY <3>1, <3>2 DEF InStep
  <2>2. CASE i \in ChunkId /\ i = p
    <3>1. /\ chunks'[i] = chunks[i]
          /\ output'[i] = output[i]
          /\ request'[i] = at[i]
      BY <1>3, <2>2
    <3>2. i # 0 /\ InStep(i)
      BY <1>1, <2>2, Entries
    <3>3. QED
      BY <2>2, <3>1, <3>2 DEF InStep
  <2>3. CASE i \notin ChunkId
    <3>1. chunks'[i].status = "pending" /\ output'[i] = NoOutput /\ request'[i] = "none"
      BY <1>3, <2>3
    <3>2. Kids(i)' = {}
      BY <1>2, <2>3
    <3>3. QED
      BY <3>1, <3>2 DEF InStep, NoOutput
  <2>4. QED
    BY <2>1, <2>2, <2>3
<1>7. QED
  BY <1>2, <1>5, <1>6

\* The planners insert probe chunks, which the parser does not look at.
LEMMA ParserLeftAlone ==
  ASSUME PipelineInv, NEW p \in ChunkId, NEW new \in Seq(Chunk), NEW at \in Seq(RequestStep),
         Len(at) = Len(chunks), AddChunks(new, at), Grows(new, p),
         UNCHANGED <<job, parser>>
  PROVE  ParseInv'
<1>1. Shape /\ ParseInv
  BY DEF PipelineInv
<1>2. /\ Len(chunks') = Len(chunks) + Len(new)
      /\ \A j \in ChunkId : chunks'[j] = chunks[j]
      /\ \A j \in ChunkId' \ ChunkId :
           /\ j - Len(chunks) \in DOMAIN new
           /\ chunks'[j] = new[j - Len(chunks)]
  BY <1>1, ChunksAdded
<1>3. p # 0 /\ Len(chunks) > 0 /\ chunks # <<>>
  BY <1>1 DEF Shape, ChunkId
<1>4. chunks' # <<>>
  BY <1>1, <1>2, <1>3 DEF Shape
<1>5. \A j \in ChunkId' \ ChunkId : chunks'[j].stage # "screening"
  BY <1>2, <1>3 DEF Grows
<1>6. Stale' <=> Stale
  BY <1>3, <1>4 DEF Stale
<1>7. (\A j \in ChunkId : chunks[j].stage = "screening" =>
         chunks[j].emails \cap (parser.todo \cup parser.open) = {})
      => (\A j \in ChunkId' : chunks'[j].stage = "screening" =>
            chunks'[j].emails \cap (parser.todo \cup parser.open) = {})
  BY <1>2, <1>5
<1>8. QED
  BY <1>1, <1>3, <1>4, <1>6, <1>7 DEF ParseInv

LEMMA NewChunkIsChunk ==
  ASSUME NEW no \in Nat, NEW stage \in {"screening", "smtp_probe"}, NEW parent \in Nat,
         NEW retry \in Nat, NEW emails \in SUBSET Email
  PROVE  /\ NewChunk(no, stage, parent, retry, emails) \in Chunk
         /\ NewChunk(no, stage, parent, retry, emails).status = "pending"
         /\ NewChunk(no, stage, parent, retry, emails).no = no
         /\ NewChunk(no, stage, parent, retry, emails).stage = stage
         /\ NewChunk(no, stage, parent, retry, emails).parent = parent
         /\ NewChunk(no, stage, parent, retry, emails).retry = retry
         /\ NewChunk(no, stage, parent, retry, emails).emails = emails
         /\ ~NewChunk(no, stage, parent, retry, emails).filtered
BY DEF NewChunk, Chunk, ChunkStatus

LEMMA OneRow ==
  ASSUME NEW row \in Chunk
  PROVE  /\ <<row>> \in Seq(Chunk) /\ Len(<<row>>) = 1
         /\ DOMAIN <<row>> = {1} /\ <<row>>[1] = row
OBVIOUS

\* The probe chunks of a screening chunk that has none.
LEMMA ProbesGrow ==
  ASSUME PipelineInv, NEW i \in ChunkId, chunks[i].stage = "screening",
         Kids(i) = {}, output[i].again # {}
  PROVE  /\ ProbeChunks(i, output[i].again) \in Seq(Chunk)
         /\ Grows(ProbeChunks(i, output[i].again), i)
         /\ DOMAIN ProbeChunks(i, output[i].again) = DOMAIN Shards(output[i].again)
         /\ \A k \in DOMAIN Shards(output[i].again) :
              /\ ProbeChunks(i, output[i].again)[k].status = "pending"
              /\ ProbeChunks(i, output[i].again)[k].stage = "smtp_probe"
              /\ ProbeChunks(i, output[i].again)[k].emails = Shards(output[i].again)[k]
              /\ ~ProbeChunks(i, output[i].again)[k].filtered
<1> DEFINE again == output[i].again
           new == ProbeChunks(i, again)
           shards == Shards(again)
<1>1. Shape /\ Tree /\ InStep(i)
  BY DEF PipelineInv
<1>2. /\ again \in SUBSET Email /\ again # {} /\ again \subseteq chunks[i].emails
      /\ i \in Nat \ {0}
  BY <1>1, Entries DEF Output, InStep
<1>3. /\ shards \in Seq(SUBSET Email)
      /\ \A k \in DOMAIN shards : shards[k] # {} /\ shards[k] \subseteq again
      /\ \A k, m \in DOMAIN shards : k # m => shards[k] \cap shards[m] = {}
      /\ \A e \in again : \E k \in DOMAIN shards : e \in shards[k]
  BY <1>2, ShardsPartition
<1>4. /\ NextChunkNo \in Nat \ {0}
      /\ \A j \in ChunkId : chunks[j].no < NextChunkNo
  BY <1>1, NextChunkNoIsFree DEF Tree
<1>5. new = [k \in DOMAIN shards |->
               NewChunk(NextChunkNo + k - 1, "smtp_probe", i, 0, shards[k])]
  BY DEF ProbeChunks
<1> HIDE DEF new, shards, again
<1>6. DOMAIN shards = 1..Len(shards) /\ Len(shards) \in Nat /\ DOMAIN shards # {}
  BY <1>2, <1>3
<1>7. ASSUME NEW k \in DOMAIN shards
      PROVE  /\ new[k] \in Chunk /\ new[k].status = "pending"
             /\ new[k].no = NextChunkNo + k - 1 /\ new[k].stage = "smtp_probe"
             /\ new[k].parent = i /\ new[k].retry = 0 /\ new[k].emails = shards[k]
             /\ ~new[k].filtered
  <2>1. new[k] = NewChunk(NextChunkNo + k - 1, "smtp_probe", i, 0, shards[k])
    BY <1>5
  <2>2. NextChunkNo + k - 1 \in Nat /\ shards[k] \in SUBSET Email
    BY <1>3, <1>4, <1>6
  <2>3. QED
    BY <1>2, <2>1, <2>2, NewChunkIsChunk
<1>8. DOMAIN new = 1..Len(shards) /\ new \in Seq(Chunk)
  <2>1. new \in [1..Len(shards) -> Chunk]
    BY <1>5, <1>6, <1>7
  <2>2. QED
    BY <1>6, <2>1
<1>9. Level(chunks[i]) = 0 /\ MaxProbeAttempts \in Nat \ {0}
  BY VerificationPipelineAssumption DEF Level
<1>10. \E k \in DOMAIN new : \A m \in DOMAIN new : new[m].no <= new[k].no
  <2>1. Len(shards) \in DOMAIN new
    BY <1>6, <1>8
  <2>2. \A m \in DOMAIN new : new[m].no <= new[Len(shards)].no
    BY <1>4, <1>6, <1>7, <1>8
  <2>3. QED
    BY <2>1, <2>2
<1>11. \A k \in DOMAIN new :
         /\ new[k].parent = i
         /\ new[k].emails # {}
         /\ Level(new[k]) = 1
         /\ new[k].stage # "screening"
         /\ new[k].emails \subseteq chunks[i].emails
  <2> TAKE k \in DOMAIN new
  <2>1. k \in DOMAIN shards
    BY <1>6, <1>8
  <2>2. /\ new[k].stage = "smtp_probe" /\ new[k].parent = i /\ new[k].retry = 0
        /\ new[k].emails = shards[k]
    BY <1>7, <2>1
  <2>3. shards[k] # {} /\ shards[k] \subseteq chunks[i].emails
    BY <1>2, <1>3, <2>1
  <2>4. QED
    BY <2>2, <2>3 DEF Level
<1>12. ASSUME NEW k \in DOMAIN new, NEW j \in ChunkId, Level(new[k]) = Level(chunks[j])
       PROVE  new[k].emails \cap chunks[j].emails = {}
  <2>1. Level(chunks[j]) = Level(chunks[i]) + 1
    BY <1>9, <1>11, <1>12
  <2>2. chunks[j].emails \cap chunks[i].emails = {}
    BY <1>1, <2>1, LevelIsFree
  <2>3. QED
    BY <1>11, <2>2
<1>13. ASSUME NEW k \in DOMAIN new, NEW m \in DOMAIN new, k # m
       PROVE  new[k].emails \cap new[m].emails = {}
  <2>1. k \in DOMAIN shards /\ m \in DOMAIN shards
    BY <1>6, <1>8
  <2>2. new[k].emails = shards[k] /\ new[m].emails = shards[m]
    BY <1>7, <2>1
  <2>3. QED
    BY <1>3, <1>13, <2>1, <2>2
<1>14. chunks # <<>>
  BY <1>1 DEF Shape, ChunkId
<1>15. Level(chunks[i]) + 1 = 1 /\ 1 <= MaxProbeAttempts + 1
  BY <1>9
<1>16. Grows(new, i)
  <2>1. DOMAIN new # {}
    BY <1>6, <1>8
  <2>2. ASSUME NEW k \in DOMAIN new
        PROVE  /\ new[k].parent = i
               /\ new[k].emails # {}
               /\ Level(new[k]) <= MaxProbeAttempts + 1
               /\ new[k].stage # "screening"
               /\ new[k].emails \subseteq chunks[i].emails
               /\ Level(new[k]) = Level(chunks[i]) + 1
    BY <1>11, <1>15
  <2>3. QED
    BY <1>10, <1>12, <1>13, <1>14, <2>1, <2>2 DEF Grows
<1>17. QED
  BY <1>6, <1>7, <1>8, <1>16 DEF new, shards, again

\* The retry chunk of a probe chunk that has none.
LEMMA RetryGrows ==
  ASSUME PipelineInv, NEW i \in ChunkId, chunks[i].stage = "smtp_probe",
         Kids(i) = {}, Retryable(i)
  PROVE  LET row == NewChunk(NextChunkNo, "smtp_probe", i, chunks[i].retry + 1,
                             output[i].again) IN
         /\ row \in Chunk /\ row.status = "pending" /\ row.parent = i
         /\ row.stage = "smtp_probe" /\ row.emails = output[i].again
         /\ ~row.filtered
         /\ Grows(<<row>>, i)
<1> DEFINE row == NewChunk(NextChunkNo, "smtp_probe", i, chunks[i].retry + 1,
                           output[i].again)
<1>1. Shape /\ Tree /\ InStep(i)
  BY DEF PipelineInv
<1>2. /\ output[i].again \in SUBSET Email /\ output[i].again # {}
      /\ output[i].again \subseteq chunks[i].emails
      /\ i \in Nat \ {0}
      /\ chunks[i].retry \in Nat /\ chunks[i].retry < MaxProbeAttempts
  BY <1>1, Entries DEF Output, InStep, Retryable, Chunk
<1>3. NextChunkNo \in Nat \ {0}
  BY <1>1, NextChunkNoIsFree DEF Tree
<1>4. /\ row \in Chunk /\ row.status = "pending" /\ row.stage = "smtp_probe"
      /\ row.parent = i /\ row.retry = chunks[i].retry + 1
      /\ row.emails = output[i].again /\ ~row.filtered
  <2>1. /\ NextChunkNo \in Nat /\ i \in Nat /\ chunks[i].retry + 1 \in Nat
        /\ output[i].again \in SUBSET Email
    BY <1>2, <1>3
  <2>2. QED
    BY <2>1 DEF NewChunk, Chunk, ChunkStatus
<1> HIDE DEF row
<1>5. MaxProbeAttempts \in Nat \ {0}
  BY VerificationPipelineAssumption
<1>6. Level(row) = Level(chunks[i]) + 1 /\ Level(row) <= MaxProbeAttempts + 1
  BY <1>2, <1>4, <1>5 DEF Level
<1>7. ASSUME NEW j \in ChunkId, Level(row) = Level(chunks[j])
      PROVE  row.emails \cap chunks[j].emails = {}
  BY <1>1, <1>2, <1>4, <1>6, <1>7, LevelIsFree
<1>8. chunks # <<>>
  BY <1>1 DEF Shape, ChunkId
<1>9. row.no <= row.no
  BY <1>4 DEF Chunk
<1>10. DOMAIN <<row>> = {1} /\ <<row>>[1] = row
  BY <1>4, OneRow
<1>11. Grows(<<row>>, i)
  BY <1>2, <1>4, <1>6, <1>7, <1>8, <1>9, <1>10 DEF Grows
<1>12. QED
  BY <1>4, <1>11 DEF row

-----------------------------------------------------------------------------
(* The steps that leave the rows alone, and the parser's.                    *)

Parsers == [pc : {"none", "queued", "running", "done", "lost"},
            cacheOnly : BOOLEAN, todo : SUBSET Email, open : SUBSET Email,
            hits : SUBSET Email, no : Nat, tries : Nat]

LEMMA RowsLeftAlone ==
  ASSUME PipelineInv, UNCHANGED <<chunks, output, request>>, Shape', ParseInv'
  PROVE  PipelineInv'
<1>1. ChunkId' = ChunkId /\ \A i \in ChunkId : Kids(i)' = Kids(i)
  BY DEF ChunkId, Kids
<1>2. Tree'
  <2>1. TreeKept
    BY DEF PipelineInv, Shape, TreeKept
  <2>2. QED
    BY <2>1, KeptTree DEF PipelineInv
<1>3. \A i \in ChunkId : InStep(i)'
  BY <1>1 DEF PipelineInv, InStep
<1>4. QED
  BY <1>1, <1>2, <1>3 DEF PipelineInv

\* A status and rows that are in the job's table.
LEMMA JobSaved ==
  ASSUME Shape, NEW status \in JobStatus, NEW cached \in SUBSET Email,
         UNCHANGED chunks
  PROVE  /\ [job EXCEPT !.status = status] \in
              [status : JobStatus, cached : SUBSET Email,
               rows : [Email -> SUBSET (ChunkId' \cup {CacheFile})]]
         /\ [job EXCEPT !.cached = cached] \in
              [status : JobStatus, cached : SUBSET Email,
               rows : [Email -> SUBSET (ChunkId' \cup {CacheFile})]]
         /\ job \in
              [status : JobStatus, cached : SUBSET Email,
               rows : [Email -> SUBSET (ChunkId' \cup {CacheFile})]]
<1>1. ChunkId' = ChunkId
  BY DEF ChunkId
<1>2. QED
  BY <1>1 DEF Shape

LEMMA NewParseIsParse ==
  ASSUME NEW tries \in Nat, NEW cacheOnly \in BOOLEAN
  PROVE  NewParse(tries, cacheOnly) \in Parsers
BY DEF NewParse, Parsers

LEMMA PrepareStep ==
  ASSUME PipelineInv, Prepare \/ PrepareDies
  PROVE  PipelineInv'
<1>1. Shape /\ ParseInv
  BY DEF PipelineInv
<1>2. UNCHANGED <<chunks, output, request, queued, finalizer>> /\ prepare' \in BOOLEAN
  BY DEF Prepare, PrepareDies
<1>3. job' = job \/ job' = [job EXCEPT !.status = "processing"]
  BY DEF Prepare, PrepareDies
<1>4. \/ parser' = parser
      \/ /\ job.status = "pending" /\ job' = [job EXCEPT !.status = "processing"]
         /\ \E cacheOnly \in CacheOnlySettings : parser' = NewParse(1, cacheOnly)
  <2>1. CASE Prepare
    BY <2>1 DEF Prepare
  <2>2. CASE PrepareDies
    BY <2>2 DEF PrepareDies
  <2>3. QED
    BY <2>1, <2>2
<1>5. parser' \in Parsers
  <2>1. parser \in Parsers
    BY <1>1 DEF Shape, Parsers
  <2>2. \A cacheOnly \in CacheOnlySettings : NewParse(1, cacheOnly) \in Parsers
    BY NewParseIsParse, VerificationPipelineAssumption
  <2>3. QED
    BY <1>4, <2>1, <2>2
<1>6. /\ job' \in [status : JobStatus, cached : SUBSET Email,
                   rows : [Email -> SUBSET (ChunkId' \cup {CacheFile})]]
      /\ job'.status # "pending" \/ job' = job
  <2>1. "processing" \in JobStatus /\ {} \in SUBSET Email
    BY DEF JobStatus
  <2>2. QED
    BY <1>1, <1>2, <1>3, <2>1, JobSaved DEF Shape
<1>7. Shape'
  BY <1>1, <1>2, <1>5, <1>6 DEF Shape, Parsers
<1>8. ParseInv'
  <2>1. CASE parser' = parser
    BY <1>1, <1>2, <1>6, <2>1 DEF ParseInv, Stale, ChunkId
  <2>2. CASE /\ job.status = "pending" /\ job' = [job EXCEPT !.status = "processing"]
             /\ \E cacheOnly \in CacheOnlySettings : parser' = NewParse(1, cacheOnly)
    <3>1. chunks = <<>>
      BY <1>1, <2>2 DEF ParseInv
    <3>2. /\ parser'.pc = "queued" /\ parser'.no = 1 /\ parser'.open = {}
      BY <2>2 DEF NewParse
    <3>3. job'.status # "pending"
      BY <2>2, <1>1 DEF Shape
    <3>4. ChunkId' = {}
      BY <1>2, <3>1 DEF ChunkId
    <3>5. QED
      BY <1>2, <3>1, <3>2, <3>3, <3>4 DEF ParseInv
  <2>3. QED
    BY <1>4, <2>1, <2>2
<1>9. QED
  BY <1>2, <1>7, <1>8, RowsLeftAlone

LEMMA ParserMoves ==
  ASSUME PipelineInv, ParseStarts \/ ParseEnds \/ ParseFails \/ ParseDies
  PROVE  PipelineInv'
<1>1. Shape /\ ParseInv
  BY DEF PipelineInv
<1>2. UNCHANGED <<prepare, chunks, output, request, finalizer>> /\ queued' \in Nat
  BY <1>1 DEF Shape, ParseStarts, ParseEnds, ParseFails, ParseDies
<1>3. parser' \in Parsers
  <2>1. CASE ParseStarts
    BY <1>1, <2>1 DEF Shape, Parsers, ParseStarts
  <2>2. CASE ParseEnds \/ ParseFails
    BY <1>1, <2>2 DEF Shape, Parsers, ParseEnds, ParseFails
  <2>3. CASE ParseDies
    <3>1. parser.tries + 1 \in Nat /\ parser.cacheOnly \in BOOLEAN
      BY <1>1 DEF Shape
    <3>2. [parser EXCEPT !.pc = "lost"] \in Parsers
      BY <1>1 DEF Shape, Parsers
    <3>3. QED
      BY <2>3, <3>1, <3>2, NewParseIsParse DEF ParseDies
  <2>4. QED
    BY <2>1, <2>2, <2>3
<1>4. job' \in [status : JobStatus, cached : SUBSET Email,
                rows : [Email -> SUBSET (ChunkId' \cup {CacheFile})]]
  <2>1. \/ job' = job
        \/ job' = [job EXCEPT !.cached = parser.hits]
        \/ job' = [job EXCEPT !.status = "failed"]
    BY DEF ParseStarts, ParseEnds, ParseFails, ParseDies
  <2>2. parser.hits \in SUBSET Email /\ "failed" \in JobStatus
    BY <1>1 DEF Shape, JobStatus
  <2>3. QED
    BY <1>1, <1>2, <2>1, <2>2, JobSaved
<1>5. Shape'
  BY <1>1, <1>2, <1>3, <1>4 DEF Shape, Parsers
<1>6. parser.pc # "none" /\ job.status # "pending" /\ job'.status # "pending"
  BY <1>1 DEF ParseInv, Shape, ParseStarts, ParseEnds, ParseFails, ParseDies
<1>7. parser'.pc # "none" /\ parser'.no # 0
  BY <1>1 DEF ParseInv, Shape, NewParse, ParseStarts, ParseEnds, ParseFails, ParseDies
<1>8. ParseInv'
  <2>1. CASE ParseStarts
    <3>1. parser'.todo = parser.todo /\ parser'.open = parser.open /\ parser'.no = parser.no
      BY <1>1, <2>1 DEF Shape, ParseStarts
    <3>2. parser.pc = "queued"
      BY <2>1 DEF ParseStarts
    <3>3. QED
      BY <1>1, <1>2, <1>6, <1>7, <3>1, <3>2 DEF ParseInv, Stale, ChunkId
  <2>2. CASE ParseEnds \/ ParseFails
    <3>1. parser'.pc = "done"
      BY <1>1, <2>2 DEF Shape, ParseEnds, ParseFails
    <3>2. QED
      BY <1>6, <1>7, <3>1 DEF ParseInv
  <2>3. CASE ParseDies
    <3>1. CASE parser' = NewParse(parser.tries + 1, parser.cacheOnly)
      <4>1. parser'.no = 1 /\ parser'.open = {} /\ parser'.todo = Email
        BY <3>1 DEF NewParse
      <4>2. chunks' = <<>> => ChunkId' = {}
        BY DEF ChunkId
      <4>3. QED
        BY <1>6, <1>7, <4>1, <4>2 DEF ParseInv, Stale
    <3>2. CASE parser' = [parser EXCEPT !.pc = "lost"]
      <4>1. parser'.pc = "lost"
        BY <1>1, <3>2 DEF Shape
      <4>2. QED
        BY <1>6, <1>7, <4>1 DEF ParseInv
    <3>3. QED
      BY <2>3, <3>1, <3>2 DEF ParseDies
  <2>4. QED
    BY <2>1, <2>2, <2>3
<1>9. QED
  BY <1>2, <1>5, <1>8, RowsLeftAlone

LEMMA FinalizeStep ==
  ASSUME PipelineInv,
         \/ Finalize \/ FinalizeDies \/ FinalizeReleased
         \/ AdminFailsJob \/ AdminFinalizes
  PROVE  PipelineInv'
<1>1. Shape /\ ParseInv
  BY DEF PipelineInv
<1>2. UNCHANGED <<prepare, parser, chunks, output, request>> /\ queued' \in Nat
  BY <1>1 DEF Shape, Finalize, FinalizeStarts, FinalizeSaves, FinalizeFails,
              FinalizeDies, FinalizeReleased, AdminFailsJob, AdminFinalizes
<1>3. /\ job' \in [status : JobStatus, cached : SUBSET Email,
                   rows : [Email -> SUBSET (ChunkId' \cup {CacheFile})]]
      /\ job'.status # "pending" \/ job' = job
  <2>1. CASE job' = job
    BY <1>1, <1>2, <2>1 DEF Shape, ChunkId
  <2>2. CASE job' = [job EXCEPT !.status = "failed"]
    <3>1. "failed" \in JobStatus
      BY DEF JobStatus
    <3>2. QED
      BY <1>1, <1>2, <2>2, <3>1, JobSaved DEF Shape
  <2>3. CASE FinalizeSaves
    <3>1. \A e \in Email : MergedRows(e) \subseteq ChunkId' \cup {CacheFile}
      BY <1>1, <1>2 DEF MergedRows, Shape, ChunkId
    <3>2. [e \in Email |-> MergedRows(e)]
            \in [Email -> SUBSET (ChunkId' \cup {CacheFile})]
      BY <3>1
    <3>3. QED
      BY <1>1, <2>3, <3>2 DEF FinalizeSaves, Shape, JobStatus
  <2>4. QED
    BY <2>1, <2>2, <2>3 DEF Finalize, FinalizeStarts, FinalizeFails, FinalizeDies,
                            FinalizeReleased, AdminFailsJob, AdminFinalizes
<1>4. /\ finalizer'.pc \in {"idle", "loaded"}
      /\ finalizer'.cached \subseteq Email
      /\ finalizer'.chunks \in Seq(Chunk)
      /\ Len(finalizer'.chunks) <= Len(chunks')
  <2>1. \/ finalizer' = finalizer
        \/ finalizer' = NoFinalize
        \/ finalizer' = [pc |-> "loaded", cached |-> job.cached, chunks |-> chunks]
    BY DEF Finalize, FinalizeStarts, FinalizeSaves, FinalizeFails, FinalizeDies,
           FinalizeReleased, AdminFailsJob, AdminFinalizes
  <2>2. Len(chunks) \in Nat /\ job.cached \subseteq Email
    BY <1>1 DEF Shape
  <2>3. CASE finalizer' = finalizer
    BY <1>1, <1>2, <2>3 DEF Shape
  <2>4. CASE finalizer' = NoFinalize
    <3>1. finalizer'.chunks = <<>> /\ finalizer'.cached = {} /\ finalizer'.pc = "idle"
      BY <2>4 DEF NoFinalize
    <3>2. <<>> \in Seq(Chunk) /\ Len(<<>>) = 0
      OBVIOUS
    <3>3. QED
      BY <1>2, <2>2, <3>1, <3>2
  <2>5. CASE finalizer' = [pc |-> "loaded", cached |-> job.cached, chunks |-> chunks]
    BY <1>1, <1>2, <2>2, <2>5 DEF Shape
  <2>6. QED
    BY <2>1, <2>3, <2>4, <2>5
<1>5. Shape'
  BY <1>1, <1>2, <1>3, <1>4 DEF Shape
<1>6. ParseInv'
  BY <1>1, <1>2, <1>3 DEF ParseInv, Stale, ChunkId
<1>7. QED
  BY <1>2, <1>5, <1>6, RowsLeftAlone

\* The parser's next chunk, under a number that no chunk has.  Its parse is not
\* a second one that started over: the first chunk has the number 1.
LEMMA ScreeningGrows ==
  ASSUME PipelineInv, parser.pc = "running",
         NEW emails \in SUBSET Email, emails # {},
         emails \subseteq parser.todo \cup parser.open,
         ~\E i \in ChunkId : chunks[i].no = parser.no
  PROVE  LET row == NewChunk(parser.no, "screening", 0, 0, emails) IN
         /\ ~Stale
         /\ row \in Chunk /\ row.status = "pending" /\ row.parent = 0
         /\ row.stage = "screening" /\ row.emails = emails
         /\ ~row.filtered
         /\ Grows(<<row>>, 0)
<1> DEFINE row == NewChunk(parser.no, "screening", 0, 0, emails)
<1>1. Shape /\ Tree /\ ParseInv
  BY DEF PipelineInv
<1>2. parser.no \in Nat \ {0} /\ (chunks = <<>> => parser.no = 1)
  BY <1>1 DEF ParseInv, Shape
<1>3. /\ row \in Chunk /\ row.status = "pending" /\ row.no = parser.no
      /\ row.stage = "screening" /\ row.parent = 0 /\ row.emails = emails
      /\ ~row.filtered
  BY <1>2, NewChunkIsChunk
<1> HIDE DEF row
<1>4. ~Stale
  <2>1. CASE chunks = <<>>
    BY <2>1 DEF Stale
  <2>2. CASE chunks # <<>>
    <3>1. 1 \in ChunkId /\ chunks[1].no = 1
      BY <1>1, <2>2 DEF Shape, Tree, ChunkId
    <3>2. QED
      BY <3>1 DEF Stale
  <2>3. QED
    BY <2>1, <2>2
<1>5. \A i \in ChunkId : chunks[i].stage = "screening" =>
        chunks[i].emails \cap (parser.todo \cup parser.open) = {}
  BY <1>1, <1>4 DEF ParseInv
<1>6. ASSUME NEW j \in ChunkId, Level(row) = Level(chunks[j])
      PROVE  row.emails \cap chunks[j].emails = {}
  <2>1. chunks[j].stage = "screening"
    <3>1. chunks[j].retry \in Nat /\ Level(row) = 0
      BY <1>1, <1>3, Entries DEF Chunk, Level
    <3>2. QED
      BY <1>6, <3>1 DEF Level
  <2>2. QED
    BY <1>3, <1>5, <2>1
<1>7. Level(row) <= MaxProbeAttempts + 1
  BY <1>3, VerificationPipelineAssumption DEF Level
<1>8. row.no <= row.no
  BY <1>2, <1>3
<1>9. DOMAIN <<row>> = {1} /\ <<row>>[1] = row
  BY <1>3, OneRow
<1>10. Grows(<<row>>, 0)
  BY <1>2, <1>3, <1>6, <1>7, <1>8, <1>9 DEF Grows
<1>11. QED
  BY <1>3, <1>4, <1>10 DEF row

\* The open chunk is written: under a free number, or the job fails.
LEMMA WriteChunkStep ==
  ASSUME PipelineInv, parser.pc = "running",
         NEW emails \in SUBSET Email, emails # {},
         emails \subseteq parser.todo \cup parser.open,
         NEW parsed \in Parsers, parsed.pc = "running", parsed.no = parser.no,
         parsed.todo \subseteq parser.todo, parsed.todo \cap emails = {},
         WriteChunk(emails, parsed), UNCHANGED <<prepare, queued, finalizer>>
  PROVE  PipelineInv'
<1>1. Shape /\ Tree /\ ParseInv /\ \A i \in ChunkId : InStep(i)
  BY DEF PipelineInv
<1>2. /\ job.status # "pending" /\ parser.no \in Nat \ {0} /\ parser \in Parsers
      /\ chunks = <<>> => parser.no = 1
  BY <1>1 DEF ParseInv, Shape, Parsers
<1>3. CASE \E i \in ChunkId : chunks[i].no = parser.no
  <2>1. /\ job' = [job EXCEPT !.status = "failed"]
        /\ parser' = [parser EXCEPT !.pc = "done"]
        /\ UNCHANGED <<chunks, output, request>>
    BY <1>3 DEF WriteChunk
  <2>2. "failed" \in JobStatus /\ {} \in SUBSET Email
    BY DEF JobStatus
  <2>3. /\ job' \in [status : JobStatus, cached : SUBSET Email,
                     rows : [Email -> SUBSET (ChunkId' \cup {CacheFile})]]
        /\ job'.status = "failed"
    BY <1>1, <2>1, <2>2, JobSaved DEF Shape
  <2>4. parser' \in Parsers /\ parser'.pc = "done" /\ parser'.no = parser.no
    BY <1>2, <2>1 DEF Parsers
  <2>5. Shape'
    BY <1>1, <2>1, <2>3, <2>4 DEF Shape, Parsers
  <2>6. ParseInv'
    BY <1>2, <2>3, <2>4 DEF ParseInv
  <2>7. QED
    BY <2>1, <2>5, <2>6, RowsLeftAlone
<1>4. CASE ~\E i \in ChunkId : chunks[i].no = parser.no
  <2> DEFINE row == NewChunk(parser.no, "screening", 0, 0, emails)
  <2>1. /\ AddChunks(<<row>>, request)
        /\ parser' = [parsed EXCEPT !.open = {}, !.no = @ + 1]
        /\ job' = job
    BY <1>4 DEF WriteChunk
  <2>2. /\ ~Stale
        /\ row \in Chunk /\ row.status = "pending"
        /\ row.stage = "screening" /\ row.parent = 0 /\ row.emails = emails
        /\ Grows(<<row>>, 0)
    BY <1>4, ScreeningGrows
  <2> HIDE DEF row
  <2>3. /\ <<row>> \in Seq(Chunk) /\ DOMAIN <<row>> = {1} /\ <<row>>[1] = row
    BY <2>2, OneRow
  <2>4. \A i \in ChunkId : chunks[i].stage = "screening" =>
          chunks[i].emails \cap (parser.todo \cup parser.open) = {}
    BY <1>1, <2>2 DEF ParseInv
  <2>5. /\ parser' \in Parsers /\ parser'.pc = "running" /\ parser'.no = parser.no + 1
        /\ parser'.open = {} /\ parser'.todo = parsed.todo
    <3>1. parsed.no + 1 \in Nat
      BY <1>2
    <3>2. QED
      BY <2>1, <3>1 DEF Parsers
  <2>6. request \in Seq(RequestStep) /\ Len(request) = Len(chunks)
    BY <1>1 DEF Shape
  <2>7. Shape' /\ Tree' /\ (\A i \in ChunkId' : InStep(i)')
    <3> DEFINE new == <<row>>
    <3>1. new \in Seq(Chunk) /\ AddChunks(new, request) /\ Grows(new, 0)
      BY <2>1, <2>2, <2>3
    <3>2. \A k \in DOMAIN new : new[k].status = "pending"
      BY <2>2, <2>3
    <3>3. UNCHANGED <<job, prepare, queued, finalizer>>
      BY <2>1
    <3> HIDE DEF new
    <3>4. 0 \in ChunkId \cup {0}
      OBVIOUS
    <3>5. QED
      BY <2>5, <2>6, <3>1, <3>2, <3>3, <3>4, AddInStep DEF Parsers
  <2>8. /\ Len(chunks') = Len(chunks) + 1
        /\ \A j \in ChunkId : chunks'[j] = chunks[j]
        /\ \A j \in ChunkId' \ ChunkId : chunks'[j] = row
    <3>1. /\ Len(chunks') = Len(chunks) + Len(<<row>>)
          /\ \A j \in ChunkId : chunks'[j] = chunks[j]
          /\ \A j \in ChunkId' \ ChunkId :
               /\ j - Len(chunks) \in DOMAIN <<row>>
               /\ chunks'[j] = <<row>>[j - Len(chunks)]
      BY <1>1, <2>1, <2>3, <2>6, ChunksAdded
    <3>2. QED
      BY <2>2, <2>3, <3>1, OneRow
  <2>9. ParseInv'
    <3>1. chunks' # <<>>
      BY <1>1, <2>7, <2>8 DEF Shape
    <3>2. ASSUME NEW j \in ChunkId', chunks'[j].stage = "screening"
          PROVE  chunks'[j].emails \cap parsed.todo = {}
      <4>1. CASE j \in ChunkId
        BY <2>4, <2>8, <3>2, <4>1
      <4>2. CASE j \notin ChunkId
        BY <2>2, <2>8, <4>2
      <4>3. QED
        BY <4>1, <4>2
    <3>3. parser'.no # 0
      BY <1>2, <2>5
    <3>4. QED
      BY <1>2, <2>1, <2>5, <3>1, <3>2, <3>3 DEF ParseInv
  <2>10. QED
    BY <2>7, <2>9 DEF PipelineInv
<1>5. QED
  BY <1>3, <1>4

LEMMA ParseEmailStep ==
  ASSUME PipelineInv, NEW e \in Email, ParseEmail(e)
  PROVE  PipelineInv'
<1> DEFINE parsed == [parser EXCEPT !.todo = @ \ {e}]
           open == parser.open \cup {e}
<1>1. Shape /\ ParseInv
  BY DEF PipelineInv
<1>2. /\ parser \in Parsers /\ parser.pc = "running" /\ e \in parser.todo
      /\ parser.todo \cap parser.open = {}
      /\ UNCHANGED <<prepare, queued, finalizer>>
  BY <1>1 DEF Shape, Parsers, ParseInv, ParseEmail
<1>3. /\ parsed \in Parsers /\ parsed.pc = "running" /\ parsed.no = parser.no
      /\ parsed.todo = parser.todo \ {e} /\ open \in SUBSET Email
      /\ parsed.open = parser.open
  BY <1>2 DEF Parsers
<1>4. \/ /\ parser' = [parsed EXCEPT !.hits = @ \cup {e}]
         /\ UNCHANGED <<job, chunks, output, request>>
      \/ WriteChunk(open, parsed)
      \/ /\ parser' = [parsed EXCEPT !.open = open]
         /\ UNCHANGED <<job, chunks, output, request>>
  BY DEF ParseEmail
<1> HIDE DEF parsed, open
<1>5. CASE WriteChunk(open, parsed)
  <2>1. open # {} /\ open \subseteq parser.todo \cup parser.open
    BY <1>2 DEF open
  <2>2. parsed.todo \subseteq parser.todo /\ parsed.todo \cap open = {}
    BY <1>2, <1>3 DEF open
  <2>3. QED
    BY <1>2, <1>3, <1>5, <2>1, <2>2, WriteChunkStep
<1>6. CASE /\ UNCHANGED <<job, chunks, output, request>>
           /\ \/ parser' = [parsed EXCEPT !.hits = @ \cup {e}]
              \/ parser' = [parsed EXCEPT !.open = open]
  <2>1. /\ parser' \in Parsers /\ parser'.pc = "running" /\ parser'.no = parser.no
        /\ parser'.todo = parser.todo \ {e}
        /\ parser'.open \subseteq open /\ parser'.open \cap parser'.todo = {}
    <3>1. CASE parser' = [parsed EXCEPT !.hits = @ \cup {e}]
      BY <1>2, <1>3, <3>1 DEF Parsers, open
    <3>2. CASE parser' = [parsed EXCEPT !.open = open]
      BY <1>2, <1>3, <3>2 DEF Parsers, open
    <3>3. QED
      BY <1>6, <3>1, <3>2
  <2>2. parser'.todo \cup parser'.open \subseteq parser.todo \cup parser.open
    BY <1>2, <2>1 DEF open
  <2>3. Shape'
    BY <1>1, <1>2, <1>6, <2>1 DEF Shape, Parsers, ChunkId
  <2>4. ParseInv'
    BY <1>1, <1>2, <1>6, <2>1, <2>2 DEF ParseInv, Stale, ChunkId
  <2>5. QED
    BY <1>6, <2>3, <2>4, RowsLeftAlone
<1>7. QED
  BY <1>4, <1>5, <1>6

LEMMA ParseLastChunkStep ==
  ASSUME PipelineInv, ParseLastChunk
  PROVE  PipelineInv'
<1>1. /\ parser \in Parsers /\ parser.pc = "running" /\ parser.todo = {}
      /\ parser.open # {} /\ parser.open \in SUBSET Email
  BY DEF PipelineInv, Shape, Parsers, ParseLastChunk
<1>2. WriteChunk(parser.open, parser) /\ UNCHANGED <<prepare, queued, finalizer>>
  BY DEF ParseLastChunk
<1>3. QED
  BY <1>1, <1>2, WriteChunkStep

-----------------------------------------------------------------------------
(* The steps of workers and of complete.                                     *)

LEMMA WorkerStep ==
  ASSUME PipelineInv, NEW i \in ChunkId, Claim(i) \/ Verify(i) \/ Fail(i)
  PROVE  PipelineInv'
<1>1. Shape /\ InStep(i)
  BY DEF PipelineInv
<1>2. chunks[i] \in Chunk /\ output[i] \in Output /\ request[i] \in RequestStep
  BY <1>1, Entries
<1>3. queued' \in Nat /\ {"working", "complete", "none"} \subseteq RequestStep
  BY <1>1 DEF Shape, Claim, Verify, Fail, RequestStep
<1>4. CASE Claim(i)
  <2> DEFINE row == [chunks[i] EXCEPT !.status = "processing"]
  <2>1. Moves(i, row, output[i], "working")
    BY <1>1, <1>4, ClaimMoves
  <2>2. /\ row \in Chunk /\ row.status = "processing" /\ SameBirth(row, chunks[i])
    BY <1>2 DEF Chunk, ChunkStatus, SameBirth
  <2>3. chunks[i].status = "pending"
    BY <1>4 DEF Claim, Claimable
  <2> HIDE DEF row
  <2>4. QED
    BY <1>1, <1>2, <1>3, <2>1, <2>2, <2>3, MoveInStep DEF InStep, SameBirth
<1>5. CASE Verify(i)
  <2>1. PICK again \in AgainSets(chunks[i]) :
          Moves(i, chunks[i],
                [settled |-> chunks[i].emails \ again, again |-> again], "complete")
    BY <1>1, <1>5, VerifyMoves
  <2> DEFINE out == [settled |-> chunks[i].emails \ again, again |-> again]
  <2>2. out \in Output /\ out.settled \cup out.again \subseteq chunks[i].emails
    BY <1>2 DEF AgainSets, Output, Chunk
  <2>3. request[i] = "working"
    BY <1>5 DEF Verify
  <2> HIDE DEF out
  <2>4. Moves(i, chunks[i], out, "complete")
    BY <2>1 DEF out
  <2>5. QED
    BY <1>1, <1>2, <1>3, <2>2, <2>3, <2>4, MoveInStep DEF InStep, SameBirth
<1>6. CASE Fail(i)
  <2> DEFINE row == [chunks[i] EXCEPT
                       !.attempts = @ + 1,
                       !.status = IF chunks[i].attempts + 1 < MaxAttempts THEN "pending"
                                  ELSE "failed"]
  <2>1. Moves(i, row, output[i], "none")
    BY <1>1, <1>6, FailMoves
  <2>2. row \in Chunk
    BY <2>1, <1>1 DEF Moves, Shape, ChunkId
  <2>3. /\ row.status \in {"pending", "failed"} /\ SameBirth(row, chunks[i])
    BY <1>2 DEF Chunk, SameBirth
  <2>4. request[i] \in {"working", "complete", "handoff"}
    BY <1>6 DEF Fail
  <2> HIDE DEF row
  <2>5. QED
    BY <1>1, <1>2, <1>3, <2>1, <2>2, <2>3, <2>4, MoveInStep DEF InStep, SameBirth
<1>7. QED
  BY <1>4, <1>5, <1>6

LEMMA SaveStep ==
  ASSUME PipelineInv, NEW i \in ChunkId,
         \/ SaveHandoff(i) \/ SaveScreening(i) \/ SaveProbe(i)
  PROVE  PipelineInv'
<1> DEFINE row == [chunks[i] EXCEPT !.status = "completed"]
           out == [output[i] EXCEPT !.again = {}]
<1>1. Shape /\ InStep(i)
  BY DEF PipelineInv
<1>2. chunks[i] \in Chunk /\ output[i] \in Output
  BY <1>1, Entries
<1>3. queued' \in Nat /\ {"saved", "probe_saved"} \subseteq RequestStep
  BY <1>1 DEF Shape, SaveHandoff, SaveScreening, SaveProbe, RequestStep
<1>4. /\ row \in Chunk /\ row.status = "completed" /\ SameBirth(row, chunks[i])
      /\ out \in Output /\ out.settled = output[i].settled /\ out.again = {}
  BY <1>2 DEF Chunk, ChunkStatus, SameBirth, Output
<1>5. chunks[i].status = "processing"
  BY <1>1 DEF InStep, SaveHandoff, SaveScreening, SaveProbe
<1>6. chunks[i].stage = "smtp_probe" => Kids(i) = {}
  BY <1>1, <1>5 DEF InStep
<1> HIDE DEF row, out
<1>7. CASE SaveHandoff(i)
  <2>1. Moves(i, row, out, "saved")
    BY <1>1, <1>7, SaveMoves DEF row, out
  <2>2. QED
    BY <1>1, <1>3, <1>4, <2>1, MoveInStep DEF InStep, SameBirth
<1>8. CASE SaveScreening(i)
  <2>1. Moves(i, row, output[i], "saved")
    BY <1>1, <1>8, SaveMoves DEF row
  <2>2. QED
    BY <1>1, <1>2, <1>3, <1>4, <2>1, MoveInStep DEF InStep, SameBirth
<1>9. CASE SaveProbe(i)
  <2>1. Moves(i, row, output[i], "probe_saved") /\ chunks[i].stage = "smtp_probe"
    BY <1>1, <1>9, SaveMoves DEF row, SaveProbe
  <2>2. QED
    BY <1>1, <1>2, <1>3, <1>4, <1>6, <2>1, MoveInStep DEF InStep, SameBirth
<1>10. QED
  BY <1>7, <1>8, <1>9

LEMMA RequestStepKeeps ==
  ASSUME PipelineInv, NEW i \in ChunkId,
         FilterRisky(i) \/ DispatchFinalize(i) \/ CompleteDies(i)
  PROVE  PipelineInv'
<1>1. Shape /\ InStep(i)
  BY DEF PipelineInv
<1>2. chunks[i] \in Chunk /\ output[i] \in Output
  BY <1>1, Entries
<1>3. queued' \in Nat /\ {"saved", "none"} \subseteq RequestStep
  BY <1>1 DEF Shape, FilterRisky, DispatchFinalize, CompleteDies, RequestStep
<1>4. request[i] \in {"probe_saved", "retry_created", "saved"}
  <2>1. Deaths \subseteq {"prepared", "probe_saved", "retry_created", "saved", "finalizing"}
        /\ request[i] \in RequestStep
    BY <1>1, Entries, VerificationPipelineAssumption
  <2>2. QED
    BY <2>1 DEF FilterRisky, DispatchFinalize, CompleteDies, RequestStep
<1>5. chunks[i].status = "completed"
  BY <1>1, <1>4 DEF InStep
<1>6. CASE FilterRisky(i)
  <2> DEFINE row == [chunks[i] EXCEPT !.filtered = TRUE]
  <2>1. Moves(i, row, output[i], "saved")
    BY <1>1, <1>6, FilterRiskyMoves
  <2>2. row \in Chunk /\ row.status = chunks[i].status /\ SameBirth(row, chunks[i])
    BY <1>2 DEF Chunk, SameBirth
  <2> HIDE DEF row
  <2>3. QED
    BY <1>1, <1>2, <1>3, <1>5, <2>1, <2>2, MoveInStep DEF InStep, SameBirth
<1>7. CASE DispatchFinalize(i) \/ CompleteDies(i)
  <2>1. /\ request' = [request EXCEPT ![i] = "none"]
        /\ UNCHANGED <<chunks, output, job, prepare, parser, finalizer>>
    BY <1>7 DEF DispatchFinalize, CompleteDies
  <2>2. Moves(i, chunks[i], output[i], "none")
    BY <1>1, <1>3, <2>1, RequestOnly
  <2>3. QED
    BY <1>1, <1>2, <1>3, <1>5, <2>2, MoveInStep DEF InStep, SameBirth
<1>8. QED
  BY <1>6, <1>7

LEMMA CreateProbeChunksStep ==
  ASSUME PipelineInv, NEW i \in ChunkId, CreateProbeChunks(i)
  PROVE  PipelineInv'
<1>1. Shape /\ InStep(i)
  BY DEF PipelineInv
<1>2. chunks[i] \in Chunk /\ output[i] \in Output /\ "handoff" \in RequestStep
  BY <1>1, Entries DEF RequestStep
<1>3. /\ request[i] = "complete" /\ chunks[i].stage = "screening"
      /\ output[i].again # {} /\ chunks[i].status = "processing"
      /\ UNCHANGED <<job, prepare, parser, queued, finalizer>>
  BY <1>1 DEF CreateProbeChunks, InStep
<1>4. (\E k \in ChunkId : chunks[k].parent = i) <=> Kids(i) # {}
  BY DEF Kids
<1>5. CASE Kids(i) # {}
  <2>1. /\ request' = [request EXCEPT ![i] = "handoff"]
        /\ UNCHANGED <<chunks, output>>
    BY <1>4, <1>5 DEF CreateProbeChunks
  <2>2. Moves(i, chunks[i], output[i], "handoff")
    BY <1>1, <1>2, <1>3, <2>1, RequestOnly
  <2>3. queued' \in Nat
    BY <1>1, <1>3 DEF Shape
  <2>4. QED
    BY <1>1, <1>2, <1>3, <2>2, <2>3, MoveInStep DEF InStep, SameBirth
<1>6. CASE Kids(i) = {}
  <2> DEFINE new == ProbeChunks(i, output[i].again)
             at == [request EXCEPT ![i] = "handoff"]
  <2>1. AddChunks(new, at)
    BY <1>4, <1>6 DEF CreateProbeChunks
  <2>2. /\ new \in Seq(Chunk) /\ Grows(new, i)
        /\ \A k \in DOMAIN new : new[k].status = "pending"
    BY <1>3, <1>6, ProbesGrow
  <2>3. /\ at \in Seq(RequestStep) /\ Len(at) = Len(chunks)
        /\ at[i] = "handoff" /\ \A j \in ChunkId : j # i => at[j] = request[j]
    BY <1>1, <1>2 DEF Shape, ChunkId
  <2>4. parser' \in Parsers
    BY <1>1, <1>3 DEF Shape, Parsers
  <2> HIDE DEF new, at
  <2>5. Shape' /\ Tree' /\ (\A j \in ChunkId' : InStep(j)')
    BY <1>3, <2>1, <2>2, <2>3, <2>4, AddInStep DEF Parsers
  <2>6. ParseInv'
    BY <1>3, <2>1, <2>2, <2>3, ParserLeftAlone
  <2>7. QED
    BY <2>5, <2>6 DEF PipelineInv
<1>7. QED
  BY <1>5, <1>6

LEMMA PlanRetryStep ==
  ASSUME PipelineInv, NEW i \in ChunkId, PlanRetry(i)
  PROVE  PipelineInv'
<1>1. Shape /\ InStep(i)
  BY DEF PipelineInv
<1>2. /\ chunks[i] \in Chunk /\ output[i] \in Output
      /\ {"saved", "retry_created"} \subseteq RequestStep
  BY <1>1, Entries DEF RequestStep
<1>3. /\ request[i] = "probe_saved" /\ chunks[i].stage = "smtp_probe"
      /\ chunks[i].status = "completed" /\ Kids(i) = {}
      /\ UNCHANGED <<job, prepare, parser, queued, finalizer>>
  BY <1>1 DEF PlanRetry, InStep
<1>4. CASE request' = [request EXCEPT ![i] = "saved"] /\ UNCHANGED <<chunks, output>>
  <2>1. Moves(i, chunks[i], output[i], "saved")
    BY <1>1, <1>2, <1>3, <1>4, RequestOnly
  <2>2. queued' \in Nat
    BY <1>1, <1>3 DEF Shape
  <2>3. QED
    BY <1>1, <1>2, <1>3, <2>1, <2>2, MoveInStep DEF InStep, SameBirth
<1>5. ASSUME Retryable(i),
             AddChunks(<<NewChunk(NextChunkNo, "smtp_probe", i,
                                  chunks[i].retry + 1, output[i].again)>>,
                       [request EXCEPT ![i] = "retry_created"])
      PROVE  PipelineInv'
  <2> DEFINE row == NewChunk(NextChunkNo, "smtp_probe", i,
                             chunks[i].retry + 1, output[i].again)
             at == [request EXCEPT ![i] = "retry_created"]
             new == <<row>>
  <2>1. AddChunks(new, at)
    BY <1>5
  <2>2. row \in Chunk /\ row.status = "pending" /\ Grows(new, i)
    BY <1>3, <1>5, RetryGrows
  <2>3. /\ at \in Seq(RequestStep) /\ Len(at) = Len(chunks)
        /\ at[i] = "retry_created" /\ \A j \in ChunkId : j # i => at[j] = request[j]
    BY <1>1, <1>2 DEF Shape, ChunkId
  <2>4. parser' \in Parsers
    BY <1>1, <1>3 DEF Shape, Parsers
  <2> HIDE DEF row
  <2>5. new \in Seq(Chunk) /\ \A k \in DOMAIN new : new[k].status = "pending"
    BY <2>2, OneRow
  <2> HIDE DEF new, at
  <2>6. Shape' /\ Tree' /\ (\A j \in ChunkId' : InStep(j)')
    BY <1>3, <2>1, <2>2, <2>3, <2>4, <2>5, AddInStep DEF Parsers
  <2>7. ParseInv'
    BY <1>3, <2>1, <2>2, <2>3, <2>5, ParserLeftAlone
  <2>8. QED
    BY <2>6, <2>7 DEF PipelineInv
<1>6. QED
  BY <1>4, <1>5 DEF PlanRetry

-----------------------------------------------------------------------------
(* The theorem.                                                              *)

LEMMA InitPipelineInv == Init => PipelineInv
<1> SUFFICES ASSUME Init PROVE PipelineInv
  OBVIOUS
<1>1. /\ chunks = <<>> /\ output = <<>> /\ request = <<>>
      /\ ChunkId = {} /\ Len(chunks) = 0
  BY DEF Init, ChunkId
<1>2. parser \in Parsers /\ parser.pc = "none" /\ parser.no = 1
  BY DEF Init, NewParse, Parsers
<1>3. /\ finalizer.pc = "idle" /\ finalizer.cached = {}
      /\ finalizer.chunks = <<>> /\ Len(finalizer.chunks) = 0
  BY DEF Init, NoFinalize
<1>4. job \in [status : JobStatus, cached : SUBSET Email,
               rows : [Email -> SUBSET (ChunkId \cup {CacheFile})]]
  BY DEF Init, NoRows, JobStatus
<1>5. Shape
  <2>1. <<>> \in Seq(Chunk) /\ <<>> \in Seq(Output) /\ <<>> \in Seq(RequestStep)
    OBVIOUS
  <2>2. prepare \in BOOLEAN /\ queued \in Nat
    BY DEF Init
  <2>3. QED
    BY <1>1, <1>2, <1>3, <1>4, <2>1, <2>2 DEF Shape, Parsers
<1>6. Nos = {0}
  BY <1>1 DEF Nos
<1>7. Tree
  BY <1>1, <1>6 DEF Tree, Numbered
<1>8. ParseInv
  BY <1>1, <1>2 DEF ParseInv
<1>9. QED
  BY <1>1, <1>5, <1>7, <1>8 DEF PipelineInv

LEMMA NextPipelineInv == PipelineInv /\ [Next]_vars => PipelineInv'
<1> SUFFICES ASSUME PipelineInv, [Next]_vars PROVE PipelineInv'
  OBVIOUS
<1>1. CASE UNCHANGED vars
  <2>1. UNCHANGED vars
    BY <1>1
  <2>2. Shape'
    BY <2>1 DEF vars, PipelineInv, Shape, ChunkId
  <2>3. ParseInv'
    BY <2>1 DEF vars, PipelineInv, ParseInv, Stale, ChunkId
  <2>4. QED
    BY <2>1, <2>2, <2>3, RowsLeftAlone DEF vars
<1>2. CASE Prepare \/ PrepareDies
  BY <1>2, PrepareStep
<1>3. CASE ParseStarts \/ ParseEnds \/ ParseFails \/ ParseDies
  BY <1>3, ParserMoves
<1>4. CASE \E e \in Email : ParseEmail(e)
  BY <1>4, ParseEmailStep
<1>5. CASE ParseLastChunk
  BY <1>5, ParseLastChunkStep
<1>6. CASE \/ Finalize \/ FinalizeDies \/ FinalizeReleased
           \/ AdminFailsJob \/ AdminFinalizes
  BY <1>6, FinalizeStep
<1>7. ASSUME NEW i \in ChunkId,
             Claim(i) \/ Verify(i) \/ Fail(i) \/ Complete(i) \/ CompleteDies(i)
      PROVE  PipelineInv'
  <2>1. CASE Claim(i) \/ Verify(i) \/ Fail(i)
    BY <2>1, WorkerStep
  <2>2. CASE SaveHandoff(i) \/ SaveScreening(i) \/ SaveProbe(i)
    BY <2>2, SaveStep
  <2>3. CASE FilterRisky(i) \/ DispatchFinalize(i) \/ CompleteDies(i)
    BY <2>3, RequestStepKeeps
  <2>4. CASE CreateProbeChunks(i)
    BY <2>4, CreateProbeChunksStep
  <2>5. CASE PlanRetry(i)
    BY <2>5, PlanRetryStep
  <2>6. QED
    BY <1>7, <2>1, <2>2, <2>3, <2>4, <2>5 DEF Complete
<1>8. QED
  BY <1>1, <1>2, <1>3, <1>4, <1>5, <1>6, <1>7 DEF Next, Parse, Trouble

\* A level never holds more chunks than there are emails, and there are two
\* levels more than probe attempts after the first: an injection of the chunks
\* into the pairs of an email and a level.
LEMMA TreeIsBounded ==
  ASSUME Shape, Tree
  PROVE  Len(chunks) <= MaxChunks
<1> DEFINE Levels == 0..(MaxProbeAttempts + 1)
           Slots == Email \X Levels
           Pick(i) == CHOOSE e : e \in chunks[i].emails
           slot == [i \in ChunkId |-> <<Pick(i), Level(chunks[i])>>]
<1>1. MaxProbeAttempts \in Nat \ {0} /\ IsFiniteSet(Email)
  BY VerificationPipelineAssumption
<1>2. IsFiniteSet(Levels) /\ Cardinality(Levels) = MaxProbeAttempts + 2
  <2>1. 0 \in Int /\ MaxProbeAttempts + 1 \in Int /\ ~(0 > MaxProbeAttempts + 1)
        /\ (MaxProbeAttempts + 1) - 0 + 1 = MaxProbeAttempts + 2
    BY <1>1
  <2>2. QED
    BY <2>1, FS_Interval
<1> HIDE DEF Levels
<1>3. IsFiniteSet(Slots) /\ Cardinality(Slots) = Cardinality(Email) * Cardinality(Levels)
  BY <1>1, <1>2, FS_Product
<1>4. ASSUME NEW i \in ChunkId
      PROVE  /\ Pick(i) \in chunks[i].emails /\ Pick(i) \in Email
             /\ Level(chunks[i]) \in Levels
  <2>1. chunks[i] \in Chunk /\ chunks[i].emails # {}
        /\ Level(chunks[i]) <= MaxProbeAttempts + 1
    BY Entries DEF Tree
  <2>2. Level(chunks[i]) \in Nat
    BY <2>1 DEF Level, Chunk
  <2>3. Pick(i) \in chunks[i].emails
    BY <2>1
  <2>4. QED
    BY <1>1, <2>1, <2>2, <2>3 DEF Levels, Chunk
<1>5. ASSUME NEW i \in ChunkId, NEW j \in ChunkId,
             Pick(i) = Pick(j), Level(chunks[i]) = Level(chunks[j])
      PROVE  i = j
  BY <1>4, <1>5 DEF Tree
<1> HIDE DEF Pick
<1>6. slot \in Injection(ChunkId, Slots)
  BY <1>4, <1>5 DEF Injection, IsInjective
<1> HIDE DEF slot
<1>7. Cardinality(ChunkId) <= Cardinality(Slots)
  BY <1>3, <1>6, FS_Injection
<1>8. Cardinality(ChunkId) = Len(chunks)
  <2>1. 1 \in Int /\ Len(chunks) \in Nat
    BY DEF Shape
  <2>2. Cardinality(1..Len(chunks)) =
          IF 1 > Len(chunks) THEN 0 ELSE Len(chunks) - 1 + 1
    BY <2>1, FS_Interval
  <2>3. QED
    BY <2>1, <2>2 DEF ChunkId
<1>9. MaxChunks = Cardinality(Slots)
  <2>1. Cardinality(Email) \in Nat
    BY <1>1, FS_CardinalityType
  <2>2. QED
    BY <1>1, <1>2, <1>3, <2>1 DEF MaxChunks
<1>10. QED
  BY <1>7, <1>8, <1>9

\* The tables keep their shapes, and the planners stop: whatever workers answer,
\* requests die and parses are delivered again, a job never has more than
\* MaxChunks rows in verification_job_chunks.
THEOREM PipelineTypes == Spec => []TypeOK
<1>1. Spec => []PipelineInv
  <2>1. PipelineInv /\ [Next]_vars => PipelineInv'
    BY NextPipelineInv
  <2>2. QED
    BY InitPipelineInv, <2>1, PTL DEF Spec
<1>2. PipelineInv => TypeOK
  <2>1. PipelineInv => Shape /\ Len(chunks) <= MaxChunks
    BY TreeIsBounded DEF PipelineInv
  <2>2. QED
    BY <2>1 DEF Shape, TypeOK
<1>3. QED
  BY <1>1, <1>2, PTL

-----------------------------------------------------------------------------
(* A finalization always comes.                                              *)

\* A request at one of these steps has yet to dispatch a finalization.
Ending == {"probe_saved", "retry_created", "saved"}

Waits ==
  /\ job.status = "processing"
  /\ AllCompleted(chunks)
  /\ chunks # <<>> \/ (parser.pc = "done" /\ parser.cacheOnly /\ job.cached # {})

\* Steps that move one chunk: either it is open afterwards, or its request has
\* yet to dispatch the finalization or has just done so.
LEMMA MoveComes ==
  ASSUME PipelineInv, NEW i \in ChunkId, NEW row, NEW out, NEW step,
         Moves(i, row, out, step),
         row.status # "completed" \/ step \in Ending \/ queued' > 0
  PROVE  FinalizationComes'
<1>1. i \in ChunkId' /\ chunks' \in Seq(Chunk)
  BY DEF Moves, ChunkId
<1>2. CASE row.status # "completed"
  <2>1. chunks'[i].status # "completed"
    BY <1>2 DEF Moves
  <2>2. ~Waits'
    BY <1>1, <2>1 DEF Moves, ChunkId, Waits, AllCompleted
  <2>3. QED
    BY <2>2 DEF FinalizationComes, Waits
<1>3. CASE step \in Ending
  BY <1>1, <1>3 DEF Moves, Ending, FinalizationComes
<1>4. CASE queued' > 0
  BY <1>4 DEF FinalizationComes
<1>5. QED
  BY <1>2, <1>3, <1>4

\* Steps that insert chunks, all of them pending.
LEMMA AddComes ==
  ASSUME PipelineInv, NEW new \in Seq(Chunk), NEW at \in Seq(RequestStep),
         Len(at) = Len(chunks), AddChunks(new, at),
         new # <<>>, \A k \in DOMAIN new : new[k].status = "pending"
  PROVE  FinalizationComes'
<1> DEFINE j == Len(chunks) + 1
<1>1. Len(chunks) \in Nat /\ Len(new) \in Nat \ {0}
  BY DEF PipelineInv, Shape
<1>2. /\ chunks' \in Seq(Chunk) /\ Len(chunks') = Len(chunks) + Len(new)
      /\ \A k \in ChunkId' \ ChunkId : /\ k - Len(chunks) \in DOMAIN new
                                       /\ chunks'[k] = new[k - Len(chunks)]
  BY ChunksAdded DEF PipelineInv
<1>3. j \in ChunkId' /\ j \notin ChunkId
  BY <1>1, <1>2 DEF ChunkId
<1>4. chunks'[j].status = "pending"
  BY <1>2, <1>3
<1>5. ~AllCompleted(chunks')
  BY <1>2, <1>3, <1>4 DEF ChunkId, AllCompleted
<1>6. QED
  BY <1>5 DEF FinalizationComes

\* Steps that leave the chunks, their requests and the finalizations alone.
LEMMA RowsComes ==
  ASSUME FinalizationComes, UNCHANGED <<chunks, request, finalizer>>,
         queued > 0 => queued' > 0,
         Waits' => Waits \/ queued' > 0
  PROVE  FinalizationComes'
BY DEF FinalizationComes, Waits, ChunkId

-----------------------------------------------------------------------------
(* Step by step.                                                             *)

\* While a planner is between a retry chunk and the parent's filtered file, the
\* retry chunk waits, because claim-next holds it back.
HeldBack ==
  \A i \in ChunkId : request[i] = "retry_created" =>
    \E k \in ChunkId : /\ chunks[k].parent = i
                       /\ chunks[k].stage = "smtp_probe"
                       /\ chunks[k].status = "pending"

LEMMA ChunkComes ==
  ASSUME PipelineInv, HeldBack, Deaths \cap {"probe_saved", "saved"} = {},
         NEW i \in ChunkId,
         Claim(i) \/ Verify(i) \/ Fail(i) \/ Complete(i) \/ CompleteDies(i)
  PROVE  FinalizationComes'
<1>1. Shape /\ InStep(i)
  BY DEF PipelineInv
<1>2. /\ chunks[i] \in Chunk /\ output[i] \in Output /\ request[i] \in RequestStep
      /\ queued \in Nat
  BY <1>1, Entries DEF Shape
<1>3. CASE Claim(i)
  <2>1. PICK row : row.status = "processing" /\ Moves(i, row, output[i], "working")
    <3>1. [chunks[i] EXCEPT !.status = "processing"].status = "processing"
      BY <1>2 DEF Chunk
    <3>2. QED
      BY <1>1, <1>3, <3>1, ClaimMoves
  <2>2. QED
    BY <2>1, MoveComes
<1>4. CASE Verify(i)
  <2>1. chunks[i].status = "processing"
    BY <1>1, <1>4 DEF Verify, InStep
  <2>2. PICK out : Moves(i, chunks[i], out, "complete")
    BY <1>1, <1>4, VerifyMoves
  <2>3. QED
    BY <2>1, <2>2, MoveComes
<1>5. CASE Fail(i)
  <2> DEFINE row == [chunks[i] EXCEPT
                       !.attempts = @ + 1,
                       !.status = IF chunks[i].attempts + 1 < MaxAttempts
                                  THEN "pending" ELSE "failed"]
  <2>1. row.status # "completed"
    BY <1>2 DEF Chunk
  <2>2. Moves(i, row, output[i], "none")
    BY <1>1, <1>5, FailMoves
  <2> HIDE DEF row
  <2>3. QED
    BY <2>1, <2>2, MoveComes
<1>6. CASE SaveHandoff(i) \/ SaveScreening(i) \/ SaveProbe(i)
  <2>1. PICK row, out, step : step \in Ending /\ Moves(i, row, out, step)
    BY <1>1, <1>6, SaveMoves DEF Ending
  <2>2. QED
    BY <2>1, MoveComes
<1>7. CASE FilterRisky(i)
  <2>1. PICK row : Moves(i, row, output[i], "saved")
    BY <1>1, <1>7, FilterRiskyMoves
  <2>2. QED
    BY <2>1, MoveComes DEF Ending
<1>8. CASE DispatchFinalize(i)
  <2>1. queued' > 0
    BY <1>2, <1>8 DEF DispatchFinalize
  <2>2. QED
    BY <2>1 DEF FinalizationComes
<1>9. CASE CreateProbeChunks(i)
  <2>1. /\ request[i] = "complete" /\ chunks[i].stage = "screening"
        /\ output[i].again # {} /\ chunks[i].status = "processing"
        /\ UNCHANGED <<job, prepare, parser, finalizer>>
    BY <1>1, <1>9 DEF CreateProbeChunks, InStep
  <2>2. (\E k \in ChunkId : chunks[k].parent = i) <=> Kids(i) # {}
    BY DEF Kids
  <2>3. CASE Kids(i) # {}
    <3>1. /\ request' = [request EXCEPT ![i] = "handoff"]
          /\ UNCHANGED <<chunks, output>>
      BY <1>9, <2>2, <2>3 DEF CreateProbeChunks
    <3>2. "handoff" \in RequestStep
      BY DEF RequestStep
    <3>3. Moves(i, chunks[i], output[i], "handoff")
      BY <1>1, <2>1, <3>1, <3>2, RequestOnly
    <3>4. QED
      BY <2>1, <3>3, MoveComes
  <2>4. CASE Kids(i) = {}
    <3> DEFINE new == ProbeChunks(i, output[i].again)
               at == [request EXCEPT ![i] = "handoff"]
    <3>1. AddChunks(new, at)
      BY <1>9, <2>2, <2>4 DEF CreateProbeChunks
    <3>2. /\ new \in Seq(Chunk) /\ Grows(new, i)
          /\ \A k \in DOMAIN new : new[k].status = "pending"
      BY <2>1, <2>4, ProbesGrow
    <3>3. new # <<>>
      BY <2>1, <3>2 DEF Grows
    <3>4. at \in Seq(RequestStep) /\ Len(at) = Len(chunks)
      BY <1>1 DEF Shape, ChunkId, RequestStep
    <3> HIDE DEF new, at
    <3>5. QED
      BY <3>1, <3>2, <3>3, <3>4, AddComes
  <2>5. QED
    BY <2>3, <2>4
<1>10. CASE PlanRetry(i)
  <2>1. /\ chunks[i].stage = "smtp_probe" /\ Kids(i) = {}
        /\ UNCHANGED <<job, prepare, parser, finalizer>>
    BY <1>1, <1>10 DEF PlanRetry, InStep
  <2>2. CASE request' = [request EXCEPT ![i] = "saved"] /\ UNCHANGED <<chunks, output>>
    <3>1. "saved" \in RequestStep
      BY DEF RequestStep
    <3>2. Moves(i, chunks[i], output[i], "saved")
      BY <1>1, <2>1, <2>2, <3>1, RequestOnly
    <3>3. QED
      BY <3>2, MoveComes DEF Ending
  <2>3. CASE /\ Retryable(i)
             /\ AddChunks(<<NewChunk(NextChunkNo, "smtp_probe", i,
                                     chunks[i].retry + 1, output[i].again)>>,
                          [request EXCEPT ![i] = "retry_created"])
    <3> DEFINE row == NewChunk(NextChunkNo, "smtp_probe", i, chunks[i].retry + 1,
                               output[i].again)
               at == [request EXCEPT ![i] = "retry_created"]
    <3>1. row \in Chunk /\ row.status = "pending"
      BY <2>1, <2>3, RetryGrows
    <3>2. at \in Seq(RequestStep) /\ Len(at) = Len(chunks)
      BY <1>1 DEF Shape, ChunkId, RequestStep
    <3>3. AddChunks(<<row>>, at)
      BY <2>3
    <3> HIDE DEF row, at
    <3>4. /\ <<row>> \in Seq(Chunk) /\ <<row>> # <<>>
          /\ \A k \in DOMAIN <<row>> : <<row>>[k].status = "pending"
      BY <3>1, OneRow
    <3>5. QED
      BY <3>2, <3>3, <3>4, AddComes
  <2>4. QED
    BY <1>10, <2>2, <2>3 DEF PlanRetry
<1>11. CASE CompleteDies(i)
  <2>1. Deaths \subseteq {"prepared", "probe_saved", "retry_created", "saved", "finalizing"}
    BY VerificationPipelineAssumption
  <2>2. request[i] = "retry_created"
    BY <1>2, <1>11, <2>1 DEF CompleteDies, RequestStep
  <2>3. PICK k \in ChunkId : chunks[k].status = "pending"
    BY <2>2 DEF HeldBack
  <2>4. k \in DOMAIN chunks
    BY <1>1 DEF Shape, ChunkId
  <2>5. ~AllCompleted(chunks)
    BY <2>3, <2>4 DEF AllCompleted
  <2>6. ~AllCompleted(chunks')
    BY <1>11, <2>5 DEF CompleteDies, AllCompleted
  <2>7. QED
    BY <2>6 DEF FinalizationComes, AllCompleted
<1>12. QED
  BY <1>3, <1>4, <1>5, <1>6, <1>7, <1>8, <1>9, <1>10, <1>11 DEF Complete

\* The open chunk of the parser, or an exception that ends the job.
LEMMA WriteChunkComes ==
  ASSUME PipelineInv, NEW emails \in SUBSET Email, NEW parsed,
         WriteChunk(emails, parsed)
  PROVE  FinalizationComes'
<1>1. Shape
  BY DEF PipelineInv
<1>2. CASE \E i \in ChunkId : chunks[i].no = parser.no
  <2>1. job'.status = "failed"
    BY <1>1, <1>2 DEF WriteChunk, Shape
  <2>2. QED
    BY <2>1 DEF FinalizationComes
<1>3. CASE ~\E i \in ChunkId : chunks[i].no = parser.no
  <2> DEFINE row == NewChunk(parser.no, "screening", 0, 0, emails)
  <2>1. AddChunks(<<row>>, request)
    BY <1>3 DEF WriteChunk
  <2>2. row \in Chunk /\ row.status = "pending"
    BY <1>1, NewChunkIsChunk DEF Shape
  <2> HIDE DEF row
  <2>3. /\ <<row>> \in Seq(Chunk) /\ <<row>> # <<>>
        /\ \A k \in DOMAIN <<row>> : <<row>>[k].status = "pending"
    BY <2>2, OneRow
  <2>4. request \in Seq(RequestStep) /\ Len(request) = Len(chunks)
    BY <1>1 DEF Shape
  <2>5. QED
    BY <2>1, <2>3, <2>4, AddComes
<1>4. QED
  BY <1>2, <1>3

LEMMA ParserComes ==
  ASSUME PipelineInv, FinalizationComes,
         Prepare \/ PrepareDies \/ Parse \/ ParseFails \/ ParseDies
  PROVE  FinalizationComes'
<1>1. Shape /\ ParseInv /\ queued \in Nat
  BY DEF PipelineInv, Shape
<1>2. CASE Prepare
  <2>1. UNCHANGED <<chunks, request, finalizer, queued>>
    BY <1>2 DEF Prepare
  <2>2. CASE job.status = "pending"
    <3>1. chunks = <<>> /\ parser'.pc = "queued"
      BY <1>1, <1>2, <2>2 DEF Prepare, ParseInv, NewParse
    <3>2. ~Waits'
      BY <2>1, <3>1 DEF Waits
    <3>3. QED
      BY <2>1, <3>2, RowsComes
  <2>3. CASE job.status # "pending"
    <3>1. Waits' => Waits
      BY <1>2, <2>1, <2>3 DEF Prepare, Waits
    <3>2. QED
      BY <2>1, <3>1, RowsComes
  <2>4. QED
    BY <2>2, <2>3
<1>3. CASE PrepareDies
  <2>1. UNCHANGED <<chunks, request, finalizer, queued, parser>>
    BY <1>3 DEF PrepareDies
  <2>2. chunks = <<>> /\ parser.pc = "none"
    BY <1>1, <1>3 DEF PrepareDies, ParseInv
  <2>3. ~Waits'
    BY <2>1, <2>2 DEF Waits
  <2>4. QED
    BY <2>1, <2>3, RowsComes
<1>4. CASE ParseStarts
  <2>1. UNCHANGED <<job, chunks, request, finalizer, queued>>
    BY <1>4 DEF ParseStarts
  <2>2. parser'.pc = "done" => job.status # "processing"
    BY <1>1, <1>4 DEF ParseStarts, Shape
  <2>3. Waits' => Waits
    BY <2>1, <2>2 DEF Waits
  <2>4. QED
    BY <2>1, <2>3, RowsComes
<1>5. ASSUME NEW e \in Email, ParseEmail(e) PROVE FinalizationComes'
  <2> DEFINE parsed == [parser EXCEPT !.todo = @ \ {e}]
             open == parser.open \cup {e}
  <2>1. CASE WriteChunk(open, parsed)
    <3>1. open \in SUBSET Email
      BY <1>1 DEF Shape
    <3>2. QED
      BY <2>1, <3>1, WriteChunkComes
  <2>2. CASE /\ \/ parser' = [parsed EXCEPT !.hits = @ \cup {e}]
                \/ parser' = [parsed EXCEPT !.open = open]
             /\ UNCHANGED <<job, chunks, output, request>>
    <3>1. parser'.pc = "running"
      BY <1>1, <1>5, <2>2 DEF ParseEmail, Shape
    <3>2. UNCHANGED <<finalizer, queued>>
      BY <1>5 DEF ParseEmail
    <3>3. Waits' => Waits
      BY <2>2, <3>1 DEF Waits
    <3>4. QED
      BY <2>2, <3>2, <3>3, RowsComes
  <2>3. QED
    BY <1>5, <2>1, <2>2 DEF ParseEmail
<1>6. CASE ParseLastChunk
  BY <1>1, <1>6, WriteChunkComes DEF ParseLastChunk, Shape
<1>7. CASE ParseEnds
  <2>1. /\ UNCHANGED <<chunks, request, finalizer>>
        /\ job'.status = job.status
        /\ parser'.cacheOnly = parser.cacheOnly
        /\ chunks = <<>> => parser.no = 1
    BY <1>1, <1>7 DEF ParseEnds, ParseInv, Shape
  <2>2. queued' = IF parser.cacheOnly /\ parser.no = 1 THEN queued + 1 ELSE queued
    BY <1>7 DEF ParseEnds
  <2>3. queued > 0 => queued' > 0
    BY <1>1, <2>2
  <2>4. Waits' => Waits \/ queued' > 0
    BY <1>1, <2>1, <2>2 DEF Waits
  <2>5. QED
    BY <2>1, <2>3, <2>4, RowsComes
<1>8. CASE ParseFails
  <2>1. job'.status = "failed"
    BY <1>1, <1>8 DEF ParseFails, Shape
  <2>2. QED
    BY <2>1 DEF FinalizationComes
<1>9. CASE ParseDies
  <2>1. /\ UNCHANGED <<job, chunks, request, finalizer, queued>>
        /\ parser'.pc \in {"queued", "lost"}
    BY <1>1, <1>9 DEF ParseDies, NewParse, Shape
  <2>2. Waits' => Waits
    BY <2>1 DEF Waits
  <2>3. QED
    BY <2>1, <2>2, RowsComes
<1>10. QED
  BY <1>2, <1>3, <1>4, <1>5, <1>6, <1>7, <1>8, <1>9 DEF Parse

\* A finalization that declines has seen an open chunk, or a settled job.
LEMMA FinalizeComes ==
  ASSUME PipelineInv, FinalizationComes, "finalizing" \notin Deaths,
         \/ Finalize \/ FinalizeDies \/ FinalizeReleased
         \/ AdminFailsJob \/ AdminFinalizes
  PROVE  FinalizationComes'
<1>1. Shape
  BY DEF PipelineInv
<1>2. CASE FinalizeStarts
  <2>1. UNCHANGED <<job, parser, chunks, request>>
    BY <1>2 DEF FinalizeStarts
  <2>2. Waits => finalizer'.pc = "loaded"
    BY <1>2 DEF FinalizeStarts, Waits
  <2>3. QED
    BY <2>1, <2>2 DEF FinalizationComes, Waits
<1>3. CASE FinalizeFails \/ FinalizeSaves \/ AdminFailsJob
  <2>1. job'.status \in {"completed", "failed"}
    BY <1>1, <1>3 DEF FinalizeFails, FinalizeSaves, AdminFailsJob, Shape
  <2>2. QED
    BY <2>1 DEF FinalizationComes
<1>4. CASE AdminFinalizes
  BY <1>4 DEF AdminFinalizes, FinalizationComes
<1>5. CASE FinalizeReleased
  BY <1>5 DEF FinalizeReleased, FinalizationComes
<1>6. QED
  BY <1>2, <1>3, <1>4, <1>5 DEF Finalize, FinalizeDies

LEMMA MoveHeldBack ==
  ASSUME HeldBack, NEW i \in ChunkId, NEW row, NEW out, NEW step,
         Moves(i, row, out, step), step # "retry_created",
         \/ chunks[i].status # "pending"
         \/ chunks[i].stage = "smtp_probe" =>
              request[chunks[i].parent] # "retry_created"
  PROVE  HeldBack'
<1>1. ChunkId' = ChunkId
  BY DEF Moves, ChunkId
<1>2. SUFFICES ASSUME NEW j \in ChunkId, request'[j] = "retry_created"
               PROVE  \E k \in ChunkId : /\ chunks'[k].parent = j
                                         /\ chunks'[k].stage = "smtp_probe"
                                         /\ chunks'[k].status = "pending"
  BY <1>1 DEF HeldBack
<1>3. request[j] = "retry_created"
  BY <1>2 DEF Moves
<1>4. PICK k \in ChunkId : /\ chunks[k].parent = j
                           /\ chunks[k].stage = "smtp_probe"
                           /\ chunks[k].status = "pending"
  BY <1>3 DEF HeldBack
<1>5. k # i
  BY <1>3, <1>4
<1>6. QED
  BY <1>4, <1>5 DEF Moves

LEMMA AddHeldBack ==
  ASSUME PipelineInv, HeldBack, NEW new \in Seq(Chunk), NEW at \in Seq(RequestStep),
         Len(at) = Len(chunks), AddChunks(new, at),
         \A j \in ChunkId : at[j] = "retry_created" =>
           \/ request[j] = "retry_created"
           \/ \E k \in DOMAIN new : /\ new[k].parent = j
                                    /\ new[k].stage = "smtp_probe"
                                    /\ new[k].status = "pending"
  PROVE  HeldBack'
<1>1. /\ Len(chunks) \in Nat /\ Len(new) \in Nat
      /\ DOMAIN new = 1..Len(new)
      /\ chunks \in Seq(Chunk)
  BY DEF PipelineInv, Shape
<1>2. /\ Len(chunks') = Len(chunks) + Len(new)
      /\ \A j \in ChunkId : chunks'[j] = chunks[j] /\ request'[j] = at[j]
      /\ \A j \in ChunkId' \ ChunkId : /\ chunks'[j] = new[j - Len(chunks)]
                                       /\ request'[j] = "none"
  BY ChunksAdded DEF PipelineInv
<1>3. /\ ChunkId \subseteq ChunkId'
      /\ \A k \in DOMAIN new : /\ Len(chunks) + k \in ChunkId' \ ChunkId
                               /\ (Len(chunks) + k) - Len(chunks) = k
  BY <1>1, <1>2 DEF ChunkId
<1>4. SUFFICES ASSUME NEW j \in ChunkId', request'[j] = "retry_created"
               PROVE  \E k \in ChunkId' : /\ chunks'[k].parent = j
                                          /\ chunks'[k].stage = "smtp_probe"
                                          /\ chunks'[k].status = "pending"
  BY DEF HeldBack
<1>5. j \in ChunkId /\ at[j] = "retry_created"
  BY <1>2, <1>4
<1>6. CASE request[j] = "retry_created"
  <2>1. PICK k \in ChunkId : /\ chunks[k].parent = j
                             /\ chunks[k].stage = "smtp_probe"
                             /\ chunks[k].status = "pending"
    BY <1>5, <1>6 DEF HeldBack
  <2>2. QED
    BY <1>2, <1>3, <2>1
<1>7. CASE \E k \in DOMAIN new : /\ new[k].parent = j
                                 /\ new[k].stage = "smtp_probe"
                                 /\ new[k].status = "pending"
  <2>1. PICK k \in DOMAIN new : /\ new[k].parent = j
                                /\ new[k].stage = "smtp_probe"
                                /\ new[k].status = "pending"
    BY <1>7
  <2>2. chunks'[Len(chunks) + k] = new[k]
    BY <1>2, <1>3
  <2>3. QED
    BY <1>3, <2>1, <2>2
<1>8. QED
  BY <1>5, <1>6, <1>7

LEMMA ChunkHeldBack ==
  ASSUME PipelineInv, HeldBack, NEW i \in ChunkId,
         Claim(i) \/ Verify(i) \/ Fail(i) \/ Complete(i) \/ CompleteDies(i)
  PROVE  HeldBack'
<1>1. Shape /\ InStep(i)
  BY DEF PipelineInv
<1>2. /\ chunks[i] \in Chunk /\ output[i] \in Output /\ request[i] \in RequestStep
      /\ {"none", "handoff", "saved", "retry_created"} \subseteq RequestStep
  BY <1>1, Entries DEF RequestStep
<1>3. request[i] # "none" => chunks[i].status # "pending"
  BY <1>1, <1>2 DEF InStep, RequestStep
<1>4. CASE Claim(i)
  <2>1. /\ Moves(i, [chunks[i] EXCEPT !.status = "processing"], output[i], "working")
        /\ chunks[i].stage = "smtp_probe" =>
             request[chunks[i].parent] # "retry_created"
    BY <1>1, <1>4, ClaimMoves DEF Claim, Claimable
  <2>2. QED
    BY <2>1, MoveHeldBack
<1>5. ASSUME NEW row, NEW out, NEW step, Moves(i, row, out, step),
             step # "retry_created", request[i] # "none"
      PROVE  HeldBack'
  BY <1>3, <1>5, MoveHeldBack
<1>6. CASE Verify(i)
  <2>1. PICK out : Moves(i, chunks[i], out, "complete")
    BY <1>1, <1>6, VerifyMoves
  <2>2. QED
    BY <1>5, <1>6, <2>1 DEF Verify
<1>7. CASE Fail(i)
  <2>1. PICK row : Moves(i, row, output[i], "none")
    BY <1>1, <1>7, FailMoves
  <2>2. QED
    BY <1>5, <1>7, <2>1 DEF Fail
<1>8. CASE SaveHandoff(i) \/ SaveScreening(i) \/ SaveProbe(i)
  <2>1. PICK row, out, step : /\ step \in {"saved", "probe_saved"}
                              /\ Moves(i, row, out, step)
    BY <1>1, <1>8, SaveMoves
  <2>2. QED
    BY <1>5, <1>8, <2>1 DEF SaveHandoff, SaveScreening, SaveProbe
<1>9. CASE FilterRisky(i)
  <2>1. PICK row : Moves(i, row, output[i], "saved")
    BY <1>1, <1>9, FilterRiskyMoves
  <2>2. QED
    BY <1>5, <1>9, <2>1 DEF FilterRisky
<1>10. CASE DispatchFinalize(i) \/ CompleteDies(i)
  <2>1. /\ request' = [request EXCEPT ![i] = "none"]
        /\ UNCHANGED <<chunks, output, job, prepare, parser, finalizer>>
    BY <1>10 DEF DispatchFinalize, CompleteDies
  <2>2. Moves(i, chunks[i], output[i], "none")
    BY <1>1, <1>2, <2>1, RequestOnly
  <2>3. Deaths \subseteq {"prepared", "probe_saved", "retry_created", "saved", "finalizing"}
    BY VerificationPipelineAssumption
  <2>4. request[i] # "none"
    BY <1>10, <2>3 DEF DispatchFinalize, CompleteDies
  <2>5. QED
    BY <1>5, <2>2, <2>4
<1>11. CASE CreateProbeChunks(i)
  <2>1. /\ request[i] = "complete" /\ chunks[i].stage = "screening"
        /\ output[i].again # {}
        /\ UNCHANGED <<job, prepare, parser, finalizer>>
    BY <1>11 DEF CreateProbeChunks
  <2>2. (\E k \in ChunkId : chunks[k].parent = i) <=> Kids(i) # {}
    BY DEF Kids
  <2>3. CASE Kids(i) # {}
    <3>1. /\ request' = [request EXCEPT ![i] = "handoff"]
          /\ UNCHANGED <<chunks, output>>
      BY <1>11, <2>2, <2>3 DEF CreateProbeChunks
    <3>2. Moves(i, chunks[i], output[i], "handoff")
      BY <1>1, <1>2, <2>1, <3>1, RequestOnly
    <3>3. QED
      BY <1>5, <2>1, <3>2
  <2>4. CASE Kids(i) = {}
    <3> DEFINE new == ProbeChunks(i, output[i].again)
               at == [request EXCEPT ![i] = "handoff"]
    <3>1. AddChunks(new, at)
      BY <1>11, <2>2, <2>4 DEF CreateProbeChunks
    <3>2. new \in Seq(Chunk)
      BY <2>1, <2>4, ProbesGrow
    <3>3. /\ at \in Seq(RequestStep) /\ Len(at) = Len(chunks)
          /\ \A j \in ChunkId : at[j] = "retry_created" =>
               request[j] = "retry_created"
      BY <1>1, <1>2 DEF Shape, ChunkId
    <3> HIDE DEF new, at
    <3>4. QED
      BY <3>1, <3>2, <3>3, AddHeldBack
  <2>5. QED
    BY <2>3, <2>4
<1>12. CASE PlanRetry(i)
  <2>1. /\ request[i] = "probe_saved" /\ chunks[i].stage = "smtp_probe"
        /\ Kids(i) = {}
        /\ UNCHANGED <<job, prepare, parser, finalizer>>
    BY <1>1, <1>12 DEF PlanRetry, InStep
  <2>2. CASE request' = [request EXCEPT ![i] = "saved"] /\ UNCHANGED <<chunks, output>>
    <3>1. Moves(i, chunks[i], output[i], "saved")
      BY <1>1, <1>2, <2>1, <2>2, RequestOnly
    <3>2. QED
      BY <1>5, <2>1, <3>1
  <2>3. CASE /\ Retryable(i)
             /\ AddChunks(<<NewChunk(NextChunkNo, "smtp_probe", i,
                                     chunks[i].retry + 1, output[i].again)>>,
                          [request EXCEPT ![i] = "retry_created"])
    <3> DEFINE row == NewChunk(NextChunkNo, "smtp_probe", i, chunks[i].retry + 1,
                               output[i].again)
               at == [request EXCEPT ![i] = "retry_created"]
    <3>1. /\ row \in Chunk /\ row.status = "pending" /\ row.parent = i
          /\ row.stage = "smtp_probe"
      BY <2>1, <2>3, RetryGrows
    <3>2. /\ at \in Seq(RequestStep) /\ Len(at) = Len(chunks)
          /\ \A j \in ChunkId : at[j] = "retry_created" =>
               request[j] = "retry_created" \/ j = i
      BY <1>1, <1>2 DEF Shape, ChunkId
    <3>3. AddChunks(<<row>>, at)
      BY <2>3
    <3> HIDE DEF row, at
    <3>4. <<row>> \in Seq(Chunk) /\ 1 \in DOMAIN <<row>> /\ <<row>>[1] = row
      BY <3>1, OneRow
    <3>5. QED
      BY <3>1, <3>2, <3>3, <3>4, AddHeldBack
  <2>4. QED
    BY <1>12, <2>2, <2>3 DEF PlanRetry
<1>13. QED
  BY <1>4, <1>6, <1>7, <1>8, <1>9, <1>10, <1>11, <1>12 DEF Complete

LEMMA WriteChunkHeldBack ==
  ASSUME PipelineInv, HeldBack, NEW emails \in SUBSET Email, NEW parsed,
         WriteChunk(emails, parsed)
  PROVE  HeldBack'
<1>1. Shape
  BY DEF PipelineInv
<1>2. CASE UNCHANGED <<chunks, request>>
  BY <1>2 DEF HeldBack, ChunkId
<1>3. CASE AddChunks(<<NewChunk(parser.no, "screening", 0, 0, emails)>>, request)
  <2> DEFINE row == NewChunk(parser.no, "screening", 0, 0, emails)
  <2>1. row \in Chunk
    BY <1>1, NewChunkIsChunk DEF Shape
  <2>2. AddChunks(<<row>>, request)
    BY <1>3
  <2> HIDE DEF row
  <2>3. <<row>> \in Seq(Chunk)
    BY <2>1, OneRow
  <2>4. request \in Seq(RequestStep) /\ Len(request) = Len(chunks)
    BY <1>1 DEF Shape
  <2>5. QED
    BY <2>2, <2>3, <2>4, AddHeldBack
<1>4. QED
  BY <1>2, <1>3 DEF WriteChunk

LEMMA HeldBackStep == PipelineInv /\ HeldBack /\ [Next]_vars => HeldBack'
<1> SUFFICES ASSUME PipelineInv, HeldBack, [Next]_vars PROVE HeldBack'
  OBVIOUS
<1>1. Shape
  BY DEF PipelineInv
<1>2. ASSUME UNCHANGED <<chunks, request>> PROVE HeldBack'
  BY <1>2 DEF HeldBack, ChunkId
<1>3. CASE \/ Prepare \/ PrepareDies \/ ParseStarts \/ ParseEnds \/ ParseFails
           \/ ParseDies \/ Finalize \/ FinalizeDies \/ FinalizeReleased
           \/ AdminFailsJob \/ AdminFinalizes \/ UNCHANGED vars
  BY <1>2, <1>3 DEF Prepare, PrepareDies, ParseStarts, ParseEnds, ParseFails,
     ParseDies, Finalize, FinalizeStarts, FinalizeFails, FinalizeSaves,
     FinalizeDies, FinalizeReleased, AdminFailsJob, AdminFinalizes, vars
<1>4. ASSUME NEW e \in Email, ParseEmail(e) PROVE HeldBack'
  <2>1. parser.open \cup {e} \in SUBSET Email
    BY <1>1 DEF Shape
  <2>2. QED
    BY <1>2, <1>4, <2>1, WriteChunkHeldBack DEF ParseEmail
<1>5. CASE ParseLastChunk
  BY <1>1, <1>5, WriteChunkHeldBack DEF ParseLastChunk, Shape
<1>6. ASSUME NEW i \in ChunkId,
             Claim(i) \/ Verify(i) \/ Fail(i) \/ Complete(i) \/ CompleteDies(i)
      PROVE  HeldBack'
  BY <1>6, ChunkHeldBack
<1>7. QED
  BY <1>3, <1>4, <1>5, <1>6 DEF Next, Parse, Trouble

\* Unless a complete request dies between the saved row and the dispatch, or a
\* finalization dies at work, a job that waits for no chunk any more has a
\* finalization in the queue, at work, or about to be dispatched, whatever order
\* requests, parses and finalizations run in, lost parses included, and although
\* finalizations that wait for another one use up their tries.  A request that dies after it has created a retry chunk does no harm
\* here: the job waits for the retry chunk, whose own completion dispatches one.
THEOREM FinalizationsCome ==
  ASSUME Deaths \cap {"probe_saved", "saved", "finalizing"} = {}
  PROVE  Spec => []FinalizationComes
<1>1. Init => FinalizationComes /\ HeldBack
  BY DEF Init, FinalizationComes, HeldBack, ChunkId
<1>2. PipelineInv /\ FinalizationComes /\ HeldBack /\ [Next]_vars
        => FinalizationComes'
  <2> SUFFICES ASSUME PipelineInv, FinalizationComes, HeldBack, [Next]_vars
               PROVE  FinalizationComes'
    OBVIOUS
  <2>1. CASE UNCHANGED vars
    BY <2>1, RowsComes DEF vars, Waits
  <2>2. ASSUME NEW i \in ChunkId,
               Claim(i) \/ Verify(i) \/ Fail(i) \/ Complete(i) \/ CompleteDies(i)
        PROVE  FinalizationComes'
    BY <2>2, ChunkComes
  <2>3. QED
    BY <2>1, <2>2, ParserComes, FinalizeComes DEF Next, Trouble
<1>3. PipelineInv /\ [Next]_vars => PipelineInv'
  BY NextPipelineInv
<1>4. QED
  BY <1>1, <1>2, <1>3, HeldBackStep, InitPipelineInv, PTL DEF Spec
=============================================================================
