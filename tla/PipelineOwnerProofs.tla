------------------------ MODULE PipelineOwnerProofs ------------------------
(***************************************************************************)
(* That each email of a job keeps exactly one owner (OneOwner), for every  *)
(* value of the constants that Steady admits.                              *)
(***************************************************************************)
EXTENDS PipelineProofs

\* What the theorems assume of the surroundings.  Each part excludes a course of
\* events in which the code does lose or duplicate an email: screening that
\* rejects in one attempt what it let pass in another, a request that dies
\* between the retry chunk and the parent's filtered file, and probing switched
\* on or off between two attempts.
Steady ==
  /\ Flapping = {}
  /\ "retry_created" \notin Deaths
  /\ ProbeSettings # BOOLEAN

-----------------------------------------------------------------------------
(* The invariant. *)

\* What the children of a chunk have taken over, and what is left to it.
Handed(i) == UNION {chunks[k].emails : k \in Kids(i)}
Rest(i) == chunks[i].emails \ Handed(i)

ScreeningTended(i) ==
  chunks[i].stage = "screening" =>
    /\ ~chunks[i].filtered
    /\ request[i] \in {"complete", "handoff"} =>
         output[i].again = chunks[i].emails \ HardInvalid
    /\ request[i] = "handoff" => Kids(i) # {}
    /\ Kids(i) # {} => /\ TRUE \in ProbeSettings
                       /\ Handed(i) = chunks[i].emails \ HardInvalid
    /\ chunks[i].status = "completed" =>
         output[i].settled \cup output[i].again = chunks[i].emails \ Handed(i)

ProbeTended(i) ==
  chunks[i].stage = "smtp_probe" =>
    /\ request[i] # "handoff"
    /\ chunks[i].status = "completed" =>
         output[i].settled = chunks[i].emails \ output[i].again
    /\ chunks[i].filtered =>
         chunks[i].status = "completed" /\ request[i] # "probe_saved"
    /\ request[i] = "retry_created" \/ chunks[i].filtered =>
         Kids(i) # {} /\ Handed(i) = output[i].again
    /\ ~(request[i] = "retry_created" \/ chunks[i].filtered) => Kids(i) = {}

\* The objects, the row and the children of a chunk agree on its emails.  As
\* long as a complete request has still to filter a parent's file, its retry
\* chunk waits.
Tended(i) ==
  /\ request[i] \in {"complete", "handoff"} =>
       output[i].settled = chunks[i].emails \ output[i].again
  /\ ScreeningTended(i)
  /\ ProbeTended(i)
  /\ request[i] = "retry_created" => \E k \in Kids(i) : chunks[k].status = "pending"

\* The emails that no chunk has; of a lost parse, what went with it.
Elsewhere ==
  IF parser.pc = "done" THEN job.cached
  ELSE parser.todo \cup parser.open \cup parser.hits

Disjoint == \A i, j \in ChunkId : i # j => Rest(i) \cap Rest(j) = {}

Partition ==
  /\ Disjoint
  /\ \A i \in ChunkId : Rest(i) \cap Elsewhere = {}
  /\ \A e \in Email : e \in Elsewhere \/ \E i \in ChunkId : e \in Rest(i)

\* A parse that started over is bound to collide with the chunks of the first,
\* since an email that made it open a chunk makes it open one again.
Parsing ==
  parser.pc # "done" =>
    /\ job.cached = {}
    /\ parser.open \cap parser.hits = {}
    /\ parser.todo \cap (parser.open \cup parser.hits) = {}
    /\ Stale => parser.todo \cup parser.open \cup parser.hits = Email
    /\ parser.hits \subseteq Cached \/ parser.cacheOnly
    /\ parser.open # {} => ~parser.cacheOnly
    /\ parser.open \cap Cached = {}
    /\ chunks # <<>> => ~parser.cacheOnly /\ Email \ Cached # {}

\* What a parse that started over has read says nothing of the chunks, which
\* stay disjoint all the same, also if it is lost before it collides.
Whole ==
  job.status \in {"pending", "processing"} =>
    Disjoint /\ (parser.pc = "done" \/ ~Stale => Partition)

OwnerInv == (\A i \in ChunkId : Tended(i)) /\ Parsing /\ Whole

-----------------------------------------------------------------------------
(* Who keeps what.                                                           *)

\* What the property says a chunk keeps is what its children have not taken
\* over, once the handler is through.
LEMMA KeepsIsRest ==
  ASSUME PipelineInv, NEW i \in ChunkId, Tended(i)
  PROVE  Keeps(i) = Rest(i)
<1>1. /\ InStep(i) /\ chunks[i].stage \in {"screening", "smtp_probe"}
      /\ output[i].again \subseteq chunks[i].emails
  BY Entries DEF PipelineInv, Chunk, InStep
<1>2. Handed(i) = UNION {chunks[k].emails : k \in {m \in ChunkId : chunks[m].parent = i}}
  BY DEF Handed, Kids
<1>3. CASE ~(chunks[i].status = "completed" /\ request[i] # "retry_created")
  BY <1>2, <1>3 DEF Keeps, Rest
<1>4. CASE /\ chunks[i].status = "completed" /\ request[i] # "retry_created"
           /\ chunks[i].stage = "screening"
  BY <1>4 DEF Keeps, Rest, Tended, ScreeningTended
<1>5. CASE /\ chunks[i].status = "completed" /\ request[i] # "retry_created"
           /\ chunks[i].stage = "smtp_probe"
  <2>1. CASE chunks[i].filtered
    BY <1>1, <1>5, <2>1 DEF Keeps, Rest, Tended, ProbeTended
  <2>2. CASE ~chunks[i].filtered
    <3>1. Kids(i) = {}
      BY <1>5, <2>2 DEF Tended, ProbeTended
    <3>2. Handed(i) = {}
      BY <3>1 DEF Handed
    <3>3. QED
      BY <1>1, <1>5, <2>2, <3>2 DEF Keeps, Rest, Tended, ProbeTended
  <2>3. QED
    BY <2>1, <2>2
<1>6. QED
  BY <1>1, <1>3, <1>4, <1>5

LEMMA KeptRests ==
  ASSUME Shape, TreeKept
  PROVE  /\ ChunkId' = ChunkId
         /\ \A i \in ChunkId : /\ Kids(i)' = Kids(i)
                               /\ Handed(i)' = Handed(i)
                               /\ Rest(i)' = Rest(i)
<1>1. /\ ChunkId' = ChunkId
      /\ \A i \in ChunkId : Kids(i)' = Kids(i)
  BY KeptTree
<1>2. ASSUME NEW i \in ChunkId PROVE Handed(i)' = Handed(i)
  <2>1. \A k \in Kids(i) : chunks'[k].emails = chunks[k].emails
    BY DEF TreeKept, Kids
  <2>2. QED
    BY <1>1, <2>1 DEF Handed
<1>3. \A i \in ChunkId : Rest(i)' = Rest(i)
  BY <1>2 DEF Rest, TreeKept
<1>4. QED
  BY <1>1, <1>2, <1>3

\* A step that moves one chunk leaves the others as they are, and the emails
\* where they are.
LEMMA MoveOwner ==
  ASSUME PipelineInv, OwnerInv, NEW i \in ChunkId,
         NEW row \in Chunk, NEW out \in Output, NEW step \in RequestStep,
         Moves(i, row, out, step), SameBirth(row, chunks[i]),
         \A j \in ChunkId : request[j] = "retry_created" /\ i \in Kids(j) =>
           chunks[i].status # "pending",
         Tended(i)'
  PROVE  OwnerInv'
<1>1. Shape
  BY DEF PipelineInv
<1>2. TreeKept
  BY DEF Moves, TreeKept, SameBirth
<1>3. /\ ChunkId' = ChunkId
      /\ \A j \in ChunkId : /\ Kids(j)' = Kids(j)
                            /\ Handed(j)' = Handed(j)
                            /\ Rest(j)' = Rest(j)
  BY <1>1, <1>2, KeptRests
<1>4. UNCHANGED <<job, parser>>
  BY DEF Moves
<1>5. chunks # <<>> /\ chunks' # <<>>
  BY <1>1, <1>2 DEF Shape, TreeKept, ChunkId
<1>6. ASSUME NEW j \in ChunkId, j # i PROVE Tended(j)'
  <2>1. /\ chunks'[j] = chunks[j]
        /\ output'[j] = output[j]
        /\ request'[j] = request[j]
    BY <1>6 DEF Moves
  <2>2. Tended(j) /\ Kids(j)' = Kids(j) /\ Handed(j)' = Handed(j)
    BY <1>3 DEF OwnerInv
  <2>3. ScreeningTended(j)' /\ ProbeTended(j)'
    <3>1. ScreeningTended(j)'
      BY <2>1, <2>2 DEF Tended, ScreeningTended
    <3>2. ProbeTended(j)'
      BY <2>1, <2>2 DEF Tended, ProbeTended
    <3>3. QED
      BY <3>1, <3>2
  <2>4. ASSUME request[j] = "retry_created"
        PROVE  \E k \in Kids(j) : chunks'[k].status = "pending"
    <3>1. PICK k \in Kids(j) : chunks[k].status = "pending"
      BY <2>2, <2>4 DEF Tended
    <3>2. k # i /\ k \in ChunkId
      BY <2>4, <3>1 DEF Kids
    <3>3. chunks'[k] = chunks[k]
      BY <3>2 DEF Moves
    <3>4. QED
      BY <3>1, <3>3
  <2>5. QED
    BY <2>1, <2>2, <2>3, <2>4 DEF Tended
<1>7. Stale' <=> Stale
  BY <1>4, <1>5 DEF Stale
<1>8. Parsing'
  BY <1>4, <1>5, <1>7 DEF Parsing, OwnerInv
<1>9. Elsewhere' = Elsewhere
  BY <1>4 DEF Elsewhere
<1>10. (Disjoint' <=> Disjoint) /\ (Partition' <=> Partition)
  BY <1>3, <1>9 DEF Disjoint, Partition
<1>11. Whole'
  BY <1>4, <1>7, <1>10 DEF Whole, OwnerInv
<1>12. QED
  BY <1>3, <1>6, <1>8, <1>11 DEF OwnerInv

\* Where the emails of inserted rows come from.
LEMMA AddedRests ==
  ASSUME PipelineInv, NEW new \in Seq(Chunk), NEW at \in Seq(RequestStep),
         Len(at) = Len(chunks), AddChunks(new, at),
         NEW p \in ChunkId \cup {0}, Grows(new, p), p # 0 => Kids(p) = {}
  PROVE  /\ ChunkId \subseteq ChunkId'
         /\ \A j \in ChunkId : j # p => /\ Kids(j)' = Kids(j)
                                        /\ Handed(j)' = Handed(j)
                                        /\ Rest(j)' = Rest(j)
         /\ \A j \in ChunkId' \ ChunkId : /\ Kids(j)' = {}
                                          /\ Handed(j)' = {}
                                          /\ j - Len(chunks) \in DOMAIN new
                                          /\ Rest(j)' = new[j - Len(chunks)].emails
         /\ \A k \in DOMAIN new : k + Len(chunks) \in ChunkId' \ ChunkId
                                  /\ (k + Len(chunks)) - Len(chunks) = k
         /\ p # 0 => /\ Kids(p)' = ChunkId' \ ChunkId
                     /\ Kids(p)' # {}
                     /\ Handed(p)' = UNION {new[k].emails : k \in DOMAIN new}
                     /\ Rest(p) = chunks[p].emails
                     /\ Rest(p)' = chunks[p].emails \ Handed(p)'
<1>1. /\ Shape /\ Tree
      /\ Len(chunks) \in Nat /\ Len(new) \in Nat /\ DOMAIN new = 1..Len(new)
  BY DEF PipelineInv, Shape
<1>2. /\ Len(chunks') = Len(chunks) + Len(new)
      /\ \A j \in ChunkId : chunks'[j] = chunks[j]
      /\ \A j \in ChunkId' \ ChunkId :
           /\ j - Len(chunks) \in DOMAIN new
           /\ chunks'[j] = new[j - Len(chunks)]
  BY <1>1, ChunksAdded
<1>3. /\ ChunkId = 1..Len(chunks)
      /\ ChunkId' = 1..(Len(chunks) + Len(new))
  BY <1>2 DEF ChunkId
<1>4. ChunkId \subseteq ChunkId'
  BY <1>1, <1>3
<1>5. \A k \in DOMAIN new : /\ k + Len(chunks) \in ChunkId' \ ChunkId
                            /\ (k + Len(chunks)) - Len(chunks) = k
  BY <1>1, <1>3
<1>6. /\ \A i \in ChunkId : i # p => Kids(i)' = Kids(i)
      /\ \A i \in ChunkId' \ ChunkId : Kids(i)' = {}
  BY <1>1, GrownTree
<1>7. ASSUME NEW j \in ChunkId, j # p
      PROVE  Handed(j)' = Handed(j) /\ Rest(j)' = Rest(j)
  <2>1. \A k \in Kids(j) : chunks'[k] = chunks[k]
    BY <1>2 DEF Kids
  <2>2. Handed(j)' = Handed(j)
    BY <1>6, <1>7, <2>1 DEF Handed
  <2>3. QED
    BY <1>2, <2>2 DEF Rest
<1>8. ASSUME NEW j \in ChunkId' \ ChunkId
      PROVE  Handed(j)' = {} /\ Rest(j)' = new[j - Len(chunks)].emails
  <2>1. Handed(j)' = {}
    BY <1>6 DEF Handed
  <2>2. QED
    BY <1>2, <2>1 DEF Rest
<1>9. ASSUME p # 0
      PROVE  /\ Kids(p)' = ChunkId' \ ChunkId
             /\ Kids(p)' # {}
             /\ Handed(p)' = UNION {new[k].emails : k \in DOMAIN new}
             /\ Rest(p) = chunks[p].emails
             /\ Rest(p)' = chunks[p].emails \ Handed(p)'
  <2>1. p \in ChunkId /\ Kids(p) = {}
    BY <1>9
  <2>2. \A k \in ChunkId : chunks[k].parent # p
    BY <2>1 DEF Kids
  <2>3. \A k \in ChunkId' \ ChunkId : chunks'[k].parent = p
    BY <1>2 DEF Grows
  <2>4. Kids(p)' = {k \in ChunkId' : chunks'[k].parent = p}
    BY DEF Kids
  <2>5. Kids(p)' = ChunkId' \ ChunkId
    BY <1>2, <2>2, <2>3, <2>4
  <2>6. Kids(p)' # {}
    BY <1>5, <2>5 DEF Grows
  <2>7. Handed(p)' = UNION {chunks'[k].emails : k \in ChunkId' \ ChunkId}
    BY <2>5 DEF Handed
  <2>8. {chunks'[k].emails : k \in ChunkId' \ ChunkId} = {new[k].emails : k \in DOMAIN new}
    <3>1. ASSUME NEW k \in DOMAIN new
          PROVE  \E j \in ChunkId' \ ChunkId : chunks'[j].emails = new[k].emails
      <4>1. /\ k + Len(chunks) \in ChunkId' \ ChunkId
            /\ chunks'[k + Len(chunks)] = new[k]
        BY <1>2, <1>5
      <4>2. QED
        BY <4>1
    <3>2. \A j \in ChunkId' \ ChunkId :
            \E k \in DOMAIN new : chunks'[j].emails = new[k].emails
      BY <1>2
    <3>3. {new[k].emails : k \in DOMAIN new} \subseteq
            {chunks'[k].emails : k \in ChunkId' \ ChunkId}
      BY <3>1
    <3>4. {chunks'[k].emails : k \in ChunkId' \ ChunkId} \subseteq
            {new[k].emails : k \in DOMAIN new}
      BY <3>2
    <3>5. QED
      BY <3>3, <3>4
  <2>9. Handed(p) = {}
    BY <2>1 DEF Handed
  <2>10. Rest(p) = chunks[p].emails /\ Rest(p)' = chunks[p].emails \ Handed(p)'
    BY <1>2, <2>1, <2>9 DEF Rest
  <2>11. QED
    BY <2>5, <2>6, <2>7, <2>8, <2>10
<1>10. QED
  BY <1>2, <1>4, <1>5, <1>6, <1>7, <1>8, <1>9

LEMMA AddTended ==
  ASSUME PipelineInv, OwnerInv, NEW new \in Seq(Chunk), NEW at \in Seq(RequestStep),
         Len(at) = Len(chunks), AddChunks(new, at),
         NEW p \in ChunkId \cup {0}, Grows(new, p), p # 0 => Kids(p) = {},
         \A k \in DOMAIN new : new[k].status = "pending" /\ ~new[k].filtered,
         \A j \in ChunkId : j # p => at[j] = request[j],
         p # 0 => Tended(p)'
  PROVE  \A j \in ChunkId' : Tended(j)'
<1>1. Shape
  BY DEF PipelineInv
<1>2. /\ \A j \in ChunkId : /\ chunks'[j] = chunks[j]
                            /\ output'[j] = output[j]
                            /\ request'[j] = at[j]
      /\ \A j \in ChunkId' \ ChunkId :
           /\ j - Len(chunks) \in DOMAIN new
           /\ chunks'[j] = new[j - Len(chunks)]
           /\ output'[j] = NoOutput
           /\ request'[j] = "none"
  BY <1>1, ChunksAdded
<1>3. /\ \A j \in ChunkId : j # p => /\ Kids(j)' = Kids(j)
                                     /\ Handed(j)' = Handed(j)
      /\ \A j \in ChunkId' \ ChunkId : Kids(j)' = {}
  BY AddedRests
<1>4. ASSUME NEW j \in ChunkId, j # p PROVE Tended(j)'
  <2>1. /\ chunks'[j] = chunks[j]
        /\ output'[j] = output[j]
        /\ request'[j] = request[j]
    BY <1>2, <1>4
  <2>2. Tended(j) /\ Kids(j)' = Kids(j) /\ Handed(j)' = Handed(j)
    BY <1>3, <1>4 DEF OwnerInv
  <2>3. ScreeningTended(j)' /\ ProbeTended(j)'
    <3>1. ScreeningTended(j)'
      BY <2>1, <2>2 DEF Tended, ScreeningTended
    <3>2. ProbeTended(j)'
      BY <2>1, <2>2 DEF Tended, ProbeTended
    <3>3. QED
      BY <3>1, <3>2
  <2>4. \A k \in Kids(j) : chunks'[k] = chunks[k]
    BY <1>2 DEF Kids
  <2>5. QED
    BY <2>1, <2>2, <2>3, <2>4 DEF Tended
<1>5. ASSUME NEW j \in ChunkId' \ ChunkId PROVE Tended(j)'
  <2>1. /\ chunks'[j].status = "pending" /\ ~chunks'[j].filtered
        /\ request'[j] = "none" /\ Kids(j)' = {}
    BY <1>2, <1>3
  <2>2. ScreeningTended(j)' /\ ProbeTended(j)'
    BY <2>1 DEF ScreeningTended, ProbeTended
  <2>3. QED
    BY <2>1, <2>2 DEF Tended
<1>6. 0 \notin ChunkId
  BY <1>1, Entries
<1>7. QED
  BY <1>4, <1>5, <1>6

\* The chunks a planner inserts share out what they take from their parent.
LEMMA PlannerDisjoint ==
  ASSUME PipelineInv, NEW new \in Seq(Chunk), NEW at \in Seq(RequestStep),
         Len(at) = Len(chunks), AddChunks(new, at),
         NEW p \in ChunkId, Grows(new, p), Kids(p) = {}, Disjoint
  PROVE  Disjoint'
<1>1. p # 0
  BY Entries DEF PipelineInv
<1>2. /\ ChunkId \subseteq ChunkId'
      /\ \A j \in ChunkId : j # p => Rest(j)' = Rest(j)
      /\ \A j \in ChunkId' \ ChunkId : /\ j - Len(chunks) \in DOMAIN new
                                       /\ Rest(j)' = new[j - Len(chunks)].emails
      /\ \A k \in DOMAIN new : k + Len(chunks) \in ChunkId' \ ChunkId
                               /\ (k + Len(chunks)) - Len(chunks) = k
      /\ Handed(p)' = UNION {new[k].emails : k \in DOMAIN new}
      /\ Rest(p) = chunks[p].emails
      /\ Rest(p)' = chunks[p].emails \ Handed(p)'
  BY <1>1, AddedRests
<1>3. /\ \A k \in DOMAIN new : new[k].emails \subseteq Rest(p)
      /\ \A k, m \in DOMAIN new : k # m => new[k].emails \cap new[m].emails = {}
  BY <1>1, <1>2 DEF Grows
<1>4. \A k \in DOMAIN new : Rest(p)' \cap new[k].emails = {}
  BY <1>2
<1>5. Len(chunks) \in Nat /\ \A j \in ChunkId' : j \in Nat
  BY DEF PipelineInv, Shape, ChunkId
<1>6. ASSUME NEW i \in ChunkId, NEW j \in ChunkId', i # j
      PROVE  Rest(i)' \cap Rest(j)' = {}
  <2>1. Rest(i)' \subseteq Rest(i)
    BY <1>2
  <2>2. CASE j \in ChunkId
    <3>1. Rest(j)' \subseteq Rest(j)
      BY <1>2, <2>2
    <3>2. QED
      BY <1>6, <2>1, <2>2, <3>1 DEF Disjoint
  <2>3. CASE j \notin ChunkId
    <3>1. PICK k \in DOMAIN new : Rest(j)' = new[k].emails
      BY <1>2, <2>3
    <3>2. CASE i = p
      BY <1>4, <3>1, <3>2
    <3>3. CASE i # p
      BY <1>3, <2>1, <3>1, <3>3 DEF Disjoint
    <3>4. QED
      BY <3>2, <3>3
  <2>4. QED
    BY <2>2, <2>3
<1>7. ASSUME NEW i \in ChunkId' \ ChunkId, NEW j \in ChunkId' \ ChunkId, i # j
      PROVE  Rest(i)' \cap Rest(j)' = {}
  <2>1. /\ i - Len(chunks) \in DOMAIN new /\ Rest(i)' = new[i - Len(chunks)].emails
        /\ j - Len(chunks) \in DOMAIN new /\ Rest(j)' = new[j - Len(chunks)].emails
    BY <1>2
  <2>2. i - Len(chunks) # j - Len(chunks)
    BY <1>5, <1>7
  <2>3. QED
    BY <1>3, <2>1, <2>2
<1>8. \A i, j \in ChunkId' : i # j => Rest(i)' \cap Rest(j)' = {}
  BY <1>6, <1>7
<1>9. QED
  BY <1>8 DEF Disjoint

\* And they leave what they do not take with it.
LEMMA PlannerPartition ==
  ASSUME PipelineInv, NEW new \in Seq(Chunk), NEW at \in Seq(RequestStep),
         Len(at) = Len(chunks), AddChunks(new, at),
         NEW p \in ChunkId, Grows(new, p), Kids(p) = {},
         Elsewhere' = Elsewhere, Partition
  PROVE  Partition'
<1>1. p # 0
  BY Entries DEF PipelineInv
<1>2. /\ ChunkId \subseteq ChunkId'
      /\ \A j \in ChunkId : j # p => Rest(j)' = Rest(j)
      /\ \A j \in ChunkId' \ ChunkId : /\ j - Len(chunks) \in DOMAIN new
                                       /\ Rest(j)' = new[j - Len(chunks)].emails
      /\ \A k \in DOMAIN new : k + Len(chunks) \in ChunkId' \ ChunkId
                               /\ (k + Len(chunks)) - Len(chunks) = k
      /\ Handed(p)' = UNION {new[k].emails : k \in DOMAIN new}
      /\ Rest(p) = chunks[p].emails
      /\ Rest(p)' = chunks[p].emails \ Handed(p)'
  BY <1>1, AddedRests
<1>3. \A k \in DOMAIN new : new[k].emails \subseteq Rest(p)
  BY <1>1, <1>2 DEF Grows
<1>4. ASSUME NEW i \in ChunkId' PROVE Rest(i)' \cap Elsewhere' = {}
  <2>1. CASE i \in ChunkId
    <3>1. Rest(i)' \subseteq Rest(i)
      BY <1>2, <2>1
    <3>2. QED
      BY <2>1, <3>1 DEF Partition
  <2>2. CASE i \notin ChunkId
    <3>1. Rest(i)' \subseteq Rest(p)
      BY <1>2, <1>3, <2>2
    <3>2. QED
      BY <3>1 DEF Partition
  <2>3. QED
    BY <2>1, <2>2
<1>5. Disjoint'
  BY PlannerDisjoint DEF Partition
<1>6. ASSUME NEW e \in Email, e \notin Elsewhere'
       PROVE  \E i \in ChunkId' : e \in Rest(i)'
  <2>1. PICK i \in ChunkId : e \in Rest(i)
    BY <1>6 DEF Partition
  <2>2. CASE i # p
    BY <1>2, <2>1, <2>2
  <2>3. CASE i = p /\ e \notin Handed(p)'
    BY <1>2, <2>1, <2>3
  <2>4. CASE i = p /\ e \in Handed(p)'
    <3>1. PICK k \in DOMAIN new : e \in new[k].emails
      BY <1>2, <2>4
    <3>2. PICK j \in ChunkId' \ ChunkId : j - Len(chunks) = k
      BY <1>2
    <3>3. Rest(j)' = new[k].emails
      BY <1>2, <3>2
    <3>4. QED
      BY <3>1, <3>2, <3>3
  <2>5. QED
    BY <2>2, <2>3, <2>4
<1>7. QED
  BY <1>4, <1>5, <1>6 DEF Partition

\* The chunk the parser writes gets what it had read.
LEMMA ParserPartition ==
  ASSUME PipelineInv, NEW row \in Chunk, NEW at \in Seq(RequestStep),
         Len(at) = Len(chunks), AddChunks(<<row>>, at), Grows(<<row>>, 0),
         row.emails \subseteq Elsewhere, Elsewhere' = Elsewhere \ row.emails,
         Partition
  PROVE  Partition'
<1> DEFINE new == <<row>>
<1>1. new \in Seq(Chunk) /\ DOMAIN new = {1} /\ new[1] = row
  BY OneRow
<1>2. AddChunks(new, at) /\ Grows(new, 0) /\ 0 \in ChunkId \cup {0} /\ 0 \notin ChunkId
  BY Entries DEF PipelineInv
<1> HIDE DEF new
<1>3. /\ ChunkId \subseteq ChunkId'
      /\ \A j \in ChunkId : Rest(j)' = Rest(j)
      /\ \A j \in ChunkId' \ ChunkId : /\ j - Len(chunks) \in DOMAIN new
                                       /\ Rest(j)' = new[j - Len(chunks)].emails
      /\ \A k \in DOMAIN new : k + Len(chunks) \in ChunkId' \ ChunkId
                               /\ (k + Len(chunks)) - Len(chunks) = k
  BY <1>1, <1>2, AddedRests
<1>4. Len(chunks) \in Nat /\ \A j \in ChunkId' : j \in Nat
  BY DEF PipelineInv, Shape, ChunkId
<1>5. \A j \in ChunkId' \ ChunkId : Rest(j)' = row.emails /\ j = Len(chunks) + 1
  BY <1>1, <1>3, <1>4
<1>6. \E j \in ChunkId' \ ChunkId : Rest(j)' = row.emails
  BY <1>1, <1>3, <1>5
<1>7. \A i \in ChunkId' : Rest(i)' \cap Elsewhere' = {}
  BY <1>3, <1>5 DEF Partition
<1>8. ASSUME NEW i \in ChunkId', NEW j \in ChunkId', i # j
      PROVE  Rest(i)' \cap Rest(j)' = {}
  <2>1. CASE i \in ChunkId /\ j \in ChunkId
    BY <1>3, <1>8, <2>1 DEF Partition, Disjoint
  <2>2. CASE i \in ChunkId /\ j \notin ChunkId
    BY <1>3, <1>5, <2>2 DEF Partition
  <2>3. CASE i \notin ChunkId /\ j \in ChunkId
    BY <1>3, <1>5, <2>3 DEF Partition
  <2>4. QED
    BY <1>5, <1>8, <2>1, <2>2, <2>3
<1>9. \A e \in Email : e \in Elsewhere' \/ \E i \in ChunkId' : e \in Rest(i)'
  BY <1>3, <1>6 DEF Partition
<1>10. QED
  BY <1>7, <1>8, <1>9 DEF Partition, Disjoint

-----------------------------------------------------------------------------
(* The steps of workers and of complete.                                     *)

LEMMA MoveKept ==
  ASSUME PipelineInv, NEW i \in ChunkId,
         NEW row \in Chunk, NEW out \in Output, NEW step \in RequestStep,
         Moves(i, row, out, step), SameBirth(row, chunks[i])
  PROVE  /\ Kids(i)' = Kids(i)
         /\ Handed(i)' = Handed(i)
         /\ chunks'[i] = row /\ output'[i] = out /\ request'[i] = step
         /\ row.stage = chunks[i].stage /\ row.emails = chunks[i].emails
<1>1. Shape /\ TreeKept
  BY DEF PipelineInv, Moves, TreeKept, SameBirth
<1>2. QED
  BY <1>1, KeptRests DEF Moves, SameBirth

LEMMA OwnerClaim ==
  ASSUME PipelineInv, OwnerInv, NEW i \in ChunkId, Claim(i)
  PROVE  OwnerInv'
<1> DEFINE row == [chunks[i] EXCEPT !.status = "processing"]
<1>1. /\ Shape /\ Tree /\ InStep(i) /\ Tended(i)
      /\ chunks[i] \in Chunk /\ output[i] \in Output /\ "working" \in RequestStep
  BY Entries DEF PipelineInv, OwnerInv, RequestStep
<1>2. Moves(i, row, output[i], "working")
  BY <1>1, ClaimMoves
<1>3. /\ row \in Chunk /\ row.status = "processing" /\ SameBirth(row, chunks[i])
      /\ row.filtered = chunks[i].filtered
  BY <1>1 DEF Chunk, ChunkStatus, SameBirth
<1>4. chunks[i].status = "pending"
  BY DEF Claim, Claimable
<1> HIDE DEF row
<1>5. /\ Kids(i)' = Kids(i) /\ Handed(i)' = Handed(i)
      /\ chunks'[i] = row /\ output'[i] = output[i] /\ request'[i] = "working"
      /\ row.stage = chunks[i].stage /\ row.emails = chunks[i].emails
  BY <1>1, <1>2, <1>3, MoveKept
<1>6. ASSUME NEW j \in ChunkId, request[j] = "retry_created", i \in Kids(j)
      PROVE  FALSE
  <2>1. chunks[i].parent = j /\ j # 0
    BY <1>1, <1>6, Entries DEF Kids
  <2>2. chunks[i].stage = "smtp_probe"
    BY <1>1, <2>1 DEF Tree, Descends, Chunk
  <2>3. QED
    BY <1>6, <2>1, <2>2 DEF Claim, Claimable
<1>7. request[i] \notin {"working", "complete", "handoff", "retry_created"}
  BY <1>1, <1>4 DEF InStep
<1>8. ScreeningTended(i)'
  BY <1>1, <1>3, <1>5 DEF Tended, ScreeningTended
<1>9. ProbeTended(i)'
  BY <1>1, <1>3, <1>4, <1>5, <1>7 DEF Tended, ProbeTended
<1>10. Tended(i)'
  BY <1>5, <1>8, <1>9 DEF Tended
<1>11. QED
  BY <1>1, <1>2, <1>3, <1>6, <1>10, MoveOwner

\* Screening settles the same emails in every attempt.
LEMMA OwnerVerify ==
  ASSUME Steady, PipelineInv, OwnerInv, NEW i \in ChunkId, Verify(i)
  PROVE  OwnerInv'
<1>1. /\ Shape /\ InStep(i) /\ Tended(i)
      /\ chunks[i] \in Chunk /\ "complete" \in RequestStep
  BY Entries DEF PipelineInv, OwnerInv, RequestStep
<1>2. PICK again \in AgainSets(chunks[i]) :
        Moves(i, chunks[i],
              [settled |-> chunks[i].emails \ again, again |-> again], "complete")
  BY <1>1, VerifyMoves
<1> DEFINE out == [settled |-> chunks[i].emails \ again, again |-> again]
<1>3. /\ out \in Output /\ out.again = again
      /\ out.settled = chunks[i].emails \ again
      /\ SameBirth(chunks[i], chunks[i])
  BY <1>1 DEF AgainSets, Output, Chunk, SameBirth
<1> HIDE DEF out
<1>4. Moves(i, chunks[i], out, "complete")
  BY <1>2 DEF out
<1>5. /\ Kids(i)' = Kids(i) /\ Handed(i)' = Handed(i)
      /\ chunks'[i] = chunks[i] /\ output'[i] = out /\ request'[i] = "complete"
  BY <1>1, <1>3, <1>4, MoveKept
<1>6. request[i] = "working" /\ chunks[i].status = "processing"
  BY <1>1 DEF Verify, InStep
<1>7. chunks[i].stage = "screening" => again = chunks[i].emails \ HardInvalid
  BY <1>2 DEF Steady, AgainSets
<1>8. ScreeningTended(i)'
  BY <1>1, <1>3, <1>5, <1>6, <1>7 DEF Tended, ScreeningTended
<1>9. ProbeTended(i)'
  BY <1>1, <1>5, <1>6 DEF Tended, ProbeTended
<1>10. Tended(i)'
  BY <1>3, <1>5, <1>8, <1>9 DEF Tended
<1>11. QED
  BY <1>1, <1>3, <1>4, <1>6, <1>10, MoveOwner

LEMMA OwnerFail ==
  ASSUME PipelineInv, OwnerInv, NEW i \in ChunkId, Fail(i)
  PROVE  OwnerInv'
<1> DEFINE row == [chunks[i] EXCEPT
                     !.attempts = @ + 1,
                     !.status = IF chunks[i].attempts + 1 < MaxAttempts THEN "pending"
                                ELSE "failed"]
<1>1. /\ Shape /\ InStep(i) /\ Tended(i)
      /\ chunks[i] \in Chunk /\ output[i] \in Output /\ "none" \in RequestStep
  BY Entries DEF PipelineInv, OwnerInv, RequestStep
<1>2. Moves(i, row, output[i], "none")
  BY <1>1, FailMoves
<1>3. row \in Chunk
  BY <1>1, <1>2 DEF Moves, Shape, ChunkId
<1>4. /\ row.status \in {"pending", "failed"} /\ SameBirth(row, chunks[i])
      /\ row.filtered = chunks[i].filtered
  BY <1>1 DEF Chunk, SameBirth
<1>5. /\ request[i] \in {"working", "complete", "handoff"}
      /\ chunks[i].status = "processing"
  BY <1>1 DEF Fail, InStep
<1> HIDE DEF row
<1>6. /\ Kids(i)' = Kids(i) /\ Handed(i)' = Handed(i)
      /\ chunks'[i] = row /\ output'[i] = output[i] /\ request'[i] = "none"
      /\ row.stage = chunks[i].stage /\ row.emails = chunks[i].emails
  BY <1>1, <1>2, <1>3, <1>4, MoveKept
<1>7. ScreeningTended(i)'
  BY <1>1, <1>4, <1>6 DEF Tended, ScreeningTended
<1>8. ProbeTended(i)'
  BY <1>1, <1>4, <1>5, <1>6 DEF Tended, ProbeTended
<1>9. Tended(i)'
  BY <1>6, <1>7, <1>8 DEF Tended
<1>10. QED
  BY <1>1, <1>2, <1>3, <1>4, <1>5, <1>9, MoveOwner

\* A screening chunk that is saved without a handoff has no probe chunks: they
\* would need probing to be on and emails to probe.
LEMMA NoKidsWithoutHandoff ==
  ASSUME Steady, PipelineInv, OwnerInv, NEW i \in ChunkId, SaveScreening(i)
  PROVE  Kids(i) = {}
<1>1. /\ Tree /\ Tended(i)
      /\ request[i] = "complete" /\ chunks[i].stage = "screening"
      /\ FALSE \in ProbeSettings \/ output[i].again = {}
  BY DEF PipelineInv, OwnerInv, SaveScreening
<1>2. SUFFICES ASSUME NEW k \in Kids(i) PROVE FALSE
  OBVIOUS
<1>3. /\ TRUE \in ProbeSettings
      /\ Handed(i) = output[i].again
  BY <1>1 DEF Tended, ScreeningTended
<1>4. FALSE \notin ProbeSettings
  BY <1>3, VerificationPipelineAssumption DEF Steady
<1>5. chunks[k].emails # {} /\ chunks[k].emails \subseteq Handed(i)
  BY <1>1 DEF Tree, Handed, Kids
<1>6. QED
  BY <1>1, <1>3, <1>4, <1>5

LEMMA OwnerSave ==
  ASSUME Steady, PipelineInv, OwnerInv, NEW i \in ChunkId,
         SaveHandoff(i) \/ SaveScreening(i) \/ SaveProbe(i)
  PROVE  OwnerInv'
<1> DEFINE row == [chunks[i] EXCEPT !.status = "completed"]
           out == [output[i] EXCEPT !.again = {}]
<1>1. /\ Shape /\ InStep(i) /\ Tended(i)
      /\ chunks[i] \in Chunk /\ output[i] \in Output
      /\ {"saved", "probe_saved"} \subseteq RequestStep
  BY Entries DEF PipelineInv, OwnerInv, RequestStep
<1>2. /\ row \in Chunk /\ row.status = "completed" /\ SameBirth(row, chunks[i])
      /\ row.filtered = chunks[i].filtered
      /\ out \in Output /\ out.settled = output[i].settled /\ out.again = {}
  BY <1>1 DEF Chunk, ChunkStatus, SameBirth, Output
<1>3. chunks[i].status = "processing" /\ output[i].again \subseteq chunks[i].emails
  BY <1>1 DEF InStep, SaveHandoff, SaveScreening, SaveProbe
<1> HIDE DEF row, out
<1>4. CASE SaveHandoff(i)
  <2>1. Moves(i, row, out, "saved") /\ request[i] = "handoff"
    BY <1>1, <1>4, SaveMoves DEF row, out, SaveHandoff
  <2>2. /\ Kids(i)' = Kids(i) /\ Handed(i)' = Handed(i)
        /\ chunks'[i] = row /\ output'[i] = out /\ request'[i] = "saved"
        /\ row.stage = chunks[i].stage /\ row.emails = chunks[i].emails
    BY <1>1, <1>2, <2>1, MoveKept
  <2>3. chunks[i].stage = "screening"
    BY <1>1, <2>1 DEF Tended, ProbeTended, Chunk
  <2>4. /\ output[i].settled = chunks[i].emails \ output[i].again
        /\ Handed(i) = output[i].again
    BY <1>1, <2>1, <2>3 DEF Tended, ScreeningTended
  <2>5. out.settled \cup out.again = chunks[i].emails \ Handed(i)
    BY <1>2, <2>4
  <2>6. ScreeningTended(i)'
    BY <1>1, <1>2, <2>2, <2>3, <2>5 DEF Tended, ScreeningTended
  <2>7. Tended(i)'
    BY <2>2, <2>3, <2>6 DEF Tended, ProbeTended
  <2>8. QED
    BY <1>1, <1>2, <1>3, <2>1, <2>7, MoveOwner
<1>5. CASE SaveScreening(i)
  <2>1. /\ Moves(i, row, output[i], "saved") /\ request[i] = "complete"
        /\ chunks[i].stage = "screening"
    BY <1>1, <1>5, SaveMoves DEF row, SaveScreening
  <2>2. /\ Kids(i)' = Kids(i) /\ Handed(i)' = Handed(i)
        /\ chunks'[i] = row /\ output'[i] = output[i] /\ request'[i] = "saved"
        /\ row.stage = chunks[i].stage /\ row.emails = chunks[i].emails
    BY <1>1, <1>2, <2>1, MoveKept
  <2>3. Kids(i) = {} /\ Handed(i) = {}
    BY <1>5, NoKidsWithoutHandoff DEF Handed
  <2>4. output[i].settled = chunks[i].emails \ output[i].again
    BY <1>1, <2>1 DEF Tended
  <2>5. output[i].settled \cup output[i].again = chunks[i].emails \ Handed(i)
    BY <1>3, <2>3, <2>4
  <2>6. ScreeningTended(i)'
    BY <1>1, <1>2, <2>1, <2>2, <2>3, <2>5 DEF Tended, ScreeningTended
  <2>7. Tended(i)'
    BY <2>1, <2>2, <2>6 DEF Tended, ProbeTended
  <2>8. QED
    BY <1>1, <1>2, <1>3, <2>1, <2>7, MoveOwner
<1>6. CASE SaveProbe(i)
  <2>1. /\ Moves(i, row, output[i], "probe_saved") /\ request[i] = "complete"
        /\ chunks[i].stage = "smtp_probe"
    BY <1>1, <1>6, SaveMoves DEF row, SaveProbe
  <2>2. /\ Kids(i)' = Kids(i) /\ Handed(i)' = Handed(i)
        /\ chunks'[i] = row /\ output'[i] = output[i] /\ request'[i] = "probe_saved"
        /\ row.stage = chunks[i].stage /\ row.emails = chunks[i].emails
    BY <1>1, <1>2, <2>1, MoveKept
  <2>3. /\ output[i].settled = chunks[i].emails \ output[i].again
        /\ ~chunks[i].filtered /\ Kids(i) = {}
    BY <1>1, <1>3, <2>1 DEF Tended, ProbeTended
  <2>4. ProbeTended(i)'
    BY <1>2, <2>2, <2>3 DEF ProbeTended
  <2>5. Tended(i)'
    BY <2>1, <2>2, <2>4 DEF Tended, ScreeningTended
  <2>6. QED
    BY <1>1, <1>2, <1>3, <2>1, <2>5, MoveOwner
<1>7. QED
  BY <1>4, <1>5, <1>6

LEMMA OwnerFilterRisky ==
  ASSUME PipelineInv, OwnerInv, NEW i \in ChunkId, FilterRisky(i)
  PROVE  OwnerInv'
<1> DEFINE row == [chunks[i] EXCEPT !.filtered = TRUE]
<1>1. /\ Shape /\ InStep(i) /\ Tended(i)
      /\ chunks[i] \in Chunk /\ output[i] \in Output /\ "saved" \in RequestStep
  BY Entries DEF PipelineInv, OwnerInv, RequestStep
<1>2. Moves(i, row, output[i], "saved")
  BY <1>1, FilterRiskyMoves
<1>3. /\ row \in Chunk /\ row.status = chunks[i].status /\ row.filtered
      /\ SameBirth(row, chunks[i])
  BY <1>1 DEF Chunk, SameBirth
<1>4. /\ request[i] = "retry_created"
      /\ chunks[i].status = "completed" /\ chunks[i].stage = "smtp_probe"
  BY <1>1 DEF FilterRisky, InStep
<1> HIDE DEF row
<1>5. /\ Kids(i)' = Kids(i) /\ Handed(i)' = Handed(i)
      /\ chunks'[i] = row /\ output'[i] = output[i] /\ request'[i] = "saved"
      /\ row.stage = chunks[i].stage /\ row.emails = chunks[i].emails
  BY <1>1, <1>2, <1>3, MoveKept
<1>6. /\ Kids(i) # {} /\ Handed(i) = output[i].again
      /\ output[i].settled = chunks[i].emails \ output[i].again
  BY <1>1, <1>4 DEF Tended, ProbeTended
<1>7. ProbeTended(i)'
  BY <1>3, <1>4, <1>5, <1>6 DEF ProbeTended
<1>8. Tended(i)'
  BY <1>4, <1>5, <1>7 DEF Tended, ScreeningTended
<1>9. QED
  BY <1>1, <1>2, <1>3, <1>4, <1>8, MoveOwner

\* A step that moves only the request, to a place where nothing is left to do.
LEMMA OwnerRequest ==
  ASSUME PipelineInv, OwnerInv, NEW i \in ChunkId,
         NEW step \in {"none", "saved"},
         request' = [request EXCEPT ![i] = step],
         UNCHANGED <<chunks, output, job, prepare, parser, finalizer>>,
         request[i] \in {"probe_saved", "saved"}
  PROVE  OwnerInv'
<1>1. /\ Shape /\ InStep(i) /\ Tended(i)
      /\ chunks[i] \in Chunk /\ output[i] \in Output /\ step \in RequestStep
      /\ SameBirth(chunks[i], chunks[i])
  BY Entries DEF PipelineInv, OwnerInv, RequestStep, SameBirth
<1>2. Moves(i, chunks[i], output[i], step)
  BY <1>1, RequestOnly
<1>3. chunks[i].status = "completed"
  BY <1>1 DEF InStep
<1>4. /\ Kids(i)' = Kids(i) /\ Handed(i)' = Handed(i)
      /\ chunks'[i] = chunks[i] /\ output'[i] = output[i] /\ request'[i] = step
  BY <1>1, <1>2, MoveKept
<1>5. ScreeningTended(i)'
  BY <1>1, <1>4 DEF Tended, ScreeningTended
<1>6. ProbeTended(i)'
  BY <1>1, <1>4 DEF Tended, ProbeTended
<1>7. Tended(i)'
  BY <1>4, <1>5, <1>6 DEF Tended
<1>8. QED
  BY <1>1, <1>2, <1>3, <1>7, MoveOwner

LEMMA OwnerEnds ==
  ASSUME Steady, PipelineInv, OwnerInv, NEW i \in ChunkId,
         DispatchFinalize(i) \/ CompleteDies(i)
  PROVE  OwnerInv'
<1>1. /\ request' = [request EXCEPT ![i] = "none"]
      /\ UNCHANGED <<chunks, output, job, prepare, parser, finalizer>>
  BY DEF DispatchFinalize, CompleteDies
<1>2. request[i] \in RequestStep
  BY Entries DEF PipelineInv
<1>3. request[i] \in {"probe_saved", "saved"}
  <2>1. CASE DispatchFinalize(i)
    BY <2>1 DEF DispatchFinalize
  <2>2. CASE CompleteDies(i)
    <3>1. request[i] \in Deaths /\ request[i] # "retry_created"
      BY <2>2 DEF CompleteDies, Steady
    <3>2. request[i] \in {"prepared", "probe_saved", "retry_created", "saved", "finalizing"}
      BY <3>1, VerificationPipelineAssumption
    <3>3. QED
      BY <1>2, <3>1, <3>2 DEF RequestStep
  <2>3. QED
    BY <2>1, <2>2
<1>4. QED
  BY <1>1, <1>3, OwnerRequest

\* A step of a planner that inserts the children of a chunk without any.
LEMMA OwnerPlanned ==
  ASSUME PipelineInv, OwnerInv, NEW p \in ChunkId, Kids(p) = {},
         NEW new \in Seq(Chunk), NEW step \in RequestStep,
         AddChunks(new, [request EXCEPT ![p] = step]), Grows(new, p),
         \A k \in DOMAIN new : new[k].status = "pending" /\ ~new[k].filtered,
         UNCHANGED <<job, parser>>, Tended(p)'
  PROVE  OwnerInv'
<1> DEFINE at == [request EXCEPT ![p] = step]
<1>1. Shape /\ p \in Nat \ {0}
  BY Entries DEF PipelineInv
<1>2. /\ at \in Seq(RequestStep) /\ Len(at) = Len(chunks)
      /\ at[p] = step /\ \A j \in ChunkId : j # p => at[j] = request[j]
  BY <1>1 DEF Shape, ChunkId
<1>3. AddChunks(new, at)
  OBVIOUS
<1> HIDE DEF at
<1>4. \A j \in ChunkId' : Tended(j)'
  BY <1>2, <1>3, AddTended
<1>5. chunks # <<>> /\ chunks' # <<>>
  <2>1. Len(chunks) > 0
    BY <1>1 DEF Shape, ChunkId
  <2>2. Len(chunks') = Len(chunks) + Len(new)
    BY <1>1, <1>2, <1>3, ChunksAdded
  <2>3. QED
    BY <1>1, <2>1, <2>2 DEF Shape
<1>6. Stale' <=> Stale
  BY <1>5 DEF Stale
<1>7. Parsing'
  BY <1>5, <1>6 DEF Parsing, OwnerInv
<1>8. Elsewhere' = Elsewhere
  BY DEF Elsewhere
<1>9. (Disjoint => Disjoint') /\ (Partition => Partition')
  BY <1>2, <1>3, <1>8, PlannerDisjoint, PlannerPartition
<1>10. Whole'
  BY <1>6, <1>9 DEF Whole, OwnerInv
<1>11. QED
  BY <1>4, <1>7, <1>10 DEF OwnerInv

LEMMA OwnerCreateProbeChunks ==
  ASSUME PipelineInv, OwnerInv, NEW i \in ChunkId, CreateProbeChunks(i)
  PROVE  OwnerInv'
<1>1. /\ Shape /\ InStep(i) /\ Tended(i)
      /\ chunks[i] \in Chunk /\ output[i] \in Output /\ "handoff" \in RequestStep
  BY Entries DEF PipelineInv, OwnerInv, RequestStep
<1>2. /\ request[i] = "complete" /\ chunks[i].stage = "screening"
      /\ output[i].again # {} /\ chunks[i].status = "processing"
      /\ TRUE \in ProbeSettings
      /\ UNCHANGED <<job, prepare, parser, queued, finalizer>>
  BY <1>1 DEF CreateProbeChunks, InStep
<1>3. /\ output[i].settled = chunks[i].emails \ output[i].again
      /\ output[i].again = chunks[i].emails \ HardInvalid
      /\ ~chunks[i].filtered
  BY <1>1, <1>2 DEF Tended, ScreeningTended
<1>4. (\E k \in ChunkId : chunks[k].parent = i) <=> Kids(i) # {}
  BY DEF Kids
<1>5. CASE Kids(i) # {}
  <2>1. /\ request' = [request EXCEPT ![i] = "handoff"]
        /\ UNCHANGED <<chunks, output>>
    BY <1>4, <1>5 DEF CreateProbeChunks
  <2>2. Moves(i, chunks[i], output[i], "handoff") /\ SameBirth(chunks[i], chunks[i])
    BY <1>1, <1>2, <2>1, RequestOnly DEF SameBirth
  <2>3. /\ Kids(i)' = Kids(i) /\ Handed(i)' = Handed(i)
        /\ chunks'[i] = chunks[i] /\ output'[i] = output[i] /\ request'[i] = "handoff"
    BY <1>1, <2>2, MoveKept
  <2>4. ScreeningTended(i)'
    BY <1>1, <1>3, <1>5, <2>3 DEF Tended, ScreeningTended
  <2>5. Tended(i)'
    BY <1>2, <1>3, <2>3, <2>4 DEF Tended, ProbeTended
  <2>6. QED
    BY <1>1, <1>2, <2>2, <2>5, MoveOwner
<1>6. CASE Kids(i) = {}
  <2> DEFINE new == ProbeChunks(i, output[i].again)
             at == [request EXCEPT ![i] = "handoff"]
             shards == Shards(output[i].again)
  <2>1. AddChunks(new, at)
    BY <1>4, <1>6 DEF CreateProbeChunks
  <2>2. /\ new \in Seq(Chunk) /\ Grows(new, i) /\ DOMAIN new = DOMAIN shards
        /\ \A k \in DOMAIN new : /\ new[k].status = "pending" /\ ~new[k].filtered
                                 /\ new[k].emails = shards[k]
    BY <1>2, <1>6, ProbesGrow
  <2>3. /\ \A k \in DOMAIN shards : shards[k] \subseteq output[i].again
        /\ \A e \in output[i].again : \E k \in DOMAIN shards : e \in shards[k]
    BY <1>1, ShardsPartition DEF Output
  <2>4. /\ at \in Seq(RequestStep) /\ Len(at) = Len(chunks) /\ at[i] = "handoff"
    BY <1>1 DEF Shape, ChunkId
  <2> HIDE DEF new, at, shards
  <2>5. UNION {new[k].emails : k \in DOMAIN new} = output[i].again
    BY <2>2, <2>3
  <2>6. i # 0 /\ i \in ChunkId \cup {0}
    BY <1>1, Entries
  <2>7. Kids(i)' # {} /\ Handed(i)' = output[i].again
    BY <1>6, <2>1, <2>2, <2>4, <2>5, <2>6, AddedRests
  <2>8. chunks'[i] = chunks[i] /\ output'[i] = output[i] /\ request'[i] = "handoff"
    BY <1>1, <2>1, <2>2, <2>4, ChunksAdded
  <2>9. ScreeningTended(i)'
    BY <1>2, <1>3, <2>7, <2>8 DEF ScreeningTended
  <2>10. Tended(i)'
    BY <1>2, <1>3, <2>8, <2>9 DEF Tended, ProbeTended
  <2>11. AddChunks(new, [request EXCEPT ![i] = "handoff"])
    BY <2>1 DEF at
  <2>12. QED
    BY <1>1, <1>2, <1>6, <2>2, <2>10, <2>11, OwnerPlanned
<1>7. QED
  BY <1>5, <1>6

LEMMA OwnerPlanRetry ==
  ASSUME PipelineInv, OwnerInv, NEW i \in ChunkId, PlanRetry(i)
  PROVE  OwnerInv'
<1>1. /\ Shape /\ InStep(i) /\ Tended(i)
      /\ chunks[i] \in Chunk /\ output[i] \in Output /\ "retry_created" \in RequestStep
  BY Entries DEF PipelineInv, OwnerInv, RequestStep
<1>2. /\ request[i] = "probe_saved" /\ chunks[i].stage = "smtp_probe"
      /\ chunks[i].status = "completed" /\ Kids(i) = {}
      /\ UNCHANGED <<job, prepare, parser, queued, finalizer>>
  BY <1>1 DEF PlanRetry, InStep
<1>3. CASE request' = [request EXCEPT ![i] = "saved"] /\ UNCHANGED <<chunks, output>>
  BY <1>2, <1>3, OwnerRequest
<1>4. ASSUME Retryable(i),
             AddChunks(<<NewChunk(NextChunkNo, "smtp_probe", i,
                                  chunks[i].retry + 1, output[i].again)>>,
                       [request EXCEPT ![i] = "retry_created"])
      PROVE  OwnerInv'
  <2> DEFINE row == NewChunk(NextChunkNo, "smtp_probe", i,
                             chunks[i].retry + 1, output[i].again)
             at == [request EXCEPT ![i] = "retry_created"]
             new == <<row>>
  <2>1. AddChunks(new, at)
    BY <1>4
  <2>2. /\ row \in Chunk /\ row.status = "pending" /\ ~row.filtered
        /\ row.emails = output[i].again /\ Grows(new, i)
    BY <1>2, <1>4, RetryGrows
  <2>3. /\ at \in Seq(RequestStep) /\ Len(at) = Len(chunks) /\ at[i] = "retry_created"
    BY <1>1 DEF Shape, ChunkId
  <2> HIDE DEF row
  <2>4. /\ new \in Seq(Chunk) /\ DOMAIN new = {1} /\ new[1] = row
    BY <2>2, OneRow
  <2> HIDE DEF new, at
  <2>5. /\ \A k \in DOMAIN new : new[k].status = "pending" /\ ~new[k].filtered
        /\ UNION {new[k].emails : k \in DOMAIN new} = output[i].again
    BY <2>2, <2>4
  <2>6. i # 0 /\ i \in ChunkId \cup {0}
    BY <1>1, Entries
  <2>7. /\ Kids(i)' # {} /\ Kids(i)' = ChunkId' \ ChunkId
        /\ Handed(i)' = output[i].again
    BY <1>2, <2>1, <2>2, <2>3, <2>4, <2>5, <2>6, AddedRests
  <2>8. /\ chunks'[i] = chunks[i] /\ output'[i] = output[i]
        /\ request'[i] = "retry_created"
        /\ \A j \in ChunkId' \ ChunkId :
             j - Len(chunks) \in DOMAIN new /\ chunks'[j] = new[j - Len(chunks)]
    BY <1>1, <2>1, <2>3, <2>4, ChunksAdded
  <2>9. \E k \in Kids(i)' : chunks'[k].status = "pending"
    BY <2>5, <2>7, <2>8
  <2>10. output[i].settled = chunks[i].emails \ output[i].again
    BY <1>1, <1>2 DEF Tended, ProbeTended
  <2>11. ProbeTended(i)'
    BY <1>2, <2>7, <2>8, <2>10 DEF ProbeTended
  <2>12. Tended(i)'
    BY <1>2, <2>8, <2>9, <2>11 DEF Tended, ScreeningTended
  <2>13. AddChunks(new, [request EXCEPT ![i] = "retry_created"])
    BY <2>1 DEF at
  <2>14. QED
    BY <1>1, <1>2, <2>2, <2>4, <2>5, <2>12, <2>13, OwnerPlanned
<1>5. QED
  BY <1>3, <1>4 DEF PlanRetry

-----------------------------------------------------------------------------
(* The steps of the queue jobs.                                              *)

LEMMA SameOwners ==
  ASSUME UNCHANGED <<chunks, output, request>>
  PROVE  /\ ChunkId' = ChunkId
         /\ \A i \in ChunkId : Rest(i)' = Rest(i)
         /\ \A i \in ChunkId : Tended(i) => Tended(i)'
<1>1. /\ ChunkId' = ChunkId
      /\ \A i \in ChunkId : Kids(i)' = Kids(i) /\ Handed(i)' = Handed(i)
  BY DEF ChunkId, Kids, Handed
<1>2. \A i \in ChunkId : Rest(i)' = Rest(i)
  BY <1>1 DEF Rest
<1>3. ASSUME NEW i \in ChunkId, Tended(i) PROVE Tended(i)'
  BY <1>1, <1>3 DEF Tended, ScreeningTended, ProbeTended
<1>4. QED
  BY <1>1, <1>2, <1>3

\* A parse that begins owns every email; if there are chunks, it has started over.
LEMMA OwnerNewParse ==
  ASSUME PipelineInv, OwnerInv, UNCHANGED <<chunks, output, request>>,
         NEW tries \in Nat, NEW cacheOnly \in BOOLEAN,
         parser' = NewParse(tries, cacheOnly), job'.cached = job.cached,
         parser.pc # "done", chunks # <<>> => cacheOnly = parser.cacheOnly,
         job'.status \in {"pending", "processing"} =>
           job.status \in {"pending", "processing"}
  PROVE  OwnerInv'
<1>1. /\ ChunkId' = ChunkId
      /\ \A i \in ChunkId : Rest(i)' = Rest(i)
      /\ \A i \in ChunkId : Tended(i)'
  BY SameOwners DEF OwnerInv
<1>2. /\ parser'.pc = "queued" /\ parser'.todo = Email /\ parser'.open = {}
      /\ parser'.hits = {} /\ parser'.no = 1 /\ parser'.cacheOnly = cacheOnly
  BY DEF NewParse
<1>3. Parsing'
  BY <1>2 DEF Parsing, OwnerInv
<1>4. Elsewhere' = Email
  BY <1>2 DEF Elsewhere
<1>5. ~Stale' => Partition'
  <2>1. SUFFICES ASSUME ~Stale' PROVE Partition'
    OBVIOUS
  <2>2. chunks' = <<>>
    BY <1>2, <2>1 DEF Stale
  <2>3. ChunkId' = {}
    BY <2>2 DEF ChunkId
  <2>4. QED
    BY <1>4, <2>3 DEF Disjoint, Partition
<1>6. Disjoint' <=> Disjoint
  BY <1>1 DEF Disjoint
<1>7. Whole'
  BY <1>2, <1>5, <1>6 DEF Whole, OwnerInv
<1>8. QED
  BY <1>1, <1>3, <1>7 DEF OwnerInv

\* Nothing but the status of the job, which does not come back to processing.
LEMMA OwnerJobStatus ==
  ASSUME PipelineInv, OwnerInv, UNCHANGED <<chunks, output, request, parser>>,
         job'.cached = job.cached,
         job'.status \in {"pending", "processing"} =>
           job.status \in {"pending", "processing"}
  PROVE  OwnerInv'
<1>1. /\ ChunkId' = ChunkId
      /\ \A i \in ChunkId : Rest(i)' = Rest(i)
      /\ \A i \in ChunkId : Tended(i)'
  BY SameOwners DEF OwnerInv
<1>2. (Stale' <=> Stale) /\ Elsewhere' = Elsewhere
  BY DEF Stale, Elsewhere
<1>3. Parsing'
  BY <1>2 DEF Parsing, OwnerInv
<1>4. (Disjoint' <=> Disjoint) /\ (Partition' <=> Partition)
  BY <1>1, <1>2 DEF Disjoint, Partition
<1>5. Whole'
  BY <1>2, <1>4 DEF Whole, OwnerInv
<1>6. QED
  BY <1>1, <1>3, <1>5 DEF OwnerInv

LEMMA OwnerPrepare ==
  ASSUME PipelineInv, OwnerInv, Prepare \/ PrepareDies
  PROVE  OwnerInv'
<1>1. Shape /\ ParseInv /\ UNCHANGED <<chunks, output, request>>
  BY DEF PipelineInv, Prepare, PrepareDies
<1>2. CASE job.status = "pending" /\ Prepare
  <2>1. parser.pc = "none" /\ chunks = <<>>
    BY <1>1, <1>2 DEF ParseInv
  <2>2. job'.cached = job.cached
    BY <1>1, <1>2 DEF Prepare, Shape
  <2>3. PICK cacheOnly \in BOOLEAN : parser' = NewParse(1, cacheOnly)
    BY <1>2, VerificationPipelineAssumption DEF Prepare
  <2>4. QED
    BY <1>1, <1>2, <2>1, <2>2, <2>3, OwnerNewParse
<1>3. CASE job.status = "pending" /\ PrepareDies
  <2>1. job'.cached = job.cached /\ parser' = parser
    BY <1>1, <1>3 DEF PrepareDies, Shape
  <2>2. QED
    BY <1>1, <1>3, <2>1, OwnerJobStatus
<1>4. CASE job.status # "pending"
  <2>1. UNCHANGED <<job, parser>>
    BY <1>4 DEF Prepare, PrepareDies
  <2>2. QED
    BY <1>1, <2>1, OwnerJobStatus
<1>5. QED
  BY <1>2, <1>3, <1>4

LEMMA OwnerFinalize ==
  ASSUME PipelineInv, OwnerInv,
         \/ Finalize \/ FinalizeDies \/ FinalizeReleased
         \/ AdminFailsJob \/ AdminFinalizes
  PROVE  OwnerInv'
<1>1. UNCHANGED <<chunks, output, request, parser>>
  BY DEF Finalize, FinalizeStarts, FinalizeSaves, FinalizeFails, FinalizeDies,
         FinalizeReleased, AdminFailsJob, AdminFinalizes
<1>2. /\ job'.cached = job.cached
      /\ job' = job \/ job'.status \in {"completed", "failed"}
  BY DEF Finalize, FinalizeStarts, FinalizeSaves, FinalizeFails, FinalizeDies,
         FinalizeReleased, AdminFailsJob, AdminFinalizes, PipelineInv, Shape
<1>3. QED
  BY <1>1, <1>2, OwnerJobStatus

LEMMA OwnerParseStarts ==
  ASSUME PipelineInv, OwnerInv, ParseStarts
  PROVE  OwnerInv'
<1>1. Shape /\ ParseInv /\ UNCHANGED <<job, chunks, output, request>>
  BY DEF PipelineInv, ParseStarts
<1>2. /\ ChunkId' = ChunkId
      /\ \A i \in ChunkId : Rest(i)' = Rest(i)
      /\ \A i \in ChunkId : Tended(i)'
  BY <1>1, SameOwners DEF OwnerInv
<1>3. /\ parser.pc = "queued"
      /\ parser'.pc = IF job.status = "processing" THEN "running" ELSE "done"
      /\ parser'.todo = parser.todo /\ parser'.open = parser.open
      /\ parser'.hits = parser.hits /\ parser'.no = parser.no
      /\ parser'.cacheOnly = parser.cacheOnly
  BY <1>1 DEF Shape, ParseStarts
<1>4. Stale' <=> Stale
  BY <1>1, <1>3 DEF Stale
<1>5. Parsing'
  BY <1>1, <1>3, <1>4 DEF Parsing, OwnerInv
<1>6. CASE job.status = "processing"
  <2>1. Elsewhere' = Elsewhere
    BY <1>3, <1>6 DEF Elsewhere
  <2>2. (Disjoint' <=> Disjoint) /\ (Partition' <=> Partition)
    BY <1>2, <2>1 DEF Disjoint, Partition
  <2>3. Whole'
    BY <1>1, <1>3, <1>4, <1>6, <2>2 DEF Whole, OwnerInv
  <2>4. QED
    BY <1>2, <1>5, <2>3 DEF OwnerInv
<1>7. CASE job.status # "processing"
  <2>1. job'.status \notin {"pending", "processing"}
    BY <1>1, <1>3, <1>7 DEF ParseInv
  <2>2. QED
    BY <1>2, <1>5, <2>1 DEF OwnerInv, Whole
<1>8. QED
  BY <1>6, <1>7

\* A parse that ends is the first one, or no chunk was ever written.
LEMMA OwnerParseEnds ==
  ASSUME PipelineInv, OwnerInv, ParseEnds
  PROVE  OwnerInv'
<1>1. Shape /\ UNCHANGED <<chunks, output, request>>
  BY DEF PipelineInv, ParseEnds
<1>2. /\ ChunkId' = ChunkId
      /\ \A i \in ChunkId : Rest(i)' = Rest(i)
      /\ \A i \in ChunkId : Tended(i)'
  BY <1>1, SameOwners DEF OwnerInv
<1>3. /\ parser.pc = "running" /\ parser.todo = {} /\ parser.open = {}
      /\ parser'.pc = "done"
      /\ job'.cached = parser.hits /\ job'.status = job.status
  BY <1>1 DEF Shape, ParseEnds
<1>4. ~Stale
  <2>1. SUFFICES ASSUME Stale PROVE FALSE
    OBVIOUS
  <2>2. parser.hits = Email /\ ~parser.cacheOnly /\ Email \ Cached # {}
    BY <1>3, <2>1 DEF Parsing, OwnerInv, Stale
  <2>3. parser.hits \subseteq Cached
    BY <1>3, <2>2 DEF Parsing, OwnerInv
  <2>4. QED
    BY <2>2, <2>3
<1>5. Elsewhere' = Elsewhere
  BY <1>3 DEF Elsewhere
<1>6. (Disjoint' <=> Disjoint) /\ (Partition' <=> Partition)
  BY <1>2, <1>5 DEF Disjoint, Partition
<1>7. Whole'
  BY <1>3, <1>4, <1>6 DEF Whole, OwnerInv
<1>8. Parsing'
  BY <1>3 DEF Parsing
<1>9. QED
  BY <1>2, <1>7, <1>8 DEF OwnerInv

LEMMA OwnerParseFails ==
  ASSUME PipelineInv, OwnerInv, ParseFails \/ ParseDies
  PROVE  OwnerInv'
<1>1. Shape /\ UNCHANGED <<chunks, output, request>>
  BY DEF PipelineInv, ParseFails, ParseDies
<1>2. CASE ParseFails
  <2>1. \A i \in ChunkId : Tended(i)'
    BY <1>1, SameOwners DEF OwnerInv
  <2>2. job'.status = "failed" /\ parser'.pc = "done" /\ ChunkId' = ChunkId
    BY <1>1, <1>2, SameOwners DEF ParseFails, Shape
  <2>3. QED
    BY <2>1, <2>2 DEF OwnerInv, Parsing, Whole
<1>3. CASE ParseDies /\ parser' = NewParse(parser.tries + 1, parser.cacheOnly)
  <2>1. /\ parser.tries + 1 \in Nat /\ parser.cacheOnly \in BOOLEAN
        /\ job' = job /\ parser.pc # "done"
    BY <1>1, <1>3 DEF ParseDies, Shape
  <2>2. QED
    BY <1>1, <1>3, <2>1, OwnerNewParse
<1>4. CASE ParseDies /\ parser' = [parser EXCEPT !.pc = "lost"]
  <2>1. /\ job' = job /\ parser.pc = "running" /\ parser'.pc = "lost"
        /\ parser'.todo = parser.todo /\ parser'.open = parser.open
        /\ parser'.hits = parser.hits /\ parser'.no = parser.no
        /\ parser'.cacheOnly = parser.cacheOnly
    BY <1>1, <1>4 DEF ParseDies, Shape
  <2>2. /\ ChunkId' = ChunkId
        /\ \A i \in ChunkId : Rest(i)' = Rest(i)
        /\ \A i \in ChunkId : Tended(i)'
    BY <1>1, SameOwners DEF OwnerInv
  <2>3. (Stale' <=> Stale) /\ Elsewhere' = Elsewhere
    BY <1>1, <2>1 DEF Stale, Elsewhere
  <2>4. (Disjoint' <=> Disjoint) /\ (Partition' <=> Partition)
    BY <2>2, <2>3 DEF Disjoint, Partition
  <2>5. Parsing'
    BY <1>1, <2>1, <2>3 DEF Parsing, OwnerInv
  <2>6. Whole'
    BY <2>1, <2>3, <2>4 DEF Whole, OwnerInv
  <2>7. QED
    BY <2>2, <2>5, <2>6 DEF OwnerInv
<1>5. QED
  BY <1>2, <1>3, <1>4 DEF ParseDies

LEMMA OwnerWriteChunk ==
  ASSUME PipelineInv, OwnerInv, parser.pc = "running",
         NEW emails \in SUBSET Email, emails # {},
         parser.open \subseteq emails, emails \subseteq parser.todo \cup parser.open,
         emails \cap Cached = {}, ~parser.cacheOnly,
         NEW parsed \in Parsers, parsed.pc = "running", parsed.no = parser.no,
         parsed.todo = parser.todo \ emails, parsed.hits = parser.hits,
         parsed.cacheOnly = parser.cacheOnly,
         WriteChunk(emails, parsed), UNCHANGED <<prepare, queued, finalizer>>
  PROVE  OwnerInv'
<1>1. Shape /\ ParseInv /\ parser \in Parsers
  BY DEF PipelineInv, Shape, Parsers
<1>2. CASE \E i \in ChunkId : chunks[i].no = parser.no
  <2>1. /\ job' = [job EXCEPT !.status = "failed"]
        /\ parser' = [parser EXCEPT !.pc = "done"]
        /\ UNCHANGED <<chunks, output, request>>
    BY <1>2 DEF WriteChunk
  <2>2. job'.status = "failed" /\ parser'.pc = "done"
    BY <1>1, <2>1 DEF Shape, Parsers
  <2>3. ChunkId' = ChunkId /\ \A i \in ChunkId : Tended(i)'
    BY <2>1, SameOwners DEF OwnerInv
  <2>4. QED
    BY <2>2, <2>3 DEF OwnerInv, Parsing, Whole
<1>3. CASE ~\E i \in ChunkId : chunks[i].no = parser.no
  <2> DEFINE row == NewChunk(parser.no, "screening", 0, 0, emails)
  <2>1. /\ AddChunks(<<row>>, request)
        /\ parser' = [parsed EXCEPT !.open = {}, !.no = @ + 1]
        /\ job' = job
    BY <1>3 DEF WriteChunk
  <2>2. /\ ~Stale
        /\ row \in Chunk /\ row.status = "pending" /\ ~row.filtered
        /\ row.emails = emails /\ Grows(<<row>>, 0)
    BY <1>3, ScreeningGrows
  <2> HIDE DEF row
  <2>3. /\ <<row>> \in Seq(Chunk) /\ DOMAIN <<row>> = {1} /\ <<row>>[1] = row
    BY <2>2, OneRow
  <2>4. /\ parser'.pc = "running" /\ parser'.no = parser.no + 1
        /\ parser'.open = {} /\ parser'.todo = parser.todo \ emails
        /\ parser'.hits = parser.hits /\ parser'.cacheOnly = parser.cacheOnly
    BY <2>1 DEF Parsers
  <2>5. parser.no \in Nat \ {0} /\ parser.no + 1 # 1
    BY <1>1 DEF ParseInv, Parsers
  <2>6. ~Stale'
    BY <2>4, <2>5 DEF Stale
  <2>7. request \in Seq(RequestStep) /\ Len(request) = Len(chunks)
    BY <1>1 DEF Shape
  <2>8. \A j \in ChunkId' : Tended(j)'
    <3> DEFINE new == <<row>>
    <3>1. /\ new \in Seq(Chunk) /\ AddChunks(new, request) /\ Grows(new, 0)
          /\ \A k \in DOMAIN new : new[k].status = "pending" /\ ~new[k].filtered
      BY <2>1, <2>2, <2>3
    <3>2. 0 \in ChunkId \cup {0}
      OBVIOUS
    <3> HIDE DEF new
    <3>3. QED
      BY <2>7, <3>1, <3>2, AddTended
  <2>9. /\ job.cached = {}
        /\ parser.open \cap parser.hits = {}
        /\ parser.todo \cap (parser.open \cup parser.hits) = {}
        /\ parser.hits \subseteq Cached
    BY DEF OwnerInv, Parsing
  <2>10. Parsing'
    <3>1. job'.cached = {} /\ Email \ Cached # {} /\ ~parser'.cacheOnly
      BY <2>1, <2>4, <2>9
    <3>2. QED
      BY <2>4, <2>6, <2>9, <3>1 DEF Parsing
  <2>11. Elsewhere' = Elsewhere \ row.emails /\ row.emails \subseteq Elsewhere
    BY <2>2, <2>4, <2>9 DEF Elsewhere
  <2>12. Partition => Partition'
    BY <2>1, <2>2, <2>7, <2>11, ParserPartition
  <2>13. Whole'
    BY <2>1, <2>2, <2>12 DEF Whole, OwnerInv, Partition
  <2>14. QED
    BY <2>8, <2>10, <2>13 DEF OwnerInv
<1>4. QED
  BY <1>2, <1>3

LEMMA OwnerParseEmail ==
  ASSUME PipelineInv, OwnerInv, NEW e \in Email, ParseEmail(e)
  PROVE  OwnerInv'
<1> DEFINE parsed == [parser EXCEPT !.todo = @ \ {e}]
           open == parser.open \cup {e}
<1>1. Shape /\ ParseInv /\ Parsing
  BY DEF PipelineInv, OwnerInv
<1>2. /\ parser \in Parsers /\ parser.pc = "running" /\ e \in parser.todo
      /\ parser.todo \cap parser.open = {}
      /\ UNCHANGED <<prepare, queued, finalizer>>
  BY <1>1 DEF Shape, Parsers, ParseInv, ParseEmail
<1>3. /\ parsed \in Parsers /\ parsed.pc = "running" /\ parsed.no = parser.no
      /\ parsed.todo = parser.todo \ {e} /\ open \in SUBSET Email
      /\ parsed.open = parser.open /\ parsed.hits = parser.hits
      /\ parsed.cacheOnly = parser.cacheOnly
  BY <1>2 DEF Parsers
<1>4. \/ /\ e \in Cached \/ parser.cacheOnly
         /\ parser' = [parsed EXCEPT !.hits = @ \cup {e}]
         /\ UNCHANGED <<job, chunks, output, request>>
      \/ /\ ~(e \in Cached \/ parser.cacheOnly)
         /\ WriteChunk(open, parsed)
      \/ /\ ~(e \in Cached \/ parser.cacheOnly)
         /\ parser' = [parsed EXCEPT !.open = open]
         /\ UNCHANGED <<job, chunks, output, request>>
  BY DEF ParseEmail
<1> HIDE DEF parsed, open
<1>5. CASE ~(e \in Cached \/ parser.cacheOnly) /\ WriteChunk(open, parsed)
  <2>1. /\ open # {} /\ open \subseteq parser.todo \cup parser.open
        /\ parser.open \subseteq open /\ parsed.todo = parser.todo \ open
    BY <1>2, <1>3 DEF open
  <2>2. open \cap Cached = {}
    BY <1>1, <1>2, <1>5 DEF Parsing, open
  <2>3. QED
    BY <1>2, <1>3, <1>5, <2>1, <2>2, OwnerWriteChunk
<1>6. ASSUME UNCHANGED <<job, chunks, output, request>>,
             \/ /\ e \in Cached \/ parser.cacheOnly
                /\ parser' = [parsed EXCEPT !.hits = @ \cup {e}]
             \/ /\ ~(e \in Cached \/ parser.cacheOnly)
                /\ parser' = [parsed EXCEPT !.open = open]
      PROVE  OwnerInv'
  <2>1. /\ ChunkId' = ChunkId
        /\ \A i \in ChunkId : Rest(i)' = Rest(i)
        /\ \A i \in ChunkId : Tended(i)'
    BY <1>6, SameOwners DEF OwnerInv
  <2>2. /\ parser'.pc = "running" /\ parser'.no = parser.no
        /\ parser'.todo = parser.todo \ {e}
        /\ parser'.cacheOnly = parser.cacheOnly
        /\ \/ /\ e \in Cached \/ parser.cacheOnly
              /\ parser'.hits = parser.hits \cup {e} /\ parser'.open = parser.open
           \/ /\ ~(e \in Cached \/ parser.cacheOnly)
              /\ parser'.open = parser.open \cup {e} /\ parser'.hits = parser.hits
    <3>1. CASE parser' = [parsed EXCEPT !.hits = @ \cup {e}]
               /\ (e \in Cached \/ parser.cacheOnly)
      BY <1>2, <1>3, <3>1 DEF Parsers
    <3>2. CASE parser' = [parsed EXCEPT !.open = open]
               /\ ~(e \in Cached \/ parser.cacheOnly)
      BY <1>2, <1>3, <3>2 DEF Parsers, open
    <3>3. QED
      BY <1>6, <3>1, <3>2
  <2>3. Stale' <=> Stale
    BY <1>6, <2>2 DEF Stale
  <2>4. parser'.todo \cup parser'.open \cup parser'.hits =
          parser.todo \cup parser.open \cup parser.hits
    BY <1>2, <2>2
  <2>5. /\ parser'.open \cap parser'.hits = {}
        /\ parser'.todo \cap (parser'.open \cup parser'.hits) = {}
    BY <1>1, <1>2, <2>2 DEF Parsing
  <2>6. /\ parser'.hits \subseteq Cached \/ parser'.cacheOnly
        /\ parser'.open # {} => ~parser'.cacheOnly
        /\ parser'.open \cap Cached = {}
    BY <1>1, <1>2, <2>2 DEF Parsing
  <2>7. Parsing'
    BY <1>1, <1>2, <1>6, <2>2, <2>3, <2>4, <2>5, <2>6 DEF Parsing
  <2>8. Elsewhere' = Elsewhere
    BY <1>2, <2>2, <2>4 DEF Elsewhere
  <2>9. (Disjoint' <=> Disjoint) /\ (Partition' <=> Partition)
    BY <2>1, <2>8 DEF Disjoint, Partition
  <2>10. Whole'
    BY <1>2, <1>6, <2>2, <2>3, <2>9 DEF Whole, OwnerInv
  <2>11. QED
    BY <2>1, <2>7, <2>10 DEF OwnerInv
<1>7. QED
  BY <1>4, <1>5, <1>6

LEMMA OwnerParseLastChunk ==
  ASSUME PipelineInv, OwnerInv, ParseLastChunk
  PROVE  OwnerInv'
<1>1. /\ parser \in Parsers /\ parser.pc = "running" /\ parser.todo = {}
      /\ parser.open # {} /\ parser.open \in SUBSET Email
  BY DEF PipelineInv, Shape, Parsers, ParseLastChunk
<1>2. WriteChunk(parser.open, parser) /\ UNCHANGED <<prepare, queued, finalizer>>
  BY DEF ParseLastChunk
<1>3. ~parser.cacheOnly /\ parser.open \cap Cached = {}
  BY <1>1 DEF OwnerInv, Parsing
<1>4. parser.todo = parser.todo \ parser.open
  BY <1>1
<1>5. QED
  BY <1>1, <1>2, <1>3, <1>4, OwnerWriteChunk

-----------------------------------------------------------------------------
(* The theorem.                                                              *)

LEMMA InitOwnerInv == Init => OwnerInv
<1> SUFFICES ASSUME Init PROVE OwnerInv
  OBVIOUS
<1>1. ChunkId = {} /\ chunks = <<>> /\ job.cached = {}
  BY DEF Init, ChunkId
<1>2. /\ parser.pc = "none" /\ parser.todo = Email
      /\ parser.open = {} /\ parser.hits = {} /\ ~Stale
  BY <1>1 DEF Init, NewParse, Stale
<1>3. Elsewhere = Email
  BY <1>2 DEF Elsewhere
<1>4. Partition
  BY <1>1, <1>3 DEF Disjoint, Partition
<1>5. Parsing
  BY <1>1, <1>2 DEF Parsing
<1>6. QED
  BY <1>1, <1>4, <1>5 DEF OwnerInv, Whole, Partition

LEMMA NextOwnerInv ==
  ASSUME Steady, PipelineInv, OwnerInv, [Next]_vars
  PROVE  OwnerInv'
<1>1. CASE UNCHANGED vars
  <2>1. UNCHANGED <<chunks, output, request, parser, job>>
    BY <1>1 DEF vars
  <2>2. QED
    BY <2>1, OwnerJobStatus
<1>2. CASE Prepare \/ PrepareDies
  BY <1>2, OwnerPrepare
<1>3. CASE ParseStarts \/ ParseEnds \/ ParseFails \/ ParseDies
  BY <1>3, OwnerParseStarts, OwnerParseEnds, OwnerParseFails
<1>4. CASE \E e \in Email : ParseEmail(e)
  BY <1>4, OwnerParseEmail
<1>5. CASE ParseLastChunk
  BY <1>5, OwnerParseLastChunk
<1>6. CASE \/ Finalize \/ FinalizeDies \/ FinalizeReleased
           \/ AdminFailsJob \/ AdminFinalizes
  BY <1>6, OwnerFinalize
<1>7. ASSUME NEW i \in ChunkId,
             Claim(i) \/ Verify(i) \/ Fail(i) \/ Complete(i) \/ CompleteDies(i)
      PROVE  OwnerInv'
  <2>1. CASE Claim(i) \/ Verify(i) \/ Fail(i)
    BY <2>1, OwnerClaim, OwnerVerify, OwnerFail
  <2>2. CASE SaveHandoff(i) \/ SaveScreening(i) \/ SaveProbe(i)
    BY <2>2, OwnerSave
  <2>3. CASE FilterRisky(i)
    BY <2>3, OwnerFilterRisky
  <2>4. CASE DispatchFinalize(i) \/ CompleteDies(i)
    BY <2>4, OwnerEnds
  <2>5. CASE CreateProbeChunks(i)
    BY <2>5, OwnerCreateProbeChunks
  <2>6. CASE PlanRetry(i)
    BY <2>6, OwnerPlanRetry
  <2>7. QED
    BY <1>7, <2>1, <2>2, <2>3, <2>4, <2>5, <2>6 DEF Complete
<1>8. QED
  BY <1>1, <1>2, <1>3, <1>4, <1>5, <1>6, <1>7 DEF Next, Parse, Trouble

\* Who owns an email, as the property counts it: one chunk, or the cache.
LEMMA PartitionIsOneOwner ==
  ASSUME PipelineInv, OwnerInv, parser.pc = "done", Partition, NEW e \in Email
  PROVE  \E i : Owners(e) = {i}
<1>1. \A k \in ChunkId : Keeps(k) = Rest(k)
  BY KeepsIsRest DEF OwnerInv
<1>2. Elsewhere = job.cached
  BY DEF Elsewhere
<1>3. CASE e \in job.cached
  <2>1. \A k \in ChunkId : e \notin Keeps(k)
    BY <1>1, <1>2, <1>3 DEF Partition
  <2>2. Owners(e) = {CacheFile}
    BY <1>3, <2>1 DEF Owners
  <2>3. QED
    BY <2>2
<1>4. CASE e \notin job.cached
  <2>1. PICK i \in ChunkId : e \in Rest(i)
    BY <1>2, <1>4 DEF Partition
  <2>2. \A k \in ChunkId : e \in Keeps(k) <=> k = i
    BY <1>1, <2>1 DEF Disjoint, Partition
  <2>3. Owners(e) = {i}
    BY <1>4, <2>1, <2>2 DEF Owners
  <2>4. QED
    BY <2>3
<1>5. QED
  BY <1>3, <1>4

\* After a lost parse only chunks own emails, each the ones it has left.
LEMMA DisjointIsNoTwoOwners ==
  ASSUME PipelineInv, OwnerInv, parser.pc = "lost", Disjoint, NEW e \in Email
  PROVE  Owners(e) = {} \/ \E i : Owners(e) = {i}
<1>1. \A k \in ChunkId : Keeps(k) = Rest(k)
  BY KeepsIsRest DEF OwnerInv
<1>2. job.cached = {}
  BY DEF OwnerInv, Parsing
<1>3. Owners(e) = {k \in ChunkId : e \in Rest(k)}
  BY <1>1, <1>2 DEF Owners
<1>4. QED
  BY <1>3 DEF Disjoint

LEMMA OwnersAreSteady ==
  ASSUME Steady
  PROVE  Spec => [](PipelineInv /\ OwnerInv)
<1>1. Init => PipelineInv /\ OwnerInv
  BY InitPipelineInv, InitOwnerInv
<1>2. PipelineInv /\ OwnerInv /\ [Next]_vars => (PipelineInv /\ OwnerInv)'
  BY NextPipelineInv, NextOwnerInv
<1>3. QED
  BY <1>1, <1>2, PTL DEF Spec

\* At every moment between parsing and finalization each email is the business of
\* exactly one chunk or of the cache, for any list, shards, settings and order of
\* steps, even when workers finish chunks before the parse is over; after a parse
\* that was lost for good, of at most one.
THEOREM EveryEmailHasOneOwner ==
  ASSUME Steady
  PROVE  Spec => []OneOwner
<1>1. PipelineInv /\ OwnerInv => OneOwner
  <2>1. SUFFICES ASSUME PipelineInv, OwnerInv, job.status = "processing",
                        ParseOver, NEW e \in Email
                 PROVE  \/ Cardinality(Owners(e)) = 1
                        \/ parser.pc = "lost" /\ Owners(e) = {}
    BY DEF OneOwner
  <2>2. CASE parser.pc = "done"
    <3>1. Partition
      BY <2>1, <2>2 DEF OwnerInv, Whole
    <3>2. \E i : Owners(e) = {i}
      BY <2>1, <2>2, <3>1, PartitionIsOneOwner
    <3>3. QED
      BY <3>2, FS_Singleton
  <2>3. CASE parser.pc = "lost"
    <3>1. Disjoint
      BY <2>1 DEF OwnerInv, Whole
    <3>2. Owners(e) = {} \/ \E i : Owners(e) = {i}
      BY <2>1, <2>3, <3>1, DisjointIsNoTwoOwners
    <3>3. QED
      BY <2>3, <3>2, FS_Singleton
  <2>4. QED
    BY <2>1, <2>2, <2>3 DEF ParseOver
<1>2. QED
  BY <1>1, OwnersAreSteady, PTL
=============================================================================
