---------------------------- MODULE MCChunkLease ----------------------------
(* ChunkLease on small sets. *)
EXTENDS ChunkLease, TLC

CONSTANTS c1, c2, w1, w2, w3, v1, v2

MCStage == (c1 :> "screening") @@ (c2 :> "smtp_probe")
ScreeningOnly == (c1 :> "screening")
ProbeOnly == (c1 :> "smtp_probe")
AllCapable == [w \in Worker |-> "all"]

Symmetry == Permutations({v1, v2}) \cup Permutations(Worker)
=============================================================================
