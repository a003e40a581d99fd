--------------------------- MODULE ChunkLifecycle ---------------------------
(***************************************************************************)
(* What docs/ENGINE_CONTRACT.md promises about a chunk: it waits, is       *)
(* leased, and ends completed or failed; a failed attempt is counted and   *)
(* gives the chunk back at most MaxAttempts - 1 times.                     *)
(***************************************************************************)
EXTENDS Naturals

CONSTANTS Chunk, MaxAttempts

VARIABLES status, attempts

Init ==
  /\ status = [c \in Chunk |-> "pending"]
  /\ attempts = [c \in Chunk |-> 0]

Lease(c) ==
  /\ status[c] = "pending"
  /\ status' = [status EXCEPT ![c] = "processing"]
  /\ UNCHANGED attempts

Complete(c) ==
  /\ status[c] = "processing"
  /\ status' = [status EXCEPT ![c] = "completed"]
  /\ UNCHANGED attempts

Retry(c) ==
  /\ status[c] = "processing"
  /\ attempts[c] + 1 < MaxAttempts
  /\ status' = [status EXCEPT ![c] = "pending"]
  /\ attempts' = [attempts EXCEPT ![c] = @ + 1]

Fail(c) ==
  /\ status[c] = "processing"
  /\ status' = [status EXCEPT ![c] = "failed"]
  /\ attempts' = [attempts EXCEPT ![c] = @ + 1]

Next == \E c \in Chunk : Lease(c) \/ Complete(c) \/ Retry(c) \/ Fail(c)

Spec == Init /\ [][Next]_<<status, attempts>>
=============================================================================
