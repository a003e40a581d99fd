----------------------------- MODULE JobContract -----------------------------
(***************************************************************************)
(* What a customer gets from a verification job                            *)
(* (docs/DEEP_VERIFICATION_ENGINE_PLAN.md, steps 2 to 4): it is processed  *)
(* once and ends either failed or completed, and the result files of a     *)
(* completed job hold one row for every email of the list.                 *)
(*                                                                         *)
(* The plan does not speak of an upload whose reading is lost.  Here that  *)
(* may happen to a job, which then may still end completed: with no row    *)
(* for what was not read, and still with no email twice.                   *)
(***************************************************************************)
EXTENDS Naturals

CONSTANT Email

VARIABLES
  status,
  lost,     \* has the reading of the upload been lost for good?
  rows      \* rows[e]: rows of e in the final result files

Init ==
  /\ status = "pending"
  /\ lost = FALSE
  /\ rows = [e \in Email |-> 0]

Start ==
  /\ status = "pending"
  /\ status' = "processing"
  /\ UNCHANGED <<lost, rows>>

Lose ==
  /\ ~lost
  /\ lost' = TRUE
  /\ UNCHANGED <<status, rows>>

Complete ==
  /\ status = "processing"
  /\ status' = "completed"
  /\ rows' \in [Email -> IF lost THEN {0, 1} ELSE {1}]
  /\ UNCHANGED lost

Fail ==
  /\ status = "processing"
  /\ status' = "failed"
  /\ UNCHANGED <<lost, rows>>

Next == Start \/ Lose \/ Complete \/ Fail

Spec == Init /\ [][Next]_<<status, lost, rows>>
=============================================================================
