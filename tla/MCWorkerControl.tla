-------------------------- MODULE MCWorkerControl --------------------------
(* WorkerControl for TLC: an operator may resume or pause. *)
EXTENDS WorkerControl

MCOrders == {"running", "paused"}
=============================================================================
