----------------------- MODULE MCVerificationPipeline -----------------------
(* VerificationPipeline on small sets. *)
EXTENDS VerificationPipeline, TLC

CONSTANTS a, b, c

Domains == (a :> "a.example") @@ (b :> "b.example") @@ (c :> "c.example")
=============================================================================
