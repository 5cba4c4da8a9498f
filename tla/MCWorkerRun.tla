---------------------------- MODULE MCWorkerRun -----------------------------
(***************************************************************************)
(* Three revisions, two of which share a configuration; a callback host    *)
(* with three addresses, one of which is prohibited.                         *)
(***************************************************************************)
EXTENDS WorkerRun, TLC

CONSTANTS r1, r2, r3, x, y

MCConfigOf == (r1 :> x) @@ (r2 :> x) @@ (r3 :> y)
MCFlaws == {"transport-signature-invalid"}
=============================================================================
