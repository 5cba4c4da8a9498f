--------------------------- MODULE MCStageWorker ----------------------------
(***************************************************************************)
(* Instances of StageWorker for TLC.                                       *)
(***************************************************************************)
EXTENDS StageWorker, TLC

CONSTANTS w1, w2, k1, k2, n1, n2, p1, p2

OneOutput == (k1 :> {p1})

\* A second compilation for k1 may yield p2, which is what k2 compiles to.
ChangingOutputs == (k1 :> {p1, p2}) @@ (k2 :> {p2})

\* n1 is sent for both keys, n2 for the first only.
SharedNonce == {<<k1, n1>>, <<k1, n2>>, <<k2, n1>>}
OneDispatch == {<<k1, n1>>}

AllFaults == Codes
NoFaults == {}

PublicationFaults == {"packet-publication-failed"}

Symmetry == Permutations(Workers) \cup Permutations(Fences)
=============================================================================
