-------------------------- MODULE MCExecutionLease --------------------------
(***************************************************************************)
(* The lease store with two or three clients that call its operations in   *)
(* any order.                                                              *)
(***************************************************************************)
EXTENDS ExecutionLease, TLC

\* Workers, nonces and fences are interchangeable: no definition names one.
Symmetry == Permutations(Workers) \cup Permutations(Nonces) \cup Permutations(Fences)
                \cup Permutations(Keys)
=============================================================================
