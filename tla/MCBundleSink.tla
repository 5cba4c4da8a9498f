---------------------------- MODULE MCBundleSink ----------------------------
(***************************************************************************)
(* Four committers of one bundle root: two of the same bundle, one of      *)
(* another, and one of a bundle that does not verify.                      *)
(***************************************************************************)
EXTENDS BundleSink, TLC

CONSTANTS m1, m2, m3, m4, x, y, bad

MCWanted == [c \in Committers |-> CASE c = m3 -> y [] c = m4 -> bad [] OTHER -> x]
=============================================================================
