---------------------------- MODULE MCOutputSink ----------------------------
(***************************************************************************)
(* Instances of OutputSink for TLC.                                        *)
(***************************************************************************)
EXTENDS OutputSink, TLC

CONSTANTS s1, s2, a, b, d, c1, c2

Create(p, c) == [path |-> p, content |-> c, expected |-> AnyHash,
                 overwrite |-> FALSE, needHash |-> FALSE]
Replace(p, c, h) == [path |-> p, content |-> c, expected |-> h,
                     overwrite |-> TRUE, needHash |-> TRUE]

\* Two sinks that want different content at a, where neither may overwrite,
\* and share b, where both may replace c1 by c2; d belongs to the first.
MCIntents ==
    (s1 :> <<Create(d, c1), Create(a, c1), Replace(b, c2, c1)>>)
        @@ (s2 :> <<Replace(b, c2, c1), Create(a, c2)>>)
=============================================================================
