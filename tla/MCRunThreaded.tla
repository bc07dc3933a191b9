---------------------------- MODULE MCRunThreaded ----------------------------
(* Small instances of RunThreaded for TLC.                                 *)
EXTENDS RunThreaded, TLC

CONSTANTS j1, j2, j3

\* j1's worker makes the nested call j2, and j2's worker the nested call j3.
Nested == j1 :> NoJob @@ j2 :> j1 @@ j3 :> j2

\* State constraint: one function of the chain writes ContextVars; no call waits
\* for a write.
OneWriter == \A j \in Jobs \ {j2} : ~wrote[j]
=============================================================================
