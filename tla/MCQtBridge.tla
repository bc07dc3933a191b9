----------------------------- MODULE MCQtBridge -----------------------------
(* A small instance of QtBridge for TLC.                                   *)
EXTENDS QtBridge

\* State constraint: one call at a time; the calls share only the two threads.
OneCall == \A c, d \in Calls : awaiter[c] # "idle" /\ awaiter[d] # "idle" => c = d
=============================================================================
