---------------------------- MODULE MCKoilFuture ----------------------------
(* Small instances of KoilFuture for TLC.                                  *)
EXTENDS KoilFuture, TLC

CONSTANTS f1, f2, f3, s1

\* Submissions from plain threads.
Unscoped == [f \in Futures |-> NoScope]

\* f1 from a plain thread, the others from the same run_threaded worker.
Siblings == [f \in Futures |-> IF f = f1 THEN NoScope ELSE s1]

\* State constraint: one future is submitted.
OneSubmission == \A f, g \in Futures : Accepted(f) /\ Accepted(g) => f = g

\* f1 and nothing of the worker.  It emits values or somebody waits for it: what
\* a stream emits and where its holder is do not depend on each other.
Alone ==
    /\ ambient[s1] = "clear"
    /\ nexts[f1] # "none" => call[f1] = "held" /\ answer[f1] = "none"
    /\ \A f \in Futures \ {f1} : call[f] = "idle"

\* The worker's submissions, while the koil is not left.  Whoever holds one of
\* them cancels it or not but does not wait for it, an unkoil is interrupted or
\* not, and the coroutines return or are cancelled.
Together ==
    /\ exit = "open"
    /\ call[f1] = "idle"
    /\ \A f \in Futures \ Blocking : call[f] \in {"idle", "refused", "held"}
    /\ \A f \in Futures : work[f] \notin {"err", "timeouterr"}

\* State constraint: one or the other.
AloneOrTogether == Alone \/ Together
=============================================================================
