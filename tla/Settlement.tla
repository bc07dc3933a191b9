----------------------------- MODULE Settlement -----------------------------
(***************************************************************************)
(* What both directions of the bridge promise of a call, without the       *)
(* threads, events, waiters and grace periods that keep the promise: a     *)
(* call is opened, its body runs on the other side, and the caller's end   *)
(* is settled once.  A call is never settled over a body that nobody asked *)
(* to stop, and what it is settled with is genuine.                        *)
(*                                                                         *)
(* KoilFuture (a coroutine called from a thread) and RunThreaded (a        *)
(* function called from a coroutine) implement this specification.         *)
(***************************************************************************)

CONSTANTS
    Calls,     \* the calls across the bridge
    Announced  \* calls whose outcome is announced by a signal, which may fail

VARIABLES
    fut,       \* the caller's end
    body,      \* the coroutine or function on the other side
    asked      \* the calls that somebody asked to stop

vars == <<fut, body, asked>>

Ends == {"ok", "err", "cancelled"}
Live == {"running", "stopping"}
Outcomes == {"value", "error", "cancelled", "timeout"}

Init ==
    /\ fut = [c \in Calls |-> "idle"]
    /\ body = [c \in Calls |-> "none"]
    /\ asked = {}

Open(c) ==
    /\ fut[c] = "idle"
    /\ fut' = [fut EXCEPT ![c] = "pending"]
    /\ UNCHANGED <<body, asked>>

\* The body begins; one that was asked to stop may know it from the start.
Begin(c, how) ==
    /\ fut[c] = "pending"
    /\ body[c] = "none"
    /\ how = "stopping" => c \in asked
    /\ body' = [body EXCEPT ![c] = how]
    /\ UNCHANGED <<fut, asked>>

\* The body ends, told to or not, maybe long after the call was settled.
End(c, how) ==
    /\ body[c] \in Live
    /\ body' = [body EXCEPT ![c] = how]
    /\ UNCHANGED <<fut, asked>>

\* Some calls are asked to stop, and of those that are the running bodies of
\* some are told.  One event may concern several calls.
Ask(told) ==
    /\ UNCHANGED fut
    /\ asked' \in SUBSET Calls
    /\ asked \cup told \subseteq asked'
    /\ body' = [c \in Calls |->
                  IF c \in told /\ body[c] = "running" THEN "stopping" ELSE body[c]]

\* What may be reported of the call.
Genuine(c, how) ==
    CASE how = "value"     -> body[c] = "ok"
      [] how = "error"     -> body[c] = "err" \/ c \in asked \cup Announced
      [] how = "cancelled" -> body[c] = "cancelled" \/ c \in asked
      [] how = "timeout"   -> c \in asked

Settle(c, how) ==
    /\ fut[c] = "pending"
    /\ body[c] # "running"
    /\ Genuine(c, how)
    /\ fut' = [fut EXCEPT ![c] = how]
    /\ UNCHANGED <<body, asked>>

Next ==
    \/ \E told \in SUBSET Calls : Ask(told)
    \/ \E c \in Calls :
          \/ Open(c)
          \/ \E how \in Live : Begin(c, how)
          \/ \E how \in Ends : End(c, how)
          \/ \E how \in Outcomes : Settle(c, how)

Spec == Init /\ [][Next]_vars
=============================================================================
