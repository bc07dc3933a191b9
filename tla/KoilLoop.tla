------------------------------ MODULE KoilLoop ------------------------------
(***************************************************************************)
(* The background event loop of a Koil and the thread that hosts it        *)
(* (koil/loop.py): started by __enter__, driven by                         *)
(* run_threaded_event_loop, stopped and joined by __exit__.                *)
(*                                                                         *)
(* The loop thread goes through four phases.  It runs (run_forever) until  *)
(* the posted loop.stop() is executed, then it drains: it cancels every    *)
(* task it knows and gathers them.  Then it finalizes the async generators *)
(* and at last it closes.  While it drains and finalizes it still runs     *)
(* callbacks, which is why late submissions get in.                        *)
(***************************************************************************)

VARIABLES
    loop,    \* phase of the thread in run_threaded_event_loop
    exit     \* phase of the thread in Koil.__exit__

loopVars == <<loop, exit>>

LoopTypeOK ==
    /\ loop \in {"running", "draining", "finalizing", "closed"}
    /\ exit \in {"open", "joining", "rejoining", "joined", "abandoned"}

\* __enter__ found no ambient koil: get_threaded_loop started the thread.
LoopInit ==
    /\ loop = "running"
    /\ exit = "open"

\* Callbacks, task steps and timers run in every phase but the last.
LoopAlive == loop # "closed"

-----------------------------------------------------------------------------
(* run_threaded_event_loop, on the loop thread                             *)

\* run_forever returns because the stop posted by __exit__ has run.
StopRuns ==
    /\ loop = "running"
    /\ exit # "open"
    /\ loop' = "draining"
    /\ UNCHANGED exit

\* run_until_complete(gather()) returned.
GatherDone ==
    /\ loop = "draining"
    /\ loop' = "finalizing"
    /\ UNCHANGED exit

\* shutdown_asyncgens() returned, loop.close() has run.
CloseLoop ==
    /\ loop = "finalizing"
    /\ loop' = "closed"
    /\ UNCHANGED exit

-----------------------------------------------------------------------------
(* Koil.__exit__, on the thread that leaves the context                    *)

\* call_soon_threadsafe(loop.stop), then the first join.
ExitCall ==
    /\ exit = "open"
    /\ exit' = "joining"
    /\ UNCHANGED loop

\* The thread ended within cancel_timeout or shutdown_join_timeout.
JoinReturns ==
    /\ exit \in {"joining", "rejoining"}
    /\ loop = "closed"
    /\ exit' = "joined"
    /\ UNCHANGED loop

\* Still alive after cancel_timeout: warn and join a second time.
JoinTimesOut ==
    /\ exit = "joining"
    /\ LoopAlive
    /\ exit' = "rejoining"
    /\ UNCHANGED loop

\* Fault: the second join has no timeout.
AbandonNever == exit = "rejoining" /\ FALSE /\ UNCHANGED loopVars

\* Still alive after shutdown_join_timeout: the daemon thread is abandoned.
Abandon ==
    /\ exit = "rejoining"
    /\ LoopAlive
    /\ exit' = "abandoned"
    /\ UNCHANGED loop

=============================================================================
