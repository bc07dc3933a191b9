----------------------------- MODULE UnkoilGen -----------------------------
(***************************************************************************)
(* unkoil_gen and unkoil_gen_with_timeout (koil/bridge.py): a thread       *)
(* drives an async generator of the koil loop as a synchronous one, and    *)
(* aclose_async_gen_threadsafe (koil/utils.py) closes it there when the    *)
(* consumer leaves, however it leaves.                                     *)
(*                                                                         *)
(* Every step is a submission of __anext__, a KoilFuture: of its race only *)
(* who stopped the step and how the future settles is kept (KoilFuture has *)
(* the rest).  The frame of the generator can be driven by one coroutine   *)
(* at a time: a step, the aclose() of the consumer or the one of the       *)
(* loop's shutdown.  The second to come gets a RuntimeError.               *)
(***************************************************************************)
EXTENDS KoilLoop, Naturals, Sequences

CONSTANTS
    Timed,        \* TRUE for unkoil_gen_with_timeout
    MaxValues     \* bound: values the generator yields

ASSUME TimedAssumption == Timed \in BOOLEAN
ASSUME MaxValuesAssumption == MaxValues \in Nat

VARIABLES
    consumer,     \* where the thread is in unkoil_gen
    ending,       \* what the consumer's loop ended with
    got,          \* the values it received
    gaveup,       \* ghost: how the finally block was cut short
    ambient,      \* the run_threaded worker the consumer runs in is cancelled
    fut,          \* the KoilFuture of the last step
    asked,        \* its cancel() was called
    sent,         \* the step carries a value of send()
    step,         \* the coroutine of the last step
    stopped,      \* what cancelled that coroutine
    frame,        \* the frame of the async generator, by who drives it
    produced,     \* number of values it yielded
    aclose,       \* the aclose() submitted by the finally block
    tasks         \* the tasks being gathered by the shutdown

consumerVars == <<consumer, ending, got, gaveup>>
stepVars     == <<fut, asked, sent, step, stopped>>
genVars      == <<frame, produced>>
vars         == <<consumerVars, ambient, stepVars, genVars, aclose, tasks, loopVars>>

-----------------------------------------------------------------------------
\* "rejected": __anext__ was called with an argument it does not take;
\* "timeouterr": a builtin TimeoutError, which the tidying loop treats apart.
StepEndings == {"value", "stop", "err", "timeouterr", "cancelled", "rejected"}
Settled     == {"value", "stop", "error", "cancelled", "timeout"}
\* "silenced": the cleanup raised an error aclose_async_gen_threadsafe swallows.
AcloseOver  == {"done", "failed", "silenced", "ignored", "clash", "dropped"}

TypeOK ==
    /\ LoopTypeOK
    /\ consumer \in {"fresh", "waiting", "yielded", "settling", "closing", "ended"}
    /\ ending \in {"none", "exhausted", "stopasync", "error", "cancelled", "timeout",
                   "closed", "interrupt", "refused"}
    /\ got \in Seq(Nat)
    /\ gaveup \in SUBSET {"wait", "close", "abort", "detached"}
    /\ ambient \in BOOLEAN
    /\ fut \in Settled \cup {"none", "pending"}
    /\ asked \in BOOLEAN
    /\ sent \in BOOLEAN
    /\ step \in StepEndings \cup {"none", "posted", "late", "running", "stopping"}
    /\ stopped \in {"no", "cancel", "deadline", "shutdown"}
    /\ frame \in {"unstarted", "stepping", "suspended", "unwinding", "shutting", "finished"}
    /\ produced \in 0..MaxValues
    /\ aclose \in AcloseOver \cup {"none", "posted", "late", "unwinding"}
    /\ tasks \in SUBSET {"step", "aclose"}

\* unkoil_gen was called; nothing of it runs before the first next().
Init ==
    /\ LoopInit
    /\ consumer = "fresh"
    /\ ending = "none"
    /\ got = <<>>
    /\ gaveup = {}
    /\ ambient = FALSE
    /\ fut = "none"
    /\ asked = FALSE
    /\ sent = FALSE
    /\ step = "none"
    /\ stopped = "no"
    /\ frame = "unstarted"
    /\ produced = 0
    /\ aclose = "none"
    /\ tasks = {}

StepOver == step \in StepEndings

\* What is posted after __exit__ posted the stop is "late": it may be run
\* while the loop drains or finalizes, and no gather waits for it.
Posted == IF exit = "open" THEN "posted" ELSE "late"

-----------------------------------------------------------------------------
(* Leaving: the finally block                                              *)

\* Fault: the generator is left to the garbage collector.
PostNothing ==
    /\ consumer' = "ended"
    /\ UNCHANGED aclose

\* aclose_async_gen_threadsafe: nothing on a closed loop, otherwise submit
\* aclose() and wait for it.
PostAclose ==
    IF LoopAlive
      THEN consumer' = "closing" /\ aclose' = Posted
      ELSE consumer' = "ended" /\ UNCHANGED aclose

\* Fault: the step is cancelled but not waited for.
LeaveAtOnce(how) ==
    /\ ending' = how
    /\ asked' = (fut = "pending")
    /\ PostAclose

\* An exception, or the end of the generator, gets to the finally block: a
\* step that is not done is cancelled and waited for first.
Leave(how) ==
    /\ ending' = how
    /\ IF fut = "pending"
         THEN consumer' = "settling" /\ asked' = TRUE /\ UNCHANGED aclose
         ELSE PostAclose /\ UNCHANGED asked

\* The step's future got done.
SettlingEnds ==
    /\ consumer = "settling"
    /\ fut # "pending"
    /\ PostAclose
    /\ UNCHANGED <<ending, got, gaveup, ambient, stepVars, genVars, tasks, loopVars>>

\* KOIL_CANCEL_TIMEOUT passed: close the generator regardless.
SettlingTimesOut ==
    /\ consumer = "settling"
    /\ fut = "pending"
    /\ gaveup' = gaveup \cup {"wait"}
    /\ PostAclose
    /\ UNCHANGED <<ending, got, ambient, stepVars, genVars, tasks, loopVars>>

\* aclose() ended.  Every RuntimeError (of a clash, of an ignored GeneratorExit,
\* of the cleanup itself), a TimeoutError and a cancellation are swallowed,
\* another error of the cleanup is raised.
ClosingEnds ==
    /\ consumer = "closing"
    /\ aclose \in AcloseOver
    /\ consumer' = "ended"
    /\ ending' = IF aclose = "failed" THEN "error" ELSE ending
    /\ UNCHANGED <<got, gaveup, ambient, stepVars, genVars, aclose, tasks, loopVars>>

\* Fault: the wait for aclose() is not bounded.
ClosingNeverTimesOut == FALSE

\* ACLOSE_TIMEOUT passed: warn, and leave aclose() to the loop.
ClosingTimesOut ==
    /\ consumer = "closing"
    /\ aclose \notin AcloseOver
    /\ consumer' = "ended"
    /\ gaveup' = gaveup \cup {"close"}
    /\ UNCHANGED <<ending, got, ambient, stepVars, genVars, aclose, tasks, loopVars>>

\* A second Ctrl+C, during one of the waits of the finally block.
Abort ==
    /\ consumer \in {"settling", "closing"}
    /\ consumer' = "ended"
    /\ ending' = "interrupt"
    /\ gaveup' = gaveup \cup {"abort"}
    /\ UNCHANGED <<got, ambient, stepVars, genVars, aclose, tasks, loopVars>>

-----------------------------------------------------------------------------
(* Iterating                                                               *)

\* run_async_sharing_context of __anext__.  It raises in a cancelled worker
\* and on a closed loop.
SubmitStep(withValue) ==
    IF LoopAlive /\ ~ambient
      THEN /\ consumer' = "waiting"
           /\ fut' = "pending"
           /\ asked' = FALSE
           /\ sent' = withValue
           /\ step' = Posted
           /\ stopped' = "no"
           /\ UNCHANGED <<ending, aclose>>
      ELSE Leave("refused") /\ UNCHANGED <<fut, sent, step, stopped>>

\* The first next().  Without a loop it raises before the try.
First ==
    /\ consumer = "fresh"
    /\ IF LoopAlive
         THEN SubmitStep(FALSE)
         ELSE /\ consumer' = "ended"
              /\ ending' = "refused"
              /\ UNCHANGED <<stepVars, aclose>>
    /\ UNCHANGED <<got, gaveup, ambient, genVars, tasks, loopVars>>

\* next() or send() at the yield.
NextStep(withValue) ==
    /\ consumer = "yielded"
    /\ SubmitStep(withValue)
    /\ UNCHANGED <<got, gaveup, ambient, genVars, tasks, loopVars>>

\* Fault: a step that timed out is skipped and the iteration goes on.
ResultRetries ==
    /\ consumer = "waiting"
    /\ fut \in Settled
    /\ IF fut \in {"value", "timeout"}
         THEN /\ consumer' = "yielded"
              /\ got' = IF fut = "value" THEN Append(got, produced) ELSE got
              /\ UNCHANGED <<ending, asked, aclose>>
         ELSE Leave(IF fut = "stop" THEN "exhausted" ELSE fut) /\ UNCHANGED got
    /\ UNCHANGED <<gaveup, ambient, fut, sent, step, stopped, genVars, tasks, loopVars>>

\* result() comes back.  StopAsyncIteration ends the iteration, but that of
\* the first step, which has no handler of its own, is raised as it is.
ResultReturns ==
    /\ consumer = "waiting"
    /\ fut \in Settled
    /\ IF fut = "value"
         THEN /\ consumer' = "yielded"
              /\ got' = Append(got, produced)
              /\ UNCHANGED <<ending, asked, aclose>>
         ELSE /\ Leave(IF fut # "stop" THEN fut
                       ELSE IF got = <<>> THEN "stopasync" ELSE "exhausted")
              /\ UNCHANGED got
    /\ UNCHANGED <<gaveup, ambient, fut, sent, step, stopped, genVars, tasks, loopVars>>

\* Ctrl+C in result(), which cancels the step and re-raises.
Interrupt ==
    /\ consumer = "waiting"
    /\ Leave("interrupt")
    /\ UNCHANGED <<got, gaveup, ambient, fut, sent, step, stopped, genVars, tasks,
                   loopVars>>

\* close(), throw() or the loss of the last reference, at the yield.
Close ==
    /\ consumer = "yielded"
    /\ Leave("closed")
    /\ UNCHANGED <<got, gaveup, ambient, fut, sent, step, stopped, genVars, tasks,
                   loopVars>>

\* The same on the loop's own thread: aclose() is left to a task.
CloseOnLoop ==
    /\ consumer = "yielded"
    /\ LoopAlive
    /\ consumer' = "ended"
    /\ ending' = "closed"
    /\ gaveup' = gaveup \cup {"detached"}
    /\ aclose' = Posted
    /\ UNCHANGED <<got, ambient, stepVars, genVars, tasks, loopVars>>

\* A generator that was never started is closed without running its body.
CloseFresh ==
    /\ consumer = "fresh"
    /\ consumer' = "ended"
    /\ ending' = "closed"
    /\ UNCHANGED <<got, gaveup, ambient, stepVars, genVars, aclose, tasks, loopVars>>

\* The run_threaded call the consumer is the worker of is cancelled.
CancelScope ==
    /\ ~ambient
    /\ ambient' = TRUE
    /\ UNCHANGED <<consumerVars, stepVars, genVars, aclose, tasks, loopVars>>

-----------------------------------------------------------------------------
(* The step and the generator, on the loop                                 *)

\* The coroutine of the step calls __anext__.
StartStep ==
    /\ LoopAlive
    /\ step \in {"posted", "late"}
    /\ LET resumes == ~sent /\ frame \in {"unstarted", "suspended"} IN
       /\ step' = CASE sent                        -> "rejected"
                    [] resumes                     -> "running"
                    [] ~sent /\ frame = "finished" -> "stop"
                    [] OTHER                       -> "err"
       /\ frame' = IF resumes THEN "stepping" ELSE frame
    /\ UNCHANGED <<consumerVars, ambient, fut, asked, sent, stopped, produced, aclose,
                   tasks, loopVars>>

\* The race of the step is won by a cancel event or the deadline.
StopStep(cause) ==
    /\ LoopAlive
    /\ fut = "pending"
    /\ step = "running"
    /\ \/ cause = "cancel" /\ (asked \/ ambient)
       \/ cause = "deadline" /\ Timed
    /\ step' = "stopping"
    /\ stopped' = cause
    /\ UNCHANGED <<consumerVars, ambient, fut, asked, sent, genVars, aclose, tasks,
                   loopVars>>

\* The generator yields, returns or raises, a CancelledError of its own too; a
\* cancelled one may swallow the CancelledError and yield.
StepEnds(how) ==
    /\ LoopAlive
    /\ step \in {"running", "stopping"}
    /\ how = "value" => produced < MaxValues
    /\ step' = how
    /\ frame' = IF how = "value" THEN "suspended" ELSE "finished"
    /\ produced' = IF how = "value" THEN produced + 1 ELSE produced
    /\ UNCHANGED <<consumerVars, ambient, fut, asked, sent, stopped, aclose, tasks,
                   loopVars>>

\* Fault: the future takes over the coroutine's own ending.
VerdictRaw == step

\* What the future of an ended step is settled with.  An exception of the
\* stopped coroutine, StopAsyncIteration included, passes for the outcome, but
\* not its TimeoutError, which is read as "not acknowledged".
StepVerdict ==
    LET raised == \/ step \in {"err", "rejected"}
                  \/ step = "timeouterr" /\ stopped = "no"
        stop   == IF stopped = "deadline" THEN "timeout" ELSE "cancelled"
    IN IF stopped = "shutdown" THEN "cancelled"
       ELSE IF raised THEN "error"
       ELSE IF step = "stop" \/ stopped = "no" THEN step
       ELSE stop

\* The future is settled: over the ended step, after the grace of a deadline
\* (which the shutdown cuts short), or by the shutdown.
SettleStep ==
    /\ LoopAlive
    /\ fut = "pending"
    /\ \/ StepOver /\ fut' = StepVerdict
       \/ stopped = "deadline" /\ (~StepOver \/ "step" \in tasks) /\ fut' = "timeout"
       \/ stopped = "shutdown" /\ ~StepOver /\ fut' = "cancelled"
    /\ UNCHANGED <<consumerVars, ambient, asked, sent, step, stopped, genVars, aclose,
                   tasks, loopVars>>

\* The task of aclose() runs: a frame that somebody drives refuses it.
AcloseStarts ==
    /\ LoopAlive
    /\ aclose \in {"posted", "late"}
    /\ aclose' = CASE frame \in {"stepping", "shutting"} -> "clash"
                   [] frame = "suspended"               -> "unwinding"
                   [] OTHER                             -> "done"
    /\ frame' = CASE frame \in {"stepping", "shutting"} -> frame
                  [] frame = "suspended"               -> "unwinding"
                  [] OTHER                             -> "finished"
    /\ UNCHANGED <<consumerVars, ambient, stepVars, produced, tasks, loopVars>>

\* The generator's finally blocks have run, raised, or yielded once more.
AcloseEnds(how) ==
    /\ LoopAlive
    /\ aclose = "unwinding"
    /\ aclose' = how
    /\ frame' = IF how = "ignored" THEN "suspended" ELSE "finished"
    /\ UNCHANGED <<consumerVars, ambient, stepVars, produced, tasks, loopVars>>

-----------------------------------------------------------------------------
(* Shutdown: the phases of KoilLoop with their effect on step and aclose   *)

\* The stop has run and all tasks are cancelled, the ones not started yet
\* without running.  A race that has not taken note of its ended step, or still
\* awaits the cancelled one, may be cut all the same.
Drain(cut) ==
    /\ StopRuns
    /\ cut => StepOver /\ fut = "pending" /\ stopped # "deadline"
    /\ tasks' = (IF \/ step \in {"posted", "running", "stopping"}
                    \/ StepOver /\ fut = "pending" THEN {"step"} ELSE {})
                \cup (IF aclose = "unwinding" THEN {"aclose"} ELSE {})
    /\ step' = CASE step = "posted"  -> "cancelled"
                 [] step = "running" -> "stopping"
                 [] OTHER            -> step
    /\ stopped' = IF cut \/ step \in {"posted", "running"} THEN "shutdown" ELSE stopped
    /\ aclose' = IF aclose = "posted" THEN "dropped" ELSE aclose
    /\ UNCHANGED <<consumerVars, ambient, fut, asked, sent, genVars>>

\* The gathered tasks are over; shutdown_asyncgens takes up the generator if
\* nobody drives it.
GatherReturns ==
    /\ GatherDone
    /\ "step" \in tasks => StepOver /\ fut # "pending"
    /\ "aclose" \in tasks => aclose # "unwinding"
    /\ frame' = IF frame = "suspended" THEN "shutting" ELSE frame
    /\ UNCHANGED <<consumerVars, ambient, stepVars, produced, aclose, tasks>>

\* The aclose() of shutdown_asyncgens ends; its errors are logged.
ShutdownGenEnds(left) ==
    /\ loop = "finalizing"
    /\ frame = "shutting"
    /\ frame' = left
    /\ UNCHANGED <<consumerVars, ambient, stepVars, produced, aclose, tasks, loopVars>>

LoopCloses ==
    /\ CloseLoop
    /\ frame # "shutting"
    /\ UNCHANGED <<consumerVars, ambient, stepVars, genVars, aclose, tasks>>

Exit ==
    /\ ExitCall
    /\ UNCHANGED <<consumerVars, ambient, stepVars, genVars, aclose, tasks>>

-----------------------------------------------------------------------------
Waits == SettlingEnds \/ SettlingTimesOut \/ ClosingEnds \/ ClosingTimesOut

Consumer ==
    \/ First
    \/ \E withValue \in BOOLEAN : NextStep(withValue)
    \/ ResultReturns
    \/ Interrupt
    \/ Close
    \/ CloseOnLoop
    \/ CloseFresh
    \/ Abort

Serve ==
    \/ StartStep
    \/ \E cause \in {"cancel", "deadline"} : StopStep(cause)
    \/ SettleStep
    \/ AcloseStarts

Generator ==
    \/ \E how \in StepEndings \ {"rejected"} : StepEnds(how)
    \/ \E how \in {"done", "failed", "silenced", "ignored"} : AcloseEnds(how)
    \/ \E left \in {"finished", "suspended"} : ShutdownGenEnds(left)

Shutdown == (\E cut \in BOOLEAN : Drain(cut)) \/ GatherReturns \/ LoopCloses

Next == Consumer \/ Waits \/ CancelScope \/ Serve \/ Generator \/ Shutdown \/ Exit

Spec == Init /\ [][Next]_vars

\* The waits of the finally block have timeouts; nothing else is assumed.
FairSpec == Spec /\ WF_vars(Waits)

\* The loop serves its ready queue and its timers.
LoopFairness == WF_vars(Serve) /\ WF_vars(Shutdown)

\* A cancelled step ends, and so does a cleanup.
Cooperation == WF_vars(Generator /\ step # "running")

-----------------------------------------------------------------------------
(* Properties                                                              *)

\* When the consumer is out, by whatever way, the generator has been closed.
\* Exceptions: a bounded wait ran out or was interrupted, the close was left to
\* a loop task, the loop is shutting down, the generator ignored GeneratorExit,
\* or its last step outlived the grace of its deadline, so that aclose() met a
\* running frame (the finally block of unkoil_gen).
ClosedWhenLeft ==
    consumer = "ended" /\ gaveup = {} /\ exit = "open" =>
        \/ frame \in {"unstarted", "finished"}
        \/ aclose = "ignored"
        \/ aclose = "clash" /\ fut = "timeout" /\ stopped = "deadline"

\* The consumer sees every value once and in order, up to the last step: a
\* value is lost only with the step the consumer left on, and a loop that ends
\* normally has seen all of them.  StopAsyncIteration gets out only of a
\* generator that yielded nothing (the two result() calls of unkoil_gen).
EndingIsHonest ==
    /\ \A i \in DOMAIN got : got[i] = i
    /\ consumer = "yielded" => Len(got) = produced
    /\ consumer # "ended" /\ ending = "none" => produced <= Len(got) + 1
    /\ ending = "exhausted" => frame = "finished" /\ Len(got) = produced /\ produced > 0
    /\ ending = "stopasync" => produced = 0

\* Leaving ends although the loop may never take another step: both waits of
\* the finally block are bounded.
LeavingReturns == consumer \in {"settling", "closing"} ~> consumer = "ended"

\* A consumer that left early leaves no generator behind: if the loop goes on
\* and cleanups end, the frame gets closed also when the waits had run out and
\* when aclose() was refused because a cancelled step was unwinding it.  Not so
\* if a second Ctrl+C kept aclose() from being submitted, the generator ignored
\* GeneratorExit, or the step that aclose() met swallowed its cancellation and
\* yielded (aclose_async_gen_threadsafe).
CleanupRuns ==
    LoopFairness /\ Cooperation =>
        (consumer = "ended" ~>
           \/ frame \in {"unstarted", "finished"}
           \/ aclose = "ignored"
           \/ aclose = "clash" /\ step = "value" /\ frame = "suspended"
           \/ aclose = "none" /\ "abort" \in gaveup
           \/ loop = "closed")
=============================================================================
