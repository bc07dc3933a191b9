----------------------------- MODULE KoilFuture -----------------------------
(***************************************************************************)
(* A coroutine submitted from a synchronous thread to the koil loop        *)
(* (run_async_sharing_context in koil/utils.py) and the KoilFuture its     *)
(* submitter holds: unkoil, unkoil_task and their _with_timeout variants   *)
(* in koil/bridge.py are this submission followed or not by result().      *)
(* iterate_async_sharing_context submits a stream in the same way: an      *)
(* async generator drained on the loop, each value emitted as a signal.    *)
(*                                                                         *)
(* Two threads meet here.  The caller submits, cancels, and waits in       *)
(* result(), bounded or not, until an answer, a timeout or a Ctrl+C.  The  *)
(* loop runs one task per submission, passed_with_context, which races the *)
(* coroutine against the future's own cancel event, the ambient cancel     *)
(* event of the run_threaded worker it was submitted from and a deadline;  *)
(* then it tidies up the losers, emits a signal and resolves the future.   *)
(* Shutdown (KoilLoop) may cut in at any point.                            *)
(***************************************************************************)
EXTENDS KoilLoop, FiniteSets

CONSTANTS
    Futures,     \* the submissions
    Scopes,      \* run_threaded calls that own an ambient cancel event
    NoScope,     \* submitted from a plain thread: current_cancel_event is None
    ScopeOf,     \* the scope each submission is made from
    Blocking,    \* unkoil: the submitter waits at once and keeps no future
    Timed,       \* submissions with a deadline on the loop (timeout argument)
    Signalled,   \* submissions that carry Qt signals
    Streams      \* the ones made with iterate_async_sharing_context

ASSUME ScopesAssumption == NoScope \notin Scopes
ASSUME ScopeOfAssumption == ScopeOf \in [Futures -> Scopes \cup {NoScope}]
ASSUME BlockingAssumption == Blocking \subseteq Futures
ASSUME TimedAssumption == Timed \subseteq Futures
ASSUME SignalledAssumption == Signalled \subseteq Futures
ASSUME StreamsAssumption == Streams \subseteq Signalled \ Blocking

VARIABLES
    call,        \* where the caller of f is
    answer,      \* what its last result() ended with
    asking,      \* who is inside cancel() and found the future not done
    requested,   \* _cancel_requested
    own,         \* own_cancel_event, private to the future
    ambient,     \* ambient_cancel_event of a scope
    torn,        \* ghost: the scopes whose run_threaded was cancelled
    task,        \* phase of the task running passed_with_context
    work,        \* future_t, the coroutine itself
    waiting,     \* the cancel and deadline waiters still pending
    finished,    \* the set asyncio.wait returned
    todo,        \* what is left of unfinished in the tidying loop
    ack,         \* acknowledged
    out,         \* how the task ended
    emitted,     \* terminal signal emitted
    nexts,       \* values emitted with next: none, some, some after that
    tasks        \* the tasks being gathered by the shutdown

callVars   == <<call, answer>>
cancelVars == <<asking, requested, own, ambient, torn>>
tidyVars   == <<finished, todo, ack>>
endVars    == <<out, emitted, nexts>>
raceVars   == <<task, work, waiting, tidyVars, endVars>>
vars       == <<callVars, cancelVars, raceVars, tasks, loopVars>>

-----------------------------------------------------------------------------
Waiters  == {"own", "ambient", "deadline"}
Racers   == Waiters \cup {"work"}
EventState == {"clear", "posted", "set"}

\* "late": posted after __exit__ posted the stop, so maybe after the drain.
TaskPhases == {"none", "posted", "late", "created", "racing", "tidying",
               "unwinding", "done", "resolved"}

\* A coroutine ends by returning, raising, raising a builtin TimeoutError
\* (which the tidying loop treats apart) or with CancelledError.
WorkEndings == {"ok", "err", "timeouterr", "cancelled"}
WorkPhases  == WorkEndings \cup {"none", "running", "cancelling"}
Outcomes    == {"value", "error", "cancelled", "timeout"}

\* Where the caller is: in result() it may have seen its deadline pass
\* ("expired"), be in the grace after that, or handle a Ctrl+C.
CallPhases == {"idle", "refused", "held", "waiting", "bounded", "expired", "grace",
               "interrupted", "left"}

\* The two callers cancel() has: the holder of the future, and result() itself.
Askers == {"holder", "result"}

TypeOK ==
    /\ LoopTypeOK
    /\ call \in [Futures -> CallPhases]
    /\ answer \in [Futures -> Outcomes \cup {"none", "interrupt"}]
    /\ asking \in [Futures -> SUBSET Askers]
    /\ requested \in [Futures -> BOOLEAN]
    /\ own \in [Futures -> EventState]
    /\ ambient \in [Scopes -> EventState]
    /\ torn \in SUBSET Scopes
    /\ task \in [Futures -> TaskPhases]
    /\ work \in [Futures -> WorkPhases]
    /\ waiting \in [Futures -> SUBSET Waiters]
    /\ finished \in [Futures -> SUBSET Racers]
    /\ todo \in [Futures -> SUBSET Racers]
    /\ ack \in [Futures -> BOOLEAN]
    /\ out \in [Futures -> Outcomes \cup {"none"}]
    /\ emitted \in [Futures -> {"none", "returned", "errored", "cancelled"}]
    /\ nexts \in [Futures -> {"none", "some", "late"}]
    /\ tasks \in SUBSET Futures

Init ==
    /\ LoopInit
    /\ call = [f \in Futures |-> "idle"]
    /\ answer = [f \in Futures |-> "none"]
    /\ asking = [f \in Futures |-> {}]
    /\ requested = [f \in Futures |-> FALSE]
    /\ own = [f \in Futures |-> "clear"]
    /\ ambient = [s \in Scopes |-> "clear"]
    /\ torn = {}
    /\ task = [f \in Futures |-> "none"]
    /\ work = [f \in Futures |-> "none"]
    /\ waiting = [f \in Futures |-> {}]
    /\ finished = [f \in Futures |-> {}]
    /\ todo = [f \in Futures |-> {}]
    /\ ack = [f \in Futures |-> TRUE]
    /\ out = [f \in Futures |-> "none"]
    /\ emitted = [f \in Futures |-> "none"]
    /\ nexts = [f \in Futures |-> "none"]
    /\ tasks = {}

-----------------------------------------------------------------------------
(* Reading the state                                                       *)

Accepted(f)  == call[f] \notin {"idle", "refused"}
Done(f)      == task[f] = "resolved"                \* future.done()
Cancelled(f) == requested[f] \/ own[f] = "set"      \* KoilFuture.cancelled()
AmbientSet(f) == ScopeOf[f] # NoScope /\ ambient[ScopeOf[f]] = "set"

WorkAlive(f) == work[f] \in {"running", "cancelling"}
WorkEnded(f) == work[f] \in WorkEndings
Ended(f)     == task[f] \in {"done", "resolved"}
TimedOut(f)  == "deadline" \in finished[f]          \* timed_out

\* The waiters passed_with_context starts beside the coroutine.
WaitersOf(f) ==
    {"own"} \cup (IF ScopeOf[f] # NoScope THEN {"ambient"} ELSE {})
            \cup (IF f \in Timed THEN {"deadline"} ELSE {})

\* Those that have completed, as long as the race is on.
Fired(f) == WaitersOf(f) \ waiting[f]

-----------------------------------------------------------------------------
(* The calling thread                                                      *)

\* get_koiled_loop_or_raise: there is an ambient loop and it is not closed.
HasKoiledLoop == LoopAlive

\* run_async_sharing_context up to and with run_coroutine_threadsafe.  Refused
\* without a loop (RuntimeError) or when the worker it is called from is
\* already cancelled (ThreadCancelledError).
Submit(f, next) ==
    /\ call[f] = "idle"
    /\ IF HasKoiledLoop /\ ~AmbientSet(f)
         THEN /\ call' = [call EXCEPT ![f] = next]
              /\ task' = [task EXCEPT ![f] =
                            IF exit = "open" THEN "posted" ELSE "late"]
         ELSE /\ call' = [call EXCEPT ![f] = "refused"]
              /\ UNCHANGED task
    /\ UNCHANGED <<answer, cancelVars, work, waiting, tidyVars, endVars,
                   tasks, loopVars>>

\* unkoil and unkoil_with_timeout go on to result() themselves ...
Unkoil(f) == f \in Blocking /\ Submit(f, "waiting")

\* ... unkoil_task and unkoil_task_with_timeout hand out the future.
UnkoilTask(f) == f \notin Blocking \cup Streams /\ Submit(f, "held")

\* ... and so does async_gen_to_qt.run with iterate_async_sharing_context.
IterateAsync(f) == f \in Streams /\ Submit(f, "held")

\* Where the caller is after result().
AfterResult(f) == IF f \in Blocking THEN "left" ELSE "held"

\* Fault: done() is not tested.
CancelTestMissing(f, who) ==
    /\ asking' = [asking EXCEPT ![f] = @ \cup {who}]
    /\ UNCHANGED <<requested, own, ambient, torn>>

\* _KoilFutureBase.cancel looks whether the future is done and goes on if it is
\* not.  The loop thread may resolve it from here on.
CancelTest(f, who) ==
    /\ ~Done(f)
    /\ asking' = [asking EXCEPT ![f] = @ \cup {who}]
    /\ UNCHANGED <<requested, own, ambient, torn>>

\* Faults: the ambient event shared with the siblings is set; no event is set.
CancelSetPoisons(f, who) ==
    /\ asking' = [asking EXCEPT ![f] = @ \ {who}]
    /\ requested' = [requested EXCEPT ![f] = TRUE]
    /\ ambient' = [s \in Scopes |->
                     IF s = ScopeOf[f] /\ ambient[s] = "clear" THEN "posted" ELSE ambient[s]]
    /\ UNCHANGED <<own, torn>>
CancelSetUnheard(f, who) ==
    /\ asking' = [asking EXCEPT ![f] = @ \ {who}]
    /\ requested' = [requested EXCEPT ![f] = TRUE]
    /\ UNCHANGED <<own, ambient, torn>>

\* ... then it notes the request and posts the setting of the future's own event
\* (_safe_set_event tolerates a closed loop), done or not by now.  The ambient
\* event is raced against, never set.
CancelSet(f, who) ==
    /\ asking' = [asking EXCEPT ![f] = @ \ {who}]
    /\ requested' = [requested EXCEPT ![f] = TRUE]
    /\ own' = [own EXCEPT ![f] = IF @ = "clear" /\ LoopAlive THEN "posted" ELSE @]
    /\ UNCHANGED <<ambient, torn>>

\* cancel() by the holder, in its two steps; on a done future it does nothing.
Cancel(f) ==
    /\ Accepted(f)
    /\ f \notin Blocking
    /\ "holder" \notin asking[f]
    /\ CancelTest(f, "holder")
    /\ UNCHANGED <<callVars, raceVars, tasks, loopVars>>

CancelEnds(f) ==
    /\ "holder" \in asking[f]
    /\ CancelSet(f, "holder")
    /\ UNCHANGED <<callVars, raceVars, tasks, loopVars>>

\* result(timeout): enter the sliced wait, with or without a deadline.
ResultCall(f, bounded) ==
    /\ call[f] = "held"
    /\ call' = [call EXCEPT ![f] = IF bounded THEN "bounded" ELSE "waiting"]
    /\ answer' = [answer EXCEPT ![f] = "none"]
    /\ UNCHANGED <<cancelVars, raceVars, tasks, loopVars>>

\* The future is done: result() returns or raises its outcome.
ResultReturns(f) ==
    /\ call[f] \in {"waiting", "bounded"}
    /\ Done(f)
    /\ call' = [call EXCEPT ![f] = AfterResult(f)]
    /\ answer' = [answer EXCEPT ![f] = out[f]]
    /\ UNCHANGED <<cancelVars, raceVars, tasks, loopVars>>

\* The deadline of result() has passed on a future that was not done when the
\* slice ended: on to _timeout_expired.
Expire(f) ==
    /\ call[f] = "bounded"
    /\ ~Done(f)
    /\ call' = [call EXCEPT ![f] = "expired"]
    /\ UNCHANGED <<answer, cancelVars, raceVars, tasks, loopVars>>

\* Fault: the interrupt is re-raised without signalling the task.
InterruptOrphans(f) ==
    /\ call[f] \in {"waiting", "bounded", "expired", "grace"}
    /\ call' = [call EXCEPT ![f] = AfterResult(f)]
    /\ answer' = [answer EXCEPT ![f] = "interrupt"]
    /\ asking' = [asking EXCEPT ![f] = @ \ {"result"}]
    /\ UNCHANGED <<requested, own, ambient, torn, raceVars, tasks, loopVars>>

\* Ctrl+C while result() waits or is expiring: on to its handler, out of the
\* cancel() it may be in.
Interrupt(f) ==
    /\ call[f] \in {"waiting", "bounded", "expired", "grace"}
    /\ call' = [call EXCEPT ![f] = "interrupted"]
    /\ asking' = [asking EXCEPT ![f] = @ \ {"result"}]
    /\ UNCHANGED <<answer, requested, own, ambient, torn, raceVars, tasks, loopVars>>

\* The cancel() of result() is over: _timeout_expired waits for the grace
\* period, the interrupt is re-raised without joining the task.
AfterCancel(f) ==
    /\ call' = [call EXCEPT ![f] = IF @ = "expired" THEN "grace" ELSE AfterResult(f)]
    /\ answer' = [answer EXCEPT ![f] = IF call[f] = "interrupted" THEN "interrupt" ELSE @]

\* The cancel() of _timeout_expired or of the interrupt's handler: a future that
\* got done meanwhile is left alone ...
ResultCancels(f) ==
    /\ call[f] \in {"expired", "interrupted"}
    /\ "result" \notin asking[f]
    /\ \/ Done(f) /\ AfterCancel(f) /\ UNCHANGED cancelVars
       \/ CancelTest(f, "result") /\ UNCHANGED callVars
    /\ UNCHANGED <<raceVars, tasks, loopVars>>

\* ... and one that was not done is signalled.
ResultCancelled(f) ==
    /\ call[f] \in {"expired", "interrupted"}
    /\ "result" \in asking[f]
    /\ CancelSet(f, "result")
    /\ AfterCancel(f)
    /\ UNCHANGED <<raceVars, tasks, loopVars>>

\* Fault: the wait for the acknowledgement is not bounded.
GraceWaitsForever(f) ==
    /\ call[f] = "grace"
    /\ Done(f)
    /\ call' = [call EXCEPT ![f] = AfterResult(f)]
    /\ answer' = [answer EXCEPT ![f] = "timeout"]
    /\ UNCHANGED <<cancelVars, raceVars, tasks, loopVars>>

\* The task acknowledged, or the grace ran out: KoilTimeoutError either way.
GraceEnds(f) ==
    /\ call[f] = "grace"
    /\ call' = [call EXCEPT ![f] = AfterResult(f)]
    /\ answer' = [answer EXCEPT ![f] = "timeout"]
    /\ UNCHANGED <<cancelVars, raceVars, tasks, loopVars>>

-----------------------------------------------------------------------------
(* Cancel events: KoilThreadSafeEvent.set posts, the loop sets             *)

\* The run_threaded call that owns the scope is cancelled on the loop.
CancelScope(s) ==
    /\ LoopAlive
    /\ ambient[s] = "clear"
    /\ ambient' = [ambient EXCEPT ![s] = "posted"]
    /\ torn' = torn \cup {s}
    /\ UNCHANGED <<callVars, asking, requested, own, raceVars, tasks, loopVars>>

SetAmbient(s) ==
    /\ LoopAlive
    /\ ambient[s] = "posted"
    /\ ambient' = [ambient EXCEPT ![s] = "set"]
    /\ UNCHANGED <<callVars, asking, requested, own, torn, raceVars, tasks, loopVars>>

SetOwn(f) ==
    /\ LoopAlive
    /\ own[f] = "posted"
    /\ own' = [own EXCEPT ![f] = "set"]
    /\ UNCHANGED <<callVars, asking, requested, ambient, torn, raceVars, tasks, loopVars>>

-----------------------------------------------------------------------------
(* passed_with_context, on the loop                                        *)

\* The callback posted by run_coroutine_threadsafe creates the task.
CreateTask(f) ==
    /\ LoopAlive
    /\ task[f] \in {"posted", "late"}
    /\ task' = [task EXCEPT ![f] = "created"]
    /\ UNCHANGED <<callVars, cancelVars, work, waiting, tidyVars, endVars,
                   tasks, loopVars>>

\* Its first step starts the coroutine and the waiters and awaits the race.
StartRace(f) ==
    /\ LoopAlive
    /\ task[f] = "created"
    /\ task' = [task EXCEPT ![f] = "racing"]
    /\ work' = [work EXCEPT ![f] = "running"]
    /\ waiting' = [waiting EXCEPT ![f] = WaitersOf(f)]
    /\ UNCHANGED <<callVars, cancelVars, tidyVars, endVars, tasks, loopVars>>

\* The coroutine ends of its own accord.
WorkEnds(f, how) ==
    /\ LoopAlive
    /\ work[f] = "running"
    /\ work' = [work EXCEPT ![f] = how]
    /\ UNCHANGED <<callVars, cancelVars, task, waiting, tidyVars, endVars,
                   tasks, loopVars>>

\* The coroutine was cancelled and has unwound: it may have swallowed the
\* cancellation and returned, or its cleanup may have raised.
WorkUnwinds(f, how) ==
    /\ LoopAlive
    /\ work[f] = "cancelling"
    /\ work' = [work EXCEPT ![f] = how]
    /\ UNCHANGED <<callVars, cancelVars, task, waiting, tidyVars, endVars,
                   tasks, loopVars>>

\* The coroutine of a stream emits a value with next; one that was cancelled
\* may do so too before it unwinds.
Yields(f) ==
    /\ LoopAlive
    /\ f \in Streams
    /\ WorkAlive(f)
    /\ nexts' = [nexts EXCEPT ![f] = IF emitted[f] = "none" THEN "some" ELSE "late"]
    /\ UNCHANGED <<callVars, cancelVars, task, work, waiting, tidyVars, out,
                   emitted, tasks, loopVars>>

\* A waiter completes: its event is set, or the deadline has passed.
WaiterFires(f, w) ==
    /\ LoopAlive
    /\ w \in waiting[f]
    /\ \/ w = "own" /\ own[f] = "set"
       \/ w = "ambient" /\ AmbientSet(f)
       \/ w = "deadline"
    /\ waiting' = [waiting EXCEPT ![f] = @ \ {w}]
    /\ UNCHANGED <<callVars, cancelVars, task, work, tidyVars, endVars, tasks,
                   loopVars>>

\* asyncio.wait(FIRST_COMPLETED) returns with everything done by now.
WaitReturns(f) ==
    /\ LoopAlive
    /\ task[f] = "racing"
    /\ Fired(f) # {} \/ WorkEnded(f)
    /\ finished' = [finished EXCEPT ![f] =
                      Fired(f) \cup (IF WorkEnded(f) THEN {"work"} ELSE {})]
    /\ todo' = [todo EXCEPT ![f] =
                      waiting[f] \cup (IF WorkEnded(f) THEN {} ELSE {"work"})]
    /\ task' = [task EXCEPT ![f] = "tidying"]
    /\ UNCHANGED <<callVars, cancelVars, work, waiting, ack, endVars, tasks,
                   loopVars>>

\* Fault: the losing waiters are dropped, not cancelled.
TidyWaiterDrops(f, w) ==
    /\ LoopAlive
    /\ task[f] = "tidying"
    /\ w \in todo[f] \cap Waiters
    /\ todo' = [todo EXCEPT ![f] = @ \ {w}]
    /\ UNCHANGED <<callVars, cancelVars, task, work, waiting, finished, ack,
                   endVars, tasks, loopVars>>

\* Cancel a losing waiter and await it; its CancelledError is swallowed.
TidyWaiter(f, w) ==
    /\ LoopAlive
    /\ task[f] = "tidying"
    /\ w \in todo[f] \cap Waiters
    /\ todo' = [todo EXCEPT ![f] = @ \ {w}]
    /\ waiting' = [waiting EXCEPT ![f] = @ \ {w}]
    /\ UNCHANGED <<callVars, cancelVars, task, work, finished, ack,
                   endVars, tasks, loopVars>>

\* Fault: the losing coroutine is dropped, not cancelled.
TidyWorkDrops(f) ==
    /\ LoopAlive
    /\ task[f] = "tidying"
    /\ "work" \in todo[f]
    /\ todo' = [todo EXCEPT ![f] = @ \ {"work"}]
    /\ UNCHANGED <<callVars, cancelVars, task, work, waiting, finished, ack,
                   endVars, tasks, loopVars>>

\* Cancel the losing coroutine and await it.
TidyWork(f) ==
    /\ LoopAlive
    /\ task[f] = "tidying"
    /\ "work" \in todo[f]
    /\ todo' = [todo EXCEPT ![f] = @ \ {"work"}]
    /\ task' = [task EXCEPT ![f] = "unwinding"]
    /\ work' = [work EXCEPT ![f] = IF @ = "running" THEN "cancelling" ELSE @]
    /\ UNCHANGED <<callVars, cancelVars, waiting, finished, ack, endVars, tasks,
                   loopVars>>

\* The await of the cancelled coroutine comes back.  A TimeoutError counts as
\* "not acknowledged"; any other error leaves passed_with_context at once:
\* no signal, and the waiters still in todo stay behind.
UnwindEnds(f) ==
    /\ LoopAlive
    /\ task[f] = "unwinding"
    /\ WorkEnded(f)
    /\ IF work[f] = "err"
         THEN /\ task' = [task EXCEPT ![f] = "done"]
              /\ out' = [out EXCEPT ![f] = "error"]
              /\ UNCHANGED ack
         ELSE /\ task' = [task EXCEPT ![f] = "tidying"]
              /\ ack' = IF work[f] = "timeouterr"
                          THEN [ack EXCEPT ![f] = FALSE] ELSE ack
              /\ UNCHANGED out
    /\ UNCHANGED <<callVars, cancelVars, work, waiting, finished, todo, emitted,
                   nexts, tasks, loopVars>>

\* Fault: the coroutine is awaited without bound after a deadline too.
GraceNeverExpires(f) == FALSE

\* After a deadline the wait for the coroutine is bounded by cancel_timeout
\* (wait_for around a shield): the coroutine is left unwinding.
GraceExpires(f) ==
    /\ LoopAlive
    /\ task[f] = "unwinding"
    /\ TimedOut(f)
    /\ work[f] = "cancelling"
    /\ task' = [task EXCEPT ![f] = "tidying"]
    /\ ack' = [ack EXCEPT ![f] = FALSE]
    /\ UNCHANGED <<callVars, cancelVars, work, waiting, finished, todo, endVars,
                   tasks, loopVars>>

\* Faults: the deadline is looked at before the coroutine; the ending of the
\* coroutine is passed on as it is.
VerdictDeadlineFirst(f) ==
    IF TimedOut(f)
      THEN "timeout"
      ELSE CASE "work" \notin finished[f] -> "cancelled"
             [] OTHER -> IF work[f] = "ok" THEN "value" ELSE "error"
VerdictRaw(f) ==
    IF "work" \in finished[f] THEN work[f]
                              ELSE IF TimedOut(f) THEN "timeout" ELSE "cancelled"

\* What the end of passed_with_context raises or returns ...
Verdict(f) ==
    IF "work" \in finished[f]
      THEN CASE work[f] = "ok"        -> "value"
             [] work[f] = "cancelled" -> "cancelled"
             [] OTHER                 -> "error"
      ELSE IF TimedOut(f) THEN "timeout" ELSE "cancelled"

\* Fault: a timeout is announced as a cancellation.
SignalTimeoutAsCancel(f) ==
    IF f \notin Signalled
      THEN "none"
      ELSE CASE Verdict(f) = "value" -> "returned"
             [] Verdict(f) = "error" -> "errored"
             [] OTHER -> "cancelled"

\* ... and the signal it emits just before ("returned" is the done of a
\* stream).  A coroutine that ended with CancelledError leaves through
\* future_t.exception(), past every signal.
Signal(f) ==
    IF f \notin Signalled
      THEN "none"
      ELSE CASE Verdict(f) = "value" -> "returned"
             [] Verdict(f) \in {"error", "timeout"} -> "errored"
             [] OTHER -> IF "work" \in finished[f] THEN "none" ELSE "cancelled"

\* The end of passed_with_context.  An emit that raises (the Qt object is
\* gone) replaces the outcome by its error.
Finish(f, delivered) ==
    /\ LoopAlive
    /\ task[f] = "tidying"
    /\ todo[f] = {}
    /\ delivered \/ Signal(f) # "none"
    /\ task' = [task EXCEPT ![f] = "done"]
    /\ out' = [out EXCEPT ![f] = IF delivered THEN Verdict(f) ELSE "error"]
    /\ emitted' = [emitted EXCEPT ![f] = IF delivered THEN Signal(f) ELSE @]
    /\ UNCHANGED <<callVars, cancelVars, work, waiting, tidyVars, nexts, tasks,
                   loopVars>>

\* The done callback of the task copies its outcome into the future.
Resolve(f) ==
    /\ LoopAlive
    /\ task[f] = "done"
    /\ task' = [task EXCEPT ![f] = "resolved"]
    /\ UNCHANGED <<callVars, cancelVars, work, waiting, tidyVars, endVars,
                   tasks, loopVars>>

-----------------------------------------------------------------------------
(* Shutdown: the phases of KoilLoop with their effect on the tasks         *)

\* Where the cancellation by the shutdown leaves a task.  Before the race is
\* decided it ends the task.  In the tidying loop the CancelledError is
\* swallowed: it cuts the bounded wait short, and it is passed on to the
\* coroutine by the unbounded one.  "kept" are the bounded waits that already
\* hold the coroutine's result and return it instead.
AfterShutdownCancel(f, kept) ==
    CASE task[f] \in {"created", "racing"} -> "done"
      [] task[f] = "unwinding" /\ f \notin kept /\ (WorkEnded(f) \/ TimedOut(f))
           -> "tidying"
      [] OTHER -> task[f]

\* Fault: the coroutines are gathered but not cancelled.
DrainWithoutCancel(kept) ==
    /\ StopRuns
    /\ \A f \in Futures : task[f] # "posted"
    /\ tasks' = {f \in Futures : task[f] \notin {"none", "late"}}
    /\ UNCHANGED <<callVars, cancelVars, raceVars>>

\* The stop has run; all_tasks is cancelled.  Callbacks run in the order they
\* were posted, so every submission made before __exit__ is a task by now.
Drain(kept) ==
    /\ StopRuns
    /\ \A f \in Futures : task[f] # "posted"
    /\ tasks' = {f \in Futures : task[f] \notin {"none", "late"}}
    /\ task' = [f \in Futures |-> AfterShutdownCancel(f, kept)]
    /\ out' = [f \in Futures |->
                  IF task[f] \in {"created", "racing"} THEN "cancelled" ELSE out[f]]
    /\ work' = [f \in Futures |->
                  IF work[f] = "running" THEN "cancelling" ELSE work[f]]
    /\ waiting' = [f \in Futures |-> {}]
    /\ UNCHANGED <<callVars, cancelVars, tidyVars, emitted, nexts>>

\* The bounded waits that may return their coroutine's result regardless.
Keepable == {f \in Futures :
               task[f] = "unwinding" /\ WorkEnded(f) /\ TimedOut(f)}

\* Fault: the cancelled tasks are not waited for.
GatherTooEarly ==
    /\ GatherDone
    /\ UNCHANGED <<callVars, cancelVars, raceVars, tasks>>

\* Every gathered task has ended and its done callbacks have run.
GatherReturns ==
    /\ GatherDone
    /\ \A f \in tasks : Done(f) /\ ~WorkAlive(f)
    /\ UNCHANGED <<callVars, cancelVars, raceVars, tasks>>

LoopCloses ==
    /\ CloseLoop
    /\ UNCHANGED <<callVars, cancelVars, raceVars, tasks>>

Exit ==
    /\ ExitCall
    /\ UNCHANGED <<callVars, cancelVars, raceVars, tasks>>

ExitWaits ==
    /\ JoinReturns \/ JoinTimesOut \/ Abandon
    /\ UNCHANGED <<callVars, cancelVars, raceVars, tasks>>

-----------------------------------------------------------------------------
Caller(f) ==
    \/ Unkoil(f)
    \/ UnkoilTask(f)
    \/ IterateAsync(f)
    \/ Cancel(f)
    \/ CancelEnds(f)
    \/ \E bounded \in BOOLEAN : ResultCall(f, bounded)
    \/ ResultReturns(f)
    \/ Expire(f)
    \/ Interrupt(f)
    \/ ResultCancels(f)
    \/ ResultCancelled(f)
    \/ GraceEnds(f)

\* The steps the loop takes for f by itself; the coroutine's own steps apart.
Bridge(f) ==
    \/ SetOwn(f)
    \/ CreateTask(f)
    \/ StartRace(f)
    \/ \E w \in Waiters : WaiterFires(f, w) \/ TidyWaiter(f, w)
    \/ WaitReturns(f)
    \/ TidyWork(f)
    \/ UnwindEnds(f)
    \/ GraceExpires(f)
    \/ \E delivered \in BOOLEAN : Finish(f, delivered)
    \/ Resolve(f)

Coroutine(f) ==
    \/ Yields(f)
    \/ \E how \in WorkEndings : WorkEnds(f, how) \/ WorkUnwinds(f, how)

Shutdown ==
    \/ \E kept \in SUBSET Keepable : Drain(kept)
    \/ GatherReturns
    \/ LoopCloses

Next ==
    \/ \E f \in Futures : Caller(f) \/ Bridge(f) \/ Coroutine(f)
    \/ \E s \in Scopes : CancelScope(s) \/ SetAmbient(s)
    \/ Shutdown
    \/ Exit
    \/ ExitWaits

Spec == Init /\ [][Next]_vars

\* A thread blocked in a wait with a timeout is woken by it at the latest, and
\* goes on when it need not wait.
WaitFairness ==
    /\ \A f \in Futures : WF_vars(\/ ResultReturns(f) \/ Expire(f) \/ GraceEnds(f)
                                 \/ ResultCancels(f) \/ ResultCancelled(f))
    /\ WF_vars(ExitWaits)

\* The loop serves its ready queue and its timers: no coroutine blocks it.
LoopFairness ==
    /\ \A f \in Futures : WF_vars(Bridge(f))
    /\ \A s \in Scopes : WF_vars(SetAmbient(s))
    /\ WF_vars(Shutdown)

\* Cancelled coroutines end.
Cooperation ==
    \A f \in Futures : WF_vars(\E how \in WorkEndings : WorkUnwinds(f, how))

\* Nothing is assumed of the loop: the liveness properties that need it, or
\* cooperation, say so.
FairSpec == Spec /\ WaitFairness

-----------------------------------------------------------------------------
(* Safety                                                                  *)

\* A future is never done while its coroutine runs on uncancelled, and it is
\* done before a cancelled coroutine has unwound only if the coroutine let the
\* grace after the deadline pass, or the shutdown is waiting for it (the
\* tidying loop of passed_with_context and the gather of the loop thread).
NoOrphanedCoroutine ==
    \A f \in Futures : Done(f) /\ WorkAlive(f) =>
        /\ work[f] = "cancelling"
        /\ (TimedOut(f) /\ ~ack[f]) \/ f \in tasks

\* When the task of a future has ended none of the waiters it started is
\* pending, unless the cleanup of the cancelled coroutine raised (the tidying
\* loop of passed_with_context).
NoLeakedWaiter ==
    \A f \in Futures : Ended(f) /\ waiting[f] # {} =>
        out[f] = "error" /\ "work" \notin finished[f]

\* What decides an outcome: the coroutine if it has finished, else the deadline,
\* else the cancel events.
ByWork(f)     == "work" \in finished[f]
ByDeadline(f) == ~ByWork(f) /\ TimedOut(f)
ByCancel(f)   == ~ByWork(f) /\ ~TimedOut(f) /\ finished[f] # {}

\* Of all that can happen at once a finished coroutine decides the outcome, then
\* the deadline, then the cancel events (passed_with_context after the tidying
\* loop).  A value, a timeout and a cancellation are each reported for their own
\* reason only, a cancellation also when the shutdown cut the race; an error is
\* the coroutine's own, that of its cleanup, or that of an emit that raised.
OutcomeIsGenuine ==
    \A f \in Futures : Ended(f) =>
        /\ out[f] = "value" => ByWork(f) /\ work[f] = "ok"
        /\ out[f] = "timeout" => ByDeadline(f)
        /\ out[f] = "cancelled" =>
              \/ ByWork(f) /\ work[f] = "cancelled"
              \/ ByCancel(f)
              \/ finished[f] = {} /\ f \in tasks
        /\ out[f] = "error" =>
              \/ ByWork(f) /\ work[f] \in {"err", "timeouterr"}
              \/ ~ByWork(f) /\ work[f] = "err"
              \/ f \in Signalled /\ emitted[f] = "none"
        /\ ByWork(f) /\ work[f] = "ok" =>
              out[f] = "value" \/ (f \in Signalled /\ out[f] = "error")

\* Listeners and the holder of the future are told the same: a terminal signal
\* agrees with the outcome of the future, and a value or a timeout is never
\* reported to the holder alone (the emits of passed_with_context).
SignalTellsOutcome ==
    \A f \in Signalled :
        /\ emitted[f] # "none" => Ended(f)
        /\ emitted[f] = "returned" <=> out[f] = "value"
        /\ emitted[f] = "errored" => out[f] \in {"error", "timeout"}
        /\ out[f] = "timeout" => emitted[f] = "errored"
        /\ emitted[f] = "cancelled" => out[f] = "cancelled"

\* The terminal signal of a stream is the end of it: a value follows only from
\* a generator that let the grace after its deadline pass or that the shutdown
\* is waiting for (next.emit in iterate_async_sharing_context).
SignalEndsStream ==
    \A f \in Streams : nexts[f] = "late" =>
        (TimedOut(f) /\ ~ack[f]) \/ f \in tasks

\* Cancellation does not spread: a submission is refused, or ends cancelled,
\* only because its own future was cancelled, the run_threaded call it was
\* made from was, its coroutine raised CancelledError, or the loop went away;
\* never because a sibling future was cancelled, timed out or interrupted
\* (the two events of run_async_sharing_context).
CancellationIsolated ==
    \A f \in Futures :
        /\ call[f] = "refused" => loop = "closed" \/ ScopeOf[f] \in torn
        /\ out[f] = "cancelled" =>
              \/ requested[f] /\ own[f] = "set"
              \/ ScopeOf[f] \in torn
              \/ work[f] = "cancelled"
              \/ f \in tasks

\* A caller that gave up on a future, on Ctrl+C or at the deadline of result(),
\* has left it done or signalled to cancel (result and _timeout_expired).
GivenUpIsSignalled ==
    \A f \in Futures : answer[f] \in {"interrupt", "timeout"} =>
        Done(f) \/ (Cancelled(f) /\ (own[f] # "clear" \/ loop = "closed"))

\* A done future stays as it is: a late cancel(), Ctrl+C or expiry of result()
\* changes neither its outcome nor its signal, and starts no cancellation; what
\* cancelled() says of it can still change only by a cancel() that was past its
\* done() test when the loop resolved the future (cancel is check-then-act).
DoneIsFinal ==
    [][\A f \in Futures : Done(f) =>
         /\ Done(f)'
         /\ out'[f] = out[f]
         /\ emitted'[f] = emitted[f]
         /\ asking'[f] \subseteq asking[f]
         /\ requested'[f] # requested[f] => asking[f] # {}]_vars

\* What the caller and the listeners see of a submission: its future ...
FutureOf(f) ==
    IF Done(f) THEN out[f] ELSE IF Accepted(f) THEN "pending" ELSE "idle"

\* ... its coroutine ...
BodyOf(f) ==
    CASE work[f] = "cancelling"            -> "stopping"
      [] work[f] \in {"err", "timeouterr"} -> "err"
      [] OTHER                             -> work[f]

\* ... and whether cancel(), its worker, its deadline or __exit__ wants it gone.
AskedToStop(f) ==
    requested[f] \/ ScopeOf[f] \in torn \/ TimedOut(f) \/ exit # "open"

Promise == INSTANCE Settlement WITH
    Calls <- Futures,
    Announced <- Signalled,
    fut <- [f \in Futures |-> FutureOf(f)],
    body <- [f \in Futures |-> BodyOf(f)],
    asked <- {f \in Futures : AskedToStop(f)}

\* run_async_sharing_context keeps the promise of Settlement: race, tidying,
\* grace and shutdown amount to asking a call to stop, ending its body and
\* settling it once with a genuine outcome.
KeepsPromise == Promise!Spec

\* Whatever was submitted before __exit__ is done, and its coroutine has ended,
\* when the loop is closed (the drain of run_threaded_event_loop).
ExitSettlesSubmissions ==
    \A f \in Futures :
        [](Accepted(f) /\ exit = "open" =>
             [](loop = "closed" => Done(f) /\ ~WorkAlive(f)))

\* What _safe_set_event relies on: when the loop is gone the work of every
\* future is already finished or cancelled.
LoopGoneWorkFinished ==
    loop = "closed" =>
        \A f \in Futures : Accepted(f) => Done(f) /\ ~WorkAlive(f)

-----------------------------------------------------------------------------
(* Liveness                                                                *)

\* result(timeout) comes back even if the loop never takes another step.
BoundedResultReturns ==
    \A f \in Futures :
        call[f] \in {"bounded", "expired", "grace"} ~> call[f] = AfterResult(f)

\* __exit__ comes back even if the loop never takes another step: the thread
\* is abandoned after the second join.
ExitReturns == exit # "open" ~> exit \in {"joined", "abandoned"}

\* If the loop goes on, a deadline settles its future even if the coroutine
\* ignores cancellation: the wait for its acknowledgement is bounded.  Not so
\* when a cancel event came first, for then the wait is not.
DeadlineSettles ==
    LoopFairness =>
        \A f \in Timed : task[f] = "racing" ~>
            \/ Done(f)
            \/ requested[f]
            \/ ScopeOf[f] \in torn
            \/ exit # "open"

\* Coroutines that cooperate are cancelled for good: after cancel(), Ctrl+C or
\* the expiry of result() the future gets done and the coroutine ends.
CancelledCoroutineUnwinds ==
    LoopFairness /\ Cooperation =>
        \A f \in Futures :
            requested[f] ~> (Done(f) /\ ~WorkAlive(f)) \/ loop = "closed"

\* If coroutines cooperate the shutdown runs to the end and closes the loop.
ShutdownCloses ==
    LoopFairness /\ Cooperation => (exit # "open" ~> loop = "closed")
=============================================================================
