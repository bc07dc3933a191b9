----------------------------- MODULE RunThreaded -----------------------------
(***************************************************************************)
(* run_threaded and run_threaded_bridged (koil/bridge.py): a coroutine     *)
(* hands a synchronous function to the default thread pool, awaits it      *)
(* behind a shield and, when it is cancelled, sets the worker's cancel     *)
(* event and gives it cancel_timeout to end.                               *)
(*                                                                         *)
(* A worker may come back to the loop with unkoil and wait there for a     *)
(* coroutine that calls run_threaded again: the nested call.  The worker's *)
(* cancel event is the ambient event of that unkoil (KoilFuture), so it    *)
(* cancels the nested call, and its thread stays taken meanwhile.          *)
(***************************************************************************)
EXTENDS Naturals, FiniteSets

CONSTANTS
    Jobs,        \* the run_threaded calls
    NoJob,       \* the parent of a call made from ordinary async code
    Parent,      \* the call whose worker makes the nested call
    Bridged,     \* the calls made with run_threaded_bridged
    PoolSize     \* threads of the default executor

ASSUME NoJobAssumption == NoJob \notin Jobs
ASSUME ParentAssumption == Parent \in [Jobs -> Jobs \cup {NoJob}]
ASSUME BridgedAssumption == Bridged \subseteq Jobs
ASSUME PoolSizeAssumption == PoolSize \in Nat \ {0}

VARIABLES
    awaiter,     \* the coroutine in _run_threaded
    worker,      \* the function on the pool
    event,       \* cancel_event, the KoilThreadSafeEvent of the call
    cancels,     \* ghost: CancelledErrors thrown into the awaiter
    wrote,       \* the worker changed a ContextVar of its copied context
    seen         \* the caller's context holds the worker's change

vars == <<awaiter, worker, event, cancels, wrote, seen>>

\* ThreadCancelledError is "stopped"; "lost" is a CancelledError the worker got
\* from a nested unkoil; "dropped" was cancelled before it ran.
Endings      == {"ok", "err", "timeouterr", "stopped", "lost", "dropped"}
Busy         == {"running", "sleeping", "nested"}
WorkerPhases == Endings \cup Busy \cup {"none", "queued"}
Verdicts     == {"returned", "raised", "cancelled", "gaveup"}

TypeOK ==
    /\ awaiter \in [Jobs -> Verdicts \cup {"idle", "shielded", "grace"}]
    /\ worker \in [Jobs -> WorkerPhases]
    /\ event \in [Jobs -> {"clear", "posted", "set"}]
    /\ cancels \in [Jobs -> 0..2]
    /\ wrote \in [Jobs -> BOOLEAN]
    /\ seen \in [Jobs -> BOOLEAN]

Init ==
    /\ awaiter = [j \in Jobs |-> "idle"]
    /\ worker = [j \in Jobs |-> "none"]
    /\ event = [j \in Jobs |-> "clear"]
    /\ cancels = [j \in Jobs |-> 0]
    /\ wrote = [j \in Jobs |-> FALSE]
    /\ seen = [j \in Jobs |-> FALSE]

Over(j)        == awaiter[j] \in Verdicts
WorkerEnded(j) == worker[j] \in Endings
Occupied       == {j \in Jobs : worker[j] \in Busy}

-----------------------------------------------------------------------------
(* The call                                                                *)

\* run_in_executor queues the wrapper; the coroutine awaits it, shielded.
Enqueue(j) ==
    /\ awaiter[j] = "idle"
    /\ awaiter' = [awaiter EXCEPT ![j] = "shielded"]

Call(j) ==
    /\ Parent[j] = NoJob
    /\ Enqueue(j)
    /\ worker' = [worker EXCEPT ![j] = "queued"]
    /\ UNCHANGED <<event, cancels, wrote, seen>>

\* Fault: an exception of the function never reaches its future, which is what a
\* bare StopIteration does.
DeliverUnlessRaised(j) ==
    /\ awaiter[j] = "shielded"
    /\ WorkerEnded(j) /\ worker[j] # "err"
    /\ awaiter' = [awaiter EXCEPT ![j] =
                     CASE worker[j] = "ok"   -> "returned"
                       [] worker[j] = "lost" -> "cancelled"
                       [] OTHER              -> "raised"]
    /\ event' = [event EXCEPT ![j] =
                     IF worker[j] = "lost" /\ @ = "clear" THEN "posted" ELSE @]
    /\ seen' = [seen EXCEPT ![j] = worker[j] = "ok" /\ j \in Bridged /\ wrote[j]]
    /\ UNCHANGED <<worker, cancels, wrote>>

\* The shielded future is done.  Only here are the worker's ContextVars copied
\* out (_propagate_context_out).  A CancelledError of the worker is taken for
\* one of the caller: the event is set and, the future being done, re-raised.
Deliver(j) ==
    /\ awaiter[j] = "shielded"
    /\ WorkerEnded(j)
    /\ awaiter' = [awaiter EXCEPT ![j] =
                     CASE worker[j] = "ok"   -> "returned"
                       [] worker[j] = "lost" -> "cancelled"
                       [] OTHER              -> "raised"]
    /\ event' = [event EXCEPT ![j] =
                     IF worker[j] = "lost" /\ @ = "clear" THEN "posted" ELSE @]
    /\ seen' = [seen EXCEPT ![j] = worker[j] = "ok" /\ j \in Bridged /\ wrote[j]]
    /\ UNCHANGED <<worker, cancels, wrote>>

\* Fault: the state of the executor's future is taken over as it is.
WithdrawnRaw(j) == IF worker[j] = "queued" THEN "cancelled" ELSE worker[j]

\* What becomes of the pooled function when its future is cancelled: a queued
\* one never runs, a running one is not touched.
Withdrawn(j) == IF worker[j] = "queued" THEN "dropped" ELSE worker[j]

\* Fault: the event is not set.
CancelSilently(j) ==
    /\ awaiter[j] = "shielded"
    /\ cancels' = [cancels EXCEPT ![j] = 1]
    /\ awaiter' = [awaiter EXCEPT ![j] = "grace"]
    /\ UNCHANGED <<worker, event, wrote, seen>>

\* The awaiting coroutine is cancelled: set the event, wait for the worker.
Cancel(j) ==
    /\ awaiter[j] = "shielded"
    /\ cancels' = [cancels EXCEPT ![j] = 1]
    /\ event' = [event EXCEPT ![j] = IF @ = "clear" THEN "posted" ELSE @]
    /\ awaiter' = [awaiter EXCEPT ![j] = "grace"]
    /\ UNCHANGED <<worker, wrote, seen>>

\* Fault: the ContextVars are copied out of a cancelled call too.
AcknowledgeBridges(j) ==
    /\ awaiter[j] = "grace"
    /\ WorkerEnded(j)
    /\ awaiter' = [awaiter EXCEPT ![j] = "cancelled"]
    /\ seen' = [seen EXCEPT ![j] = j \in Bridged /\ wrote[j]]
    /\ UNCHANGED <<worker, event, cancels, wrote>>

\* The worker ended within the grace: its result is discarded and the
\* CancelledError re-raised, but an error of the worker is raised instead, and
\* a TimeoutError of its own is read as the end of the grace.
Acknowledge(j) ==
    /\ awaiter[j] = "grace"
    /\ WorkerEnded(j)
    /\ awaiter' = [awaiter EXCEPT ![j] =
                     CASE worker[j] = "err"        -> "raised"
                       [] worker[j] = "timeouterr" -> "gaveup"
                       [] OTHER                    -> "cancelled"]
    /\ UNCHANGED <<worker, event, cancels, wrote, seen>>

\* Fault: CancelledError is re-raised although the worker did not end.
GiveUpQuietly(j) ==
    /\ awaiter[j] = "grace"
    /\ ~WorkerEnded(j)
    /\ awaiter' = [awaiter EXCEPT ![j] = "cancelled"]
    /\ worker' = [worker EXCEPT ![j] = Withdrawn(j)]
    /\ UNCHANGED <<event, cancels, wrote, seen>>

\* cancel_timeout passed: wait_for cancels the future, KoilError.
GiveUp(j) ==
    /\ awaiter[j] = "grace"
    /\ ~WorkerEnded(j)
    /\ awaiter' = [awaiter EXCEPT ![j] = "gaveup"]
    /\ worker' = [worker EXCEPT ![j] = Withdrawn(j)]
    /\ UNCHANGED <<event, cancels, wrote, seen>>

\* A second cancellation during the grace leaves wait_for at once.
CancelAgain(j) ==
    /\ awaiter[j] = "grace"
    /\ ~WorkerEnded(j)
    /\ cancels' = [cancels EXCEPT ![j] = 2]
    /\ awaiter' = [awaiter EXCEPT ![j] = "cancelled"]
    /\ worker' = [worker EXCEPT ![j] = Withdrawn(j)]
    /\ UNCHANGED <<event, wrote, seen>>

\* The loop runs the posted Event.set.
SetEvent(j) ==
    /\ event[j] = "posted"
    /\ event' = [event EXCEPT ![j] = "set"]
    /\ UNCHANGED <<awaiter, worker, cancels, wrote, seen>>

-----------------------------------------------------------------------------
(* The worker thread                                                       *)

\* A thread of the pool takes the function.
Start(j) ==
    /\ worker[j] = "queued"
    /\ Cardinality(Occupied) < PoolSize
    /\ worker' = [worker EXCEPT ![j] = "running"]
    /\ UNCHANGED <<awaiter, event, cancels, wrote, seen>>

\* The function sets a ContextVar, in the copied context.
WriteContext(j) ==
    /\ worker[j] = "running"
    /\ wrote' = [wrote EXCEPT ![j] = TRUE]
    /\ UNCHANGED <<awaiter, worker, event, cancels, seen>>

\* The function returns or raises (StopIteration as a RuntimeError).
WorkerEnds(j, how) ==
    /\ worker[j] = "running"
    /\ worker' = [worker EXCEPT ![j] = how]
    /\ UNCHANGED <<awaiter, event, cancels, wrote, seen>>

\* koil.sleep: a timer on the loop, polled together with the cancel event.
Sleep(j) ==
    /\ worker[j] = "running"
    /\ worker' = [worker EXCEPT ![j] = "sleeping"]
    /\ UNCHANGED <<awaiter, event, cancels, wrote, seen>>

\* The timer fired and the cancel event was clear at the last poll.
SleepEnds(j) ==
    /\ worker[j] = "sleeping"
    /\ event[j] # "set"
    /\ worker' = [worker EXCEPT ![j] = "running"]
    /\ UNCHANGED <<awaiter, event, cancels, wrote, seen>>

\* check_cancelled, sleep or a refused unkoil raises ThreadCancelledError.
CheckCancelled(j) ==
    /\ worker[j] \in {"running", "sleeping"}
    /\ event[j] = "set"
    /\ worker' = [worker EXCEPT ![j] = "stopped"]
    /\ UNCHANGED <<awaiter, event, cancels, wrote, seen>>

\* The worker of j enters unkoil with a coroutine that calls run_threaded(c).
Nest(j, c) ==
    /\ Parent[c] = j
    /\ worker[j] = "running"
    /\ event[j] # "set"
    /\ Enqueue(c)
    /\ worker' = [worker EXCEPT ![j] = "nested", ![c] = "queued"]
    /\ UNCHANGED <<event, cancels, wrote, seen>>

\* Fault: the nested call does not race the worker's cancel event.
CancelNestedNever(j, c) == FALSE

\* The ambient event of the nested unkoil fires: the nested call is cancelled.
CancelNested(j, c) ==
    /\ Parent[c] = j
    /\ worker[j] = "nested"
    /\ event[j] = "set"
    /\ Cancel(c)

\* The nested call is over and unkoil comes back in the worker, which may let
\* what it raised pass through.
Unnest(j, c) ==
    /\ Parent[c] = j
    /\ worker[j] = "nested"
    /\ Over(c)
    /\ \E next \in CASE awaiter[c] = "returned"  -> {"running"}
                     [] awaiter[c] = "cancelled" -> {"running", "lost"}
                     [] OTHER                    -> {"running", "err"} :
          worker' = [worker EXCEPT ![j] = next]
    /\ UNCHANGED <<awaiter, event, cancels, wrote, seen>>

-----------------------------------------------------------------------------
Return(j) == \E how \in {"ok", "err", "timeouterr"} : WorkerEnds(j, how)

Next ==
    \E j \in Jobs :
        \/ Call(j)
        \/ Deliver(j)
        \/ Cancel(j)
        \/ Acknowledge(j)
        \/ GiveUp(j)
        \/ CancelAgain(j)
        \/ SetEvent(j)
        \/ Start(j)
        \/ WriteContext(j)
        \/ Return(j)
        \/ Sleep(j)
        \/ SleepEnds(j)
        \/ CheckCancelled(j)
        \/ \E c \in Jobs : Nest(j, c) \/ CancelNested(j, c) \/ Unnest(j, c)

Spec == Init /\ [][Next]_vars

\* The loop serves what is ready and its timers, the pool its queue.  Nothing
\* is assumed of the functions the workers run.
LoopFairness ==
    \A j \in Jobs :
        /\ WF_vars(Deliver(j) \/ Acknowledge(j) \/ GiveUp(j) \/ SetEvent(j))
        /\ WF_vars(Start(j))
        /\ \A c \in Jobs : WF_vars(CancelNested(j, c)) /\ WF_vars(Unnest(j, c))

\* The functions end: they neither loop nor sleep for ever.
WorkerFairness ==
    \A j \in Jobs :
        /\ WF_vars(SleepEnds(j) \/ CheckCancelled(j))
        /\ SF_vars(Return(j))

FairSpec == Spec /\ LoopFairness

-----------------------------------------------------------------------------
(* Properties                                                              *)

\* Whatever way a call was left, a worker that outlives it has been told to
\* stop, and a function still in the queue never runs (the except branch of
\* _run_threaded).
OutlivingWorkerIsSignalled ==
    \A j \in Jobs : Over(j) /\ ~WorkerEnded(j) =>
        worker[j] \in Busy /\ event[j] # "clear"

\* A call that ends with CancelledError after one cancellation has seen its
\* worker end; only a second cancellation can cut the wait short.
CancelledOnceIsAcknowledged ==
    \A j \in Jobs : awaiter[j] = "cancelled" /\ ~WorkerEnded(j) => cancels[j] = 2

\* The caller's context takes over what the worker set exactly when the call is
\* a bridged one and returned, however a cancellation raced with the worker's
\* end (the copy at the end of _run_threaded).
ContextComesBackOnlyOnReturn ==
    \A j \in Jobs : seen[j] <=> awaiter[j] = "returned" /\ j \in Bridged /\ wrote[j]

\* What the awaiting coroutine sees of its call, as Settlement puts it.
FutureOf(j) ==
    CASE awaiter[j] = "returned"             -> "value"
      [] awaiter[j] \in {"raised", "gaveup"} -> "error"
      [] awaiter[j] \in {"shielded", "grace"} -> "pending"
      [] OTHER                               -> awaiter[j]

\* A worker is told to stop by its event; one that never ran has no body.
BodyOf(j) ==
    CASE worker[j] \in Busy                    -> IF event[j] = "clear" THEN "running"
                                                                       ELSE "stopping"
      [] worker[j] \in {"queued", "dropped"}   -> "none"
      [] worker[j] \in {"timeouterr", "stopped"} -> "err"
      [] worker[j] = "lost"                    -> "cancelled"
      [] OTHER                                 -> worker[j]

Promise == INSTANCE Settlement WITH
    Calls <- Jobs,
    Announced <- {},
    fut <- [j \in Jobs |-> FutureOf(j)],
    body <- [j \in Jobs |-> BodyOf(j)],
    asked <- {j \in Jobs : cancels[j] > 0}

\* _run_threaded keeps the promise of Settlement, nested calls included.
KeepsPromise == Promise!Spec

\* A cancelled worker gets out of its nested unkoil even if the nested worker
\* never looks at its cancel event: the nested call is cancelled and gives up.
CancelReachesNested ==
    \A j \in Jobs : event[j] # "clear" ~> worker[j] # "nested"

\* Every thread of the default executor is held by a worker that waits in unkoil
\* for a nested call, which itself needs a thread.
PoolExhausted ==
    /\ Cardinality(Occupied) = PoolSize
    /\ \A j \in Occupied : worker[j] = "nested"

\* Running out of threads is the only deadlock of nested calls: unless the pool
\* stays exhausted for good, every call comes to an end if the functions do,
\* through all the ways a nested call or a cancellation can end (_run_threaded).
CallsEndUnlessExhausted ==
    WorkerFairness /\ []<>~PoolExhausted =>
        \A j \in Jobs : awaiter[j] # "idle" ~> Over(j)
=============================================================================
