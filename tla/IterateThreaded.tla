--------------------------- MODULE IterateThreaded ---------------------------
(***************************************************************************)
(* iterate_threaded and iterate_threaded_bridged (koil/bridge.py): an      *)
(* async generator drives a synchronous one, one call of _run_threaded     *)
(* (RunThreaded) per step, on whatever thread of the pool takes it, and    *)
(* one more call to close it when the consumer stops early.                *)
(*                                                                         *)
(* The calls are numbered in the order they are made.  Their awaiter,      *)
(* worker and cancel event are those of RunThreaded; what the two          *)
(* generators add is kept here.  ContextVars play no part in it: a step    *)
(* copies them out or not as its call does.                                *)
(***************************************************************************)
EXTENDS Naturals, Sequences, FiniteSets

CONSTANTS
    MaxCalls,    \* bound: calls of _run_threaded
    NoJob,       \* calls are made from the loop, not from a worker
    PoolSize     \* threads of the default executor

ASSUME MaxCallsAssumption == MaxCalls \in Nat

VARIABLES
    awaiter, worker, event, cancels, wrote, seen,   \* of RunThreaded
    iter,        \* where the async generator is
    ending,      \* how it ended
    got,         \* the values its consumer received
    now,         \* number of the last call
    closing,     \* number of the call that closes the generator, 0 if none
    frame,       \* the frame of the synchronous generator
    produced     \* number of values it yielded

callVars == <<awaiter, worker, event, cancels, wrote, seen>>
iterVars == <<iter, ending, got, now, closing>>
genVars  == <<frame, produced>>
vars     == <<callVars, iterVars, genVars>>

Calls == 1..MaxCalls

T == INSTANCE RunThreaded WITH
    Jobs <- Calls, Parent <- [c \in Calls |-> NoJob], Bridged <- {}

\* A frame is over when it returned, raised or was closed.
FrameOver == {"exhausted", "failed", "closed"}

TypeOK ==
    /\ T!TypeOK
    /\ iter \in {"fresh", "stepping", "yielded", "closing", "ended"}
    /\ ending \in T!Verdicts \cup {"none", "exhausted", "closed", "thrown"}
    /\ got \in Seq(Nat)
    /\ now \in 0..MaxCalls
    /\ closing \in 0..MaxCalls
    /\ frame \in FrameOver \cup {"none", "running", "suspended"}
    /\ produced \in 0..MaxCalls

Init ==
    /\ T!Init
    /\ iter = "fresh"
    /\ ending = "none"
    /\ got = <<>>
    /\ now = 0
    /\ closing = 0
    /\ frame = "none"
    /\ produced = 0

-----------------------------------------------------------------------------
(* The async generator                                                     *)

\* await _run_threaded(step or generator.close).
MakeCall(next) ==
    /\ T!Call(now + 1)
    /\ now' = now + 1
    /\ iter' = next
    /\ UNCHANGED <<ending, got, genVars>>

\* asend(): one step.  The last call is kept for the close.
Asend ==
    /\ iter \in {"fresh", "yielded"}
    /\ now + 1 < MaxCalls
    /\ MakeCall("stepping")
    /\ UNCHANGED closing

\* Fault: the synchronous generator is not closed with the asynchronous one.
AcloseForgets ==
    /\ iter = "yielded"
    /\ iter' = "ended"
    /\ ending' = "closed"
    /\ UNCHANGED <<callVars, got, now, closing, genVars>>

\* aclose(): GeneratorExit at the yield.
Aclose ==
    /\ iter = "yielded"
    /\ MakeCall("closing")
    /\ closing' = now + 1

\* aclose() of a generator that was never started runs nothing, and another
\* exception thrown in at the yield passes through: neither makes a call.
LeaveWithoutCall(how) ==
    /\ \/ iter = "fresh" /\ how = "closed"
       \/ iter = "yielded" /\ how = "thrown"
    /\ iter' = "ended"
    /\ ending' = how
    /\ UNCHANGED <<callVars, got, now, closing, genVars>>

\* Faults: what became of the frame is taken for how the call ended; a step that
\* could not be cancelled is given up and the next one made.
ResumeByFrame ==
    /\ IF frame = "suspended"
         THEN iter' = "yielded" /\ got' = Append(got, produced) /\ UNCHANGED ending
         ELSE iter' = "ended" /\ ending' = frame /\ UNCHANGED got
    /\ UNCHANGED <<now, closing, genVars>>
ResumeRegardless ==
    LET verdict == awaiter'[now] IN
    /\ IF iter = "stepping" /\ verdict \in {"returned", "gaveup"}
         THEN /\ iter' = "yielded"
              /\ got' = IF verdict = "returned" THEN Append(got, produced) ELSE got
              /\ UNCHANGED ending
         ELSE /\ iter' = "ended"
              /\ ending' = verdict
              /\ UNCHANGED got
    /\ UNCHANGED <<now, closing, genVars>>

\* The await comes back with the verdict of the call.  The KoilStopIteration of
\* a step, whatever came before it, is the end of the iteration.
Resume ==
    LET verdict == awaiter'[now] IN
    /\ IF iter = "stepping" /\ verdict = "returned"
         THEN /\ iter' = "yielded"
              /\ got' = Append(got, produced)
              /\ UNCHANGED ending
         ELSE /\ iter' = "ended"
              /\ ending' = CASE iter = "closing" /\ verdict = "returned" -> "closed"
                             [] verdict = "raised" /\ frame = "exhausted" -> "exhausted"
                             [] OTHER -> verdict
              /\ UNCHANGED got
    /\ UNCHANGED <<now, closing, genVars>>

CallEnds ==
    /\ T!Deliver(now) \/ T!Acknowledge(now) \/ T!GiveUp(now) \/ T!CancelAgain(now)
    /\ Resume

\* The task that iterates is cancelled while it awaits the call.
Cancel ==
    /\ T!Cancel(now)
    /\ UNCHANGED <<iterVars, genVars>>

SetEvent(c) ==
    /\ T!SetEvent(c)
    /\ UNCHANGED <<iterVars, genVars>>

-----------------------------------------------------------------------------
(* The worker and the synchronous generator                                *)

\* step() creates the generator the first time and resumes it; close() resumes
\* it with GeneratorExit.
StartCall(c) ==
    /\ T!Start(c)
    /\ frame' = "running"
    /\ UNCHANGED <<iterVars, produced>>

\* The frame yields; in a close that is a RuntimeError.
FrameYields(c) ==
    /\ frame = "running"
    /\ T!WorkerEnds(c, IF c = closing THEN "err" ELSE "ok")
    /\ frame' = "suspended"
    /\ produced' = IF c = closing THEN produced ELSE produced + 1
    /\ UNCHANGED iterVars

\* The frame returns: StopIteration, which step() turns into KoilStopIteration.
FrameReturns(c) ==
    /\ frame = "running"
    /\ T!WorkerEnds(c, IF c = closing THEN "ok" ELSE "err")
    /\ frame' = IF c = closing THEN "closed" ELSE "exhausted"
    /\ UNCHANGED <<iterVars, produced>>

\* The frame, or its cleanup, raises.
FrameRaises(c) ==
    /\ frame = "running"
    /\ \/ \E how \in {"err", "timeouterr"} : T!WorkerEnds(c, how)
       \/ T!CheckCancelled(c)
    /\ frame' = "failed"
    /\ UNCHANGED <<iterVars, produced>>

-----------------------------------------------------------------------------
Next ==
    \/ Asend
    \/ Aclose
    \/ \E how \in {"closed", "thrown"} : LeaveWithoutCall(how)
    \/ now > 0 /\ (CallEnds \/ Cancel)
    \/ \E c \in Calls :
          \/ SetEvent(c)
          \/ StartCall(c)
          \/ FrameYields(c)
          \/ FrameReturns(c)
          \/ FrameRaises(c)

Spec == Init /\ [][Next]_vars

-----------------------------------------------------------------------------
(* Properties                                                              *)

\* The frame is never resumed by two threads: a call is made only when the
\* function of every earlier one has ended, cancelled, timed out or not (each
\* step and the close of _iterate_threaded wait for their worker or end the
\* iteration).
OneThreadInTheFrame ==
    \A c, d \in Calls :
        c < d /\ awaiter[d] # "idle" => worker[c] \in T!Endings

\* The consumer sees every value once and in order; only the value of the step
\* it was cancelled in is lost.  When the iteration ended by itself or was
\* closed the frame is over; it stays behind only after a cancellation, an
\* exception thrown in at the yield, or a frame that yields when it is closed
\* (the except branches of _iterate_threaded).
EndingIsHonest ==
    /\ \A i \in DOMAIN got : got[i] = i
    /\ Len(got) = produced \/ (now > 0 /\ Len(got) + 1 = produced /\ iter # "yielded")
    /\ iter = "ended" /\ Len(got) < produced => cancels[now] > 0
    /\ iter = "ended" /\ frame \in {"running", "suspended"} =>
          \/ ending = "thrown"
          \/ cancels[now] > 0
          \/ ending = "raised" /\ now = closing
    /\ ending \in {"exhausted", "closed"} => frame \in FrameOver \cup {"none"}

\* What run_threaded promises and the cancellation of iterate_threaded is built
\* on: a cancelled caller whose worker acknowledged in time gets its
\* CancelledError.
CancellationIsReported ==
    ending = "exhausted" => cancels[now] = 0
=============================================================================
