-------------------------- MODULE KoilFutureProofs --------------------------
(* Proofs about KoilFuture, for any number of submissions and scopes, any   *)
(* choice of the timed and the signalled ones.                              *)
EXTENDS KoilFuture, TLAPS

USE DEF EventState, TaskPhases, WorkEndings, WorkPhases, Outcomes, Waiters, Racers, CallPhases,
        Askers

-----------------------------------------------------------------------------
(* The inductive invariant, in parts                                       *)

\* The caller's side: nothing is submitted before the call; whoever is in the
\* grace of result(), or gave up, left the future done or signalled.
SignalledToCancel(f) ==
    Done(f) \/ (requested[f] /\ (own[f] # "clear" \/ loop = "closed"))

CallsAgree ==
    \A f \in Futures :
        /\ call[f] \in {"idle", "refused"} => task[f] = "none"
        /\ call[f] = "grace" => SignalledToCancel(f)
        /\ answer[f] \in {"interrupt", "timeout"} => SignalledToCancel(f)

\* Events are set by their owners only.
EventsAgree ==
    /\ \A f \in Futures : own[f] # "clear" => requested[f]
    /\ \A s \in Scopes : ambient[s] # "clear" => s \in torn

\* A waiter that completed, or that won the race, was entitled to; the race has
\* no winner before it is over.
WaitersAgree ==
    \A f \in Futures :
        /\ task[f] = "racing" =>
              /\ "own" \notin waiting[f] => own[f] = "set"
              /\ ScopeOf[f] # NoScope /\ "ambient" \notin waiting[f] => ScopeOf[f] \in torn
        /\ task[f] \in {"none", "posted", "late", "created", "racing"} => finished[f] = {}
        /\ "own" \in finished[f] => own[f] = "set"
        /\ "ambient" \in finished[f] => ScopeOf[f] \in torn
        /\ task[f] \in {"tidying", "unwinding"} =>
              /\ finished[f] # {}
              /\ waiting[f] \subseteq todo[f]

\* The coroutine lives from the start of the race; it is past the tidying only
\* if it ended, let the grace pass or is being gathered by the shutdown.
WorkAgrees ==
    \A f \in Futures :
        /\ task[f] \in {"none", "posted", "late", "created"} => work[f] = "none"
        /\ "work" \in finished[f] =>
              WorkEnded(f) /\ "work" \notin todo[f] /\ task[f] # "unwinding"
        /\ task[f] = "unwinding" =>
              work[f] \notin {"none", "running"} /\ "work" \notin todo[f]
        /\ task[f] \in {"racing", "tidying"} => work[f] # "none"
        /\ (task[f] = "tidying" /\ "work" \notin todo[f]) \/ Ended(f) =>
              (WorkAlive(f) => /\ work[f] = "cancelling"
                               /\ (TimedOut(f) /\ ~ack[f]) \/ f \in tasks)

\* A task that has not ended has no outcome and has emitted nothing; only the
\* shutdown gathers.
EndsAgree ==
    /\ \A f \in Futures : ~Ended(f) =>
          out[f] = "none" /\ emitted[f] = "none" /\ nexts[f] # "late"
    /\ loop = "running" => tasks = {}

Coupling ==
    /\ CallsAgree
    /\ EventsAgree
    /\ WaitersAgree
    /\ WorkAgrees
    /\ EndsAgree

\* The properties that are inductive once the coupling is known; the others
\* are consequences of it.
Claims ==
    /\ OutcomeIsGenuine
    /\ SignalTellsOutcome
    /\ NoLeakedWaiter
    /\ CancellationIsolated
    /\ SignalEndsStream

IInv == TypeOK /\ Coupling /\ Claims

-----------------------------------------------------------------------------
(* Type correctness                                                        *)

\* What passed_with_context ends with is an outcome, what it emits a signal.
LEMMA VerdictType ==
    ASSUME NEW f \in Futures
    PROVE  /\ Verdict(f) \in Outcomes
           /\ Signal(f) \in {"none", "returned", "errored", "cancelled"}
BY DEF Verdict, Signal

\* The waiters of a submission are waiters.
LEMMA WaitersOfType ==
    ASSUME NEW f \in Futures
    PROVE  WaitersOf(f) \subseteq Waiters
BY DEF WaitersOf

\* The shutdown leaves every task in one of its phases.
LEMMA AfterShutdownCancelType ==
    ASSUME TypeOK, NEW f \in Futures, NEW kept
    PROVE  AfterShutdownCancel(f, kept) \in TaskPhases
BY DEF AfterShutdownCancel, TypeOK

\* cancel() keeps the types of the events, in both its steps.
LEMMA CancelType ==
    ASSUME TypeOK, NEW f \in Futures, NEW who \in Askers,
           CancelTest(f, who) \/ CancelSet(f, who)
    PROVE  /\ asking' \in [Futures -> SUBSET Askers]
           /\ requested' \in [Futures -> BOOLEAN]
           /\ own' \in [Futures -> EventState]
           /\ ambient' = ambient
           /\ torn' = torn
<1>1. CASE CancelTest(f, who) BY <1>1 DEF CancelTest, TypeOK
<1>2. CASE CancelSet(f, who)
  <2>1. requested' \in [Futures -> BOOLEAN]
    <3>1. requested' = [requested EXCEPT ![f] = TRUE] BY <1>2 DEF CancelSet
    <3> QED BY <3>1 DEF TypeOK
  <2>2. own' \in [Futures -> EventState] BY <1>2 DEF CancelSet, TypeOK, LoopAlive
  <2>3. asking' \in [Futures -> SUBSET Askers] BY <1>2 DEF CancelSet, TypeOK
  <2> QED BY <1>2, <2>1, <2>2, <2>3 DEF CancelSet
<1> QED BY <1>1, <1>2

\* What is left after the cancel() of result() has its type.
LEMMA AfterCancelType ==
    ASSUME TypeOK, NEW f \in Futures, AfterCancel(f)
    PROVE  /\ call' \in [Futures -> CallPhases]
           /\ answer' \in [Futures -> Outcomes \cup {"none", "interrupt"}]
BY DEF AfterCancel, AfterResult, TypeOK

\* The steps of the calling thread keep the types.
LEMMA CallerTypeOK ==
    ASSUME TypeOK, NEW f \in Futures, Caller(f)
    PROVE  TypeOK'
<1> USE DEF TypeOK, LoopTypeOK, callVars, cancelVars, raceVars, tidyVars, endVars,
            loopVars
<1>1. CASE Unkoil(f) \/ UnkoilTask(f) \/ IterateAsync(f)
  BY <1>1 DEF Unkoil, UnkoilTask, IterateAsync, Submit
<1>2. CASE Cancel(f) \/ CancelEnds(f) BY <1>2, CancelType DEF Cancel, CancelEnds
<1>3. CASE \E bounded \in BOOLEAN : ResultCall(f, bounded) BY <1>3 DEF ResultCall
<1>4. CASE ResultReturns(f)
  <2>1. out[f] \in Outcomes \cup {"none"} OBVIOUS
  <2> QED BY <1>4, <2>1 DEF ResultReturns, AfterResult
<1>5. CASE Expire(f) \/ Interrupt(f) BY <1>5 DEF Expire, Interrupt
<1>6. CASE GraceEnds(f) BY <1>6 DEF GraceEnds, AfterResult
<1>7. CASE ResultCancels(f) BY <1>7, CancelType, AfterCancelType DEF ResultCancels
<1>8. CASE ResultCancelled(f) BY <1>8, CancelType, AfterCancelType DEF ResultCancelled
<1> HIDE DEF TypeOK
<1> QED BY <1>1, <1>2, <1>3, <1>4, <1>5, <1>6, <1>7, <1>8 DEF Caller

\* The steps of the loop for a submission keep the types.
LEMMA BridgeTypeOK ==
    ASSUME TypeOK, NEW f \in Futures, Bridge(f)
    PROVE  TypeOK'
<1> USE DEF TypeOK, LoopTypeOK, callVars, cancelVars, raceVars, tidyVars, endVars,
            loopVars
<1>1. CASE SetOwn(f) BY <1>1 DEF SetOwn
<1>2. CASE CreateTask(f) BY <1>2 DEF CreateTask
<1>3. CASE StartRace(f) BY <1>3, WaitersOfType DEF StartRace
<1>4. CASE \E w \in Waiters : WaiterFires(f, w) BY <1>4 DEF WaiterFires
<1>5. CASE \E w \in Waiters : TidyWaiter(f, w) BY <1>5 DEF TidyWaiter
<1>6. CASE WaitReturns(f)
  <2>1. Fired(f) \subseteq Racers BY WaitersOfType DEF Fired
  <2> QED BY <1>6, <2>1 DEF WaitReturns
<1>7. CASE TidyWork(f) BY <1>7 DEF TidyWork
<1>8. CASE UnwindEnds(f)
  <2>1. CASE work[f] = "err" BY <1>8, <2>1 DEF UnwindEnds
  <2>2. CASE work[f] = "timeouterr"
    <3>1. ack' = [ack EXCEPT ![f] = FALSE] BY <1>8, <2>2 DEF UnwindEnds
    <3>2. ack' \in [Futures -> BOOLEAN] BY <3>1
    <3> QED BY <1>8, <2>2, <3>2 DEF UnwindEnds
  <2>3. CASE work[f] \notin {"err", "timeouterr"}
    <3>1. ack' = ack BY <1>8, <2>3 DEF UnwindEnds
    <3> QED BY <1>8, <2>3, <3>1 DEF UnwindEnds
  <2> QED BY <2>1, <2>2, <2>3
<1>9. CASE GraceExpires(f) BY <1>9 DEF GraceExpires
<1>10. CASE \E delivered \in BOOLEAN : Finish(f, delivered)
  BY <1>10, VerdictType DEF Finish
<1>11. CASE Resolve(f) BY <1>11 DEF Resolve
<1> HIDE DEF TypeOK
<1> QED BY <1>1, <1>2, <1>3, <1>4, <1>5, <1>6, <1>7, <1>8, <1>9, <1>10, <1>11
        DEF Bridge

\* The steps of the coroutine, of the scopes and of the shutdown keep the types.
LEMMA OthersTypeOK ==
    ASSUME TypeOK,
           \/ \E f \in Futures : Coroutine(f)
           \/ \E s \in Scopes : CancelScope(s) \/ SetAmbient(s)
           \/ Shutdown \/ Exit \/ ExitWaits
    PROVE  TypeOK'
<1> USE DEF TypeOK, LoopTypeOK, callVars, cancelVars, raceVars, tidyVars, endVars,
            loopVars
<1>1. CASE \E f \in Futures : Coroutine(f)
  BY <1>1 DEF Coroutine, Yields, WorkEnds, WorkUnwinds
<1>2. CASE \E s \in Scopes : CancelScope(s) \/ SetAmbient(s)
  BY <1>2 DEF CancelScope, SetAmbient
<1>3. ASSUME NEW kept \in SUBSET Keepable, Drain(kept) PROVE TypeOK'
  <2>1. task' \in [Futures -> TaskPhases]
    BY <1>3, AfterShutdownCancelType DEF Drain
  <2> QED BY <1>3, <2>1 DEF Drain, StopRuns
<1>4. CASE GatherReturns \/ LoopCloses
  BY <1>4 DEF GatherReturns, GatherDone, LoopCloses, CloseLoop
<1>5. CASE Exit \/ ExitWaits
  BY <1>5 DEF Exit, ExitCall, ExitWaits, JoinReturns, JoinTimesOut, Abandon
<1> HIDE DEF TypeOK
<1> QED BY <1>1, <1>2, <1>3, <1>4, <1>5 DEF Shutdown

\* Every step keeps the types.
LEMMA NextTypeOK == TypeOK /\ [Next]_vars => TypeOK'
<1>1. TypeOK /\ UNCHANGED vars => TypeOK'
  BY DEF TypeOK, LoopTypeOK, vars, callVars, cancelVars, raceVars, tidyVars,
         endVars, loopVars
<1> QED BY <1>1, CallerTypeOK, BridgeTypeOK, OthersTypeOK DEF Next

\* Type correctness of the model of run_async_sharing_context and its future.
THEOREM TypeCorrect == Spec => []TypeOK
<1>1. Init => TypeOK BY DEF Init, LoopInit, TypeOK, LoopTypeOK
<1> QED BY <1>1, NextTypeOK, PTL DEF Spec

-----------------------------------------------------------------------------
(* The coupling is inductive                                               *)

\* The calling thread keeps the coupling: whoever gives up has signalled first.
LEMMA CallerCoupling ==
    ASSUME IInv, NEW f \in Futures, Caller(f)
    PROVE  Coupling'
<1> USE DEF IInv, TypeOK, LoopTypeOK, Coupling, CallsAgree, EventsAgree,
            WaitersAgree, WorkAgrees, EndsAgree, SignalledToCancel, callVars,
            cancelVars, raceVars, tidyVars, endVars, loopVars, Done, Ended,
            WorkAlive, WorkEnded, TimedOut
<1> USE ScopesAssumption, ScopeOfAssumption, SignalledAssumption, StreamsAssumption
<1>1. CASE Unkoil(f) \/ UnkoilTask(f) \/ IterateAsync(f)
  BY <1>1 DEF Unkoil, UnkoilTask, IterateAsync, Submit, HasKoiledLoop, AmbientSet,
              LoopAlive
<1>2. CASE Cancel(f) BY <1>2 DEF Cancel, CancelTest
<1>9. CASE CancelEnds(f) BY <1>9 DEF CancelEnds, CancelSet, LoopAlive
<1>3. CASE \E bounded \in BOOLEAN : ResultCall(f, bounded) BY <1>3 DEF ResultCall
<1>4. CASE ResultReturns(f) BY <1>4 DEF ResultReturns, AfterResult
<1>5. CASE Expire(f) \/ Interrupt(f) BY <1>5 DEF Expire, Interrupt
<1>6. CASE GraceEnds(f) BY <1>6 DEF GraceEnds, AfterResult
<1>7. CASE ResultCancels(f) BY <1>7 DEF ResultCancels, CancelTest, AfterCancel, AfterResult
<1>8. CASE ResultCancelled(f)
  BY <1>8 DEF ResultCancelled, CancelSet, AfterCancel, AfterResult, LoopAlive
<1> HIDE DEF IInv, Coupling
<1> QED BY <1>1, <1>2, <1>3, <1>4, <1>5, <1>6, <1>7, <1>8, <1>9 DEF Caller

\* The loop keeps the coupling: a waiter fires for its own event only, the race
\* is decided by what has completed, and the coroutine is cancelled and awaited
\* before the task leaves the tidying loop.
LEMMA BridgeCoupling ==
    ASSUME IInv, NEW f \in Futures, Bridge(f)
    PROVE  Coupling'
<1> USE DEF IInv, TypeOK, LoopTypeOK, Coupling, CallsAgree, EventsAgree,
            WaitersAgree, WorkAgrees, EndsAgree, SignalledToCancel, callVars,
            cancelVars, raceVars, tidyVars, endVars, loopVars, Done, Ended,
            WorkAlive, WorkEnded, TimedOut
<1> USE ScopesAssumption, ScopeOfAssumption, SignalledAssumption, StreamsAssumption
<1>1. CASE SetOwn(f) BY <1>1 DEF SetOwn
<1>2. CASE CreateTask(f) BY <1>2 DEF CreateTask
<1>3. CASE StartRace(f) BY <1>3 DEF StartRace, WaitersOf
<1>4. CASE \E w \in Waiters : WaiterFires(f, w)
  <2>1. CallsAgree' BY <1>4 DEF WaiterFires, AmbientSet
  <2>2. EventsAgree' BY <1>4 DEF WaiterFires, AmbientSet
  <2>3. WaitersAgree' BY <1>4 DEF WaiterFires, AmbientSet
  <2>4. WorkAgrees' BY <1>4 DEF WaiterFires, AmbientSet
  <2>5. EndsAgree' BY <1>4 DEF WaiterFires, AmbientSet
  <2> QED BY <2>1, <2>2, <2>3, <2>4, <2>5
<1>5. CASE \E w \in Waiters : TidyWaiter(f, w) BY <1>5 DEF TidyWaiter
<1>6. CASE WaitReturns(f)
  <2>1. CallsAgree' BY <1>6 DEF WaitReturns, Fired, WaitersOf
  <2>2. EventsAgree' BY <1>6 DEF WaitReturns, Fired, WaitersOf
  <2>3. WaitersAgree' BY <1>6 DEF WaitReturns, Fired, WaitersOf
  <2>4. WorkAgrees'
    <3>1. "work" \notin Fired(f) /\ "work" \notin waiting[f] BY WaitersOfType DEF Fired
    <3>2. /\ "work" \in finished'[f] <=> WorkEnded(f)
          /\ "work" \in todo'[f] <=> ~WorkEnded(f)
          /\ task[f] = "racing" /\ task'[f] = "tidying"
      BY <1>6, <3>1 DEF WaitReturns
    <3>3. \A g \in Futures \ {f} :
             finished'[g] = finished[g] /\ todo'[g] = todo[g] /\ task'[g] = task[g]
      BY <1>6 DEF WaitReturns
    <3>4. UNCHANGED <<work, ack, tasks>> BY <1>6 DEF WaitReturns
    <3> QED BY <3>2, <3>3, <3>4
  <2>5. EndsAgree' BY <1>6 DEF WaitReturns, Fired, WaitersOf
  <2> QED BY <2>1, <2>2, <2>3, <2>4, <2>5
<1>7. CASE TidyWork(f) BY <1>7 DEF TidyWork
<1>8. CASE UnwindEnds(f)
  <2>1. CallsAgree' BY <1>8 DEF UnwindEnds
  <2>2. EventsAgree' BY <1>8 DEF UnwindEnds
  <2>3. WaitersAgree' BY <1>8 DEF UnwindEnds
  <2>4. WorkAgrees' BY <1>8 DEF UnwindEnds
  <2>5. EndsAgree' BY <1>8 DEF UnwindEnds
  <2> QED BY <2>1, <2>2, <2>3, <2>4, <2>5
<1>9. CASE GraceExpires(f) BY <1>9 DEF GraceExpires
<1>10. CASE \E delivered \in BOOLEAN : Finish(f, delivered)
  <2>1. CallsAgree' BY <1>10 DEF Finish, Verdict, Signal
  <2>2. EventsAgree' BY <1>10 DEF Finish, Verdict, Signal
  <2>3. WaitersAgree' BY <1>10 DEF Finish, Verdict, Signal
  <2>4. WorkAgrees' BY <1>10 DEF Finish, Verdict, Signal
  <2>5. EndsAgree' BY <1>10 DEF Finish, Verdict, Signal
  <2> QED BY <2>1, <2>2, <2>3, <2>4, <2>5
<1>11. CASE Resolve(f) BY <1>11 DEF Resolve
<1> HIDE DEF IInv, Coupling
<1> QED BY <1>1, <1>2, <1>3, <1>4, <1>5, <1>6, <1>7, <1>8, <1>9, <1>10, <1>11
           DEF Bridge

\* The coroutine, the scopes and the shutdown keep the coupling: whatever the
\* shutdown ends it gathers.
LEMMA OthersCoupling ==
    ASSUME IInv,
           \/ \E f \in Futures : Coroutine(f)
           \/ \E s \in Scopes : CancelScope(s) \/ SetAmbient(s)
           \/ Shutdown \/ Exit \/ ExitWaits \/ UNCHANGED vars
    PROVE  Coupling'
<1> USE DEF IInv, TypeOK, LoopTypeOK, Coupling, CallsAgree, EventsAgree,
            WaitersAgree, WorkAgrees, EndsAgree, SignalledToCancel, callVars,
            cancelVars, raceVars, tidyVars, endVars, loopVars, Done, Ended,
            WorkAlive, WorkEnded, TimedOut
<1> USE ScopesAssumption, ScopeOfAssumption, SignalledAssumption, StreamsAssumption
<1>1. CASE \E f \in Futures : Coroutine(f)
  BY <1>1 DEF Coroutine, Yields, WorkEnds, WorkUnwinds
<1>2. CASE \E s \in Scopes : CancelScope(s) \/ SetAmbient(s)
  BY <1>2 DEF CancelScope, SetAmbient
<1>3. CASE \E kept \in SUBSET Keepable : Drain(kept)
  <2>1. CallsAgree' BY <1>3 DEF Drain, StopRuns, AfterShutdownCancel
  <2>2. EventsAgree' BY <1>3 DEF Drain, StopRuns, AfterShutdownCancel
  <2>3. WaitersAgree' BY <1>3 DEF Drain, StopRuns, AfterShutdownCancel
  <2>4. WorkAgrees' BY <1>3 DEF Drain, StopRuns, AfterShutdownCancel
  <2>5. EndsAgree' BY <1>3 DEF Drain, StopRuns, AfterShutdownCancel
  <2> QED BY <2>1, <2>2, <2>3, <2>4, <2>5
<1>4. CASE GatherReturns \/ LoopCloses
  BY <1>4 DEF GatherReturns, GatherDone, LoopCloses, CloseLoop, LoopAlive
<1>5. CASE Exit \/ ExitWaits
  BY <1>5 DEF Exit, ExitCall, ExitWaits, JoinReturns, JoinTimesOut, Abandon
<1>6. CASE UNCHANGED vars BY <1>6 DEF vars
<1> HIDE DEF IInv, Coupling
<1> QED BY <1>1, <1>2, <1>3, <1>4, <1>5, <1>6 DEF Shutdown

-----------------------------------------------------------------------------
(* The claims are inductive                                                *)

\* The calling thread decides no outcome; a refusal is due to its own scope.
LEMMA CallerClaims ==
    ASSUME IInv, NEW f \in Futures, Caller(f)
    PROVE  Claims'
<1> USE DEF IInv, TypeOK, LoopTypeOK, Coupling, Claims, CallsAgree,
            EventsAgree, WaitersAgree, WorkAgrees, EndsAgree,
            SignalledToCancel, callVars, cancelVars, raceVars, tidyVars,
            endVars, loopVars, Done, Ended, WorkAlive, WorkEnded, TimedOut,
            OutcomeIsGenuine, ByWork, ByDeadline, ByCancel, SignalTellsOutcome,
            NoLeakedWaiter, CancellationIsolated, SignalEndsStream
<1> USE ScopesAssumption, ScopeOfAssumption, SignalledAssumption, StreamsAssumption
<1>1. CASE Unkoil(f) \/ UnkoilTask(f) \/ IterateAsync(f)
  BY <1>1 DEF Unkoil, UnkoilTask, IterateAsync, Submit, HasKoiledLoop, AmbientSet,
              LoopAlive
<1>2. CASE Cancel(f) BY <1>2 DEF Cancel, CancelTest
<1>9. CASE CancelEnds(f) BY <1>9 DEF CancelEnds, CancelSet, LoopAlive
<1>3. CASE \E bounded \in BOOLEAN : ResultCall(f, bounded) BY <1>3 DEF ResultCall
<1>4. CASE ResultReturns(f) BY <1>4 DEF ResultReturns, AfterResult
<1>5. CASE Expire(f) \/ Interrupt(f) BY <1>5 DEF Expire, Interrupt
<1>6. CASE GraceEnds(f) BY <1>6 DEF GraceEnds, AfterResult
<1>7. CASE ResultCancels(f) BY <1>7 DEF ResultCancels, CancelTest, AfterCancel, AfterResult
<1>8. CASE ResultCancelled(f)
  BY <1>8 DEF ResultCancelled, CancelSet, AfterCancel, AfterResult, LoopAlive
<1> HIDE DEF IInv, Claims
<1> QED BY <1>1, <1>2, <1>3, <1>4, <1>5, <1>6, <1>7, <1>8, <1>9 DEF Caller

\* The outcome and the signal of passed_with_context follow from the race.
LEMMA BridgeClaims ==
    ASSUME IInv, NEW f \in Futures, Bridge(f)
    PROVE  Claims'
<1> USE DEF IInv, TypeOK, LoopTypeOK, Coupling, Claims, CallsAgree,
            EventsAgree, WaitersAgree, WorkAgrees, EndsAgree,
            SignalledToCancel, callVars, cancelVars, raceVars, tidyVars,
            endVars, loopVars, Done, Ended, WorkAlive, WorkEnded, TimedOut,
            OutcomeIsGenuine, ByWork, ByDeadline, ByCancel, SignalTellsOutcome,
            NoLeakedWaiter, CancellationIsolated, SignalEndsStream
<1> USE ScopesAssumption, ScopeOfAssumption, SignalledAssumption, StreamsAssumption
<1>1. CASE SetOwn(f) BY <1>1 DEF SetOwn
<1>2. CASE CreateTask(f) BY <1>2 DEF CreateTask
<1>3. CASE StartRace(f) BY <1>3 DEF StartRace, WaitersOf
<1>4. CASE \E w \in Waiters : WaiterFires(f, w)
  BY <1>4 DEF WaiterFires, AmbientSet
<1>5. CASE \E w \in Waiters : TidyWaiter(f, w) BY <1>5 DEF TidyWaiter
<1>6. CASE WaitReturns(f) BY <1>6 DEF WaitReturns, Fired, WaitersOf
<1>7. CASE TidyWork(f) BY <1>7 DEF TidyWork
<1>8. CASE UnwindEnds(f)
  <2>1. OutcomeIsGenuine' BY <1>8 DEF UnwindEnds
  <2>2. SignalTellsOutcome' BY <1>8 DEF UnwindEnds
  <2>3. NoLeakedWaiter' BY <1>8 DEF UnwindEnds
  <2>4. CancellationIsolated' BY <1>8 DEF UnwindEnds
  <2>5. SignalEndsStream' BY <1>8 DEF UnwindEnds
  <2> QED BY <2>1, <2>2, <2>3, <2>4, <2>5
<1>9. CASE GraceExpires(f) BY <1>9 DEF GraceExpires
<1>10. CASE \E delivered \in BOOLEAN : Finish(f, delivered)
  <2>1. OutcomeIsGenuine'
    <3>1. PICK delivered \in BOOLEAN : Finish(f, delivered) BY <1>10
    <3>2. CASE delivered BY <3>1, <3>2 DEF Finish, Verdict
    <3>3. CASE ~delivered
      <4>1. f \in Signalled BY <3>1, <3>3 DEF Finish, Signal
      <4>2. out' = [out EXCEPT ![f] = "error"] /\ emitted' = emitted
        BY <3>1, <3>3 DEF Finish
      <4> QED BY <3>1, <4>1, <4>2 DEF Finish
    <3> QED BY <3>2, <3>3
  <2>2. SignalTellsOutcome' BY <1>10 DEF Finish, Verdict, Signal
  <2>3. NoLeakedWaiter' BY <1>10 DEF Finish, Verdict, Signal
  <2>4. CancellationIsolated' BY <1>10 DEF Finish, Verdict, Signal
  <2>5. SignalEndsStream' BY <1>10 DEF Finish, Verdict, Signal
  <2> QED BY <2>1, <2>2, <2>3, <2>4, <2>5
<1>11. CASE Resolve(f) BY <1>11 DEF Resolve
<1> HIDE DEF IInv, Claims
<1> QED BY <1>1, <1>2, <1>3, <1>4, <1>5, <1>6, <1>7, <1>8, <1>9, <1>10, <1>11
           DEF Bridge

\* The coroutine, the scopes and the shutdown keep the claims: what the shutdown
\* cancels it gathers, and it clears the waiters.
LEMMA OthersClaims ==
    ASSUME IInv,
           \/ \E f \in Futures : Coroutine(f)
           \/ \E s \in Scopes : CancelScope(s) \/ SetAmbient(s)
           \/ Shutdown \/ Exit \/ ExitWaits \/ UNCHANGED vars
    PROVE  Claims'
<1> USE DEF IInv, TypeOK, LoopTypeOK, Coupling, Claims, CallsAgree,
            EventsAgree, WaitersAgree, WorkAgrees, EndsAgree,
            SignalledToCancel, callVars, cancelVars, raceVars, tidyVars,
            endVars, loopVars, Done, Ended, WorkAlive, WorkEnded, TimedOut,
            OutcomeIsGenuine, ByWork, ByDeadline, ByCancel, SignalTellsOutcome,
            NoLeakedWaiter, CancellationIsolated, SignalEndsStream
<1> USE ScopesAssumption, ScopeOfAssumption, SignalledAssumption, StreamsAssumption
<1>1. CASE \E f \in Futures : Coroutine(f)
  BY <1>1 DEF Coroutine, Yields, WorkEnds, WorkUnwinds
<1>2. CASE \E s \in Scopes : CancelScope(s) \/ SetAmbient(s)
  BY <1>2 DEF CancelScope, SetAmbient
<1>3. CASE \E kept \in SUBSET Keepable : Drain(kept)
  <2>1. OutcomeIsGenuine' BY <1>3 DEF Drain, StopRuns, AfterShutdownCancel
  <2>2. SignalTellsOutcome' BY <1>3 DEF Drain, StopRuns, AfterShutdownCancel
  <2>3. NoLeakedWaiter' BY <1>3 DEF Drain, StopRuns, AfterShutdownCancel
  <2>4. CancellationIsolated' BY <1>3 DEF Drain, StopRuns, AfterShutdownCancel
  <2>5. SignalEndsStream' BY <1>3 DEF Drain, StopRuns, AfterShutdownCancel
  <2> QED BY <2>1, <2>2, <2>3, <2>4, <2>5
<1>4. CASE GatherReturns \/ LoopCloses
  BY <1>4 DEF GatherReturns, GatherDone, LoopCloses, CloseLoop, LoopAlive
<1>5. CASE Exit \/ ExitWaits
  BY <1>5 DEF Exit, ExitCall, ExitWaits, JoinReturns, JoinTimesOut, Abandon
<1>6. CASE UNCHANGED vars BY <1>6 DEF vars
<1> HIDE DEF IInv, Claims
<1> QED BY <1>1, <1>2, <1>3, <1>4, <1>5, <1>6 DEF Shutdown

-----------------------------------------------------------------------------
(* The theorems                                                            *)

\* The inductive invariant holds in every state.
LEMMA InductiveInvariant == Spec => []IInv
<1>1. Init => IInv
  <2> SUFFICES ASSUME Init PROVE IInv OBVIOUS
  <2>1. TypeOK BY DEF Init, LoopInit, TypeOK, LoopTypeOK
  <2>2. Coupling
    BY DEF Init, LoopInit, Coupling, CallsAgree, EventsAgree, WaitersAgree,
           WorkAgrees, EndsAgree, Ended
  <2>3. Claims
    BY SignalledAssumption, StreamsAssumption
    DEF Init, Claims, OutcomeIsGenuine, SignalTellsOutcome, NoLeakedWaiter,
        CancellationIsolated, SignalEndsStream, Ended
  <2> QED BY <2>1, <2>2, <2>3 DEF IInv
<1>2. IInv /\ [Next]_vars => IInv'
  <2> SUFFICES ASSUME IInv, [Next]_vars PROVE IInv' OBVIOUS
  <2>1. TypeOK' BY NextTypeOK DEF IInv
  <2>2. Coupling' BY CallerCoupling, BridgeCoupling, OthersCoupling DEF Next
  <2>3. Claims' BY CallerClaims, BridgeClaims, OthersClaims DEF Next
  <2> QED BY <2>1, <2>2, <2>3 DEF IInv
<1> QED BY <1>1, <1>2, PTL DEF Spec

\* A KoilFuture is never done over a coroutine that runs on uncancelled.
THEOREM CoroutinesAreNotOrphaned == Spec => []NoOrphanedCoroutine
<1>1. IInv => NoOrphanedCoroutine
  BY DEF IInv, Coupling, WorkAgrees, NoOrphanedCoroutine, Done, Ended
<1> QED BY <1>1, InductiveInvariant, PTL

\* Cancelling, timing out or interrupting one KoilFuture reaches no other one,
\* however many share a scope.
THEOREM CancellationIsIsolated == Spec => []CancellationIsolated
<1>1. IInv => CancellationIsolated BY DEF IInv, Claims
<1> QED BY <1>1, InductiveInvariant, PTL

\* The outcome of run_async_sharing_context is decided by the coroutine if it
\* finished, else by the deadline, else by the cancel events: a value, a timeout
\* and a cancellation are each reported for their own reason only.
THEOREM OutcomesAreGenuine == Spec => []OutcomeIsGenuine
<1>1. IInv => OutcomeIsGenuine BY DEF IInv, Claims
<1> QED BY <1>1, InductiveInvariant, PTL

\* The terminal signal and the future agree.
THEOREM SignalsTellOutcomes == Spec => []SignalTellsOutcome
<1>1. IInv => SignalTellsOutcome BY DEF IInv, Claims
<1> QED BY <1>1, InductiveInvariant, PTL

\* No value follows the terminal signal of a stream, but from a generator that
\* let the grace pass or that the shutdown waits for.
THEOREM SignalsEndStreams == Spec => []SignalEndsStream
<1>1. IInv => SignalEndsStream BY DEF IInv, Claims
<1> QED BY <1>1, InductiveInvariant, PTL

\* The waiters of a race do not outlive it unless a cleanup raised.
THEOREM WaitersDoNotLeak == Spec => []NoLeakedWaiter
<1>1. IInv => NoLeakedWaiter BY DEF IInv, Claims
<1> QED BY <1>1, InductiveInvariant, PTL

\* result() never leaves behind a task that is not done and not signalled.
THEOREM GivenUpIsAlwaysSignalled == Spec => []GivenUpIsSignalled
<1>1. IInv => GivenUpIsSignalled
  BY DEF IInv, Coupling, CallsAgree, SignalledToCancel, GivenUpIsSignalled, Cancelled
<1> QED BY <1>1, InductiveInvariant, PTL

\* A done future is final: neither its outcome nor its signal changes and no
\* cancellation starts on it; only a cancel() that found it not done may land.
THEOREM DoneStaysFinal == Spec => DoneIsFinal
<1> DEFINE Final == \A f \in Futures : Done(f) =>
                      /\ Done(f)'
                      /\ out'[f] = out[f]
                      /\ emitted'[f] = emitted[f]
                      /\ asking'[f] \subseteq asking[f]
                      /\ requested'[f] # requested[f] => asking[f] # {}
<1>1. ASSUME IInv, [Next]_vars PROVE Final
  <2>0. TypeOK BY <1>1 DEF IInv
  <2> USE <2>0 DEF TypeOK, Done, callVars, cancelVars, raceVars, tidyVars, endVars
  <2>1. ASSUME NEW f \in Futures, Caller(f) PROVE Final
    <3>1. CASE Unkoil(f) \/ UnkoilTask(f) \/ IterateAsync(f)
      <4> USE DEF Unkoil, UnkoilTask, IterateAsync, Submit
      <4>1. ~Done(f) BY <1>1, <3>1 DEF IInv, Coupling, CallsAgree
      <4>2. UNCHANGED <<out, emitted, asking, requested>> BY <3>1
      <4>3. \A g \in Futures \ {f} : task'[g] = task[g] BY <3>1
      <4> QED BY <4>1, <4>2, <4>3
    <3>2. CASE Cancel(f) \/ (ResultCancels(f) /\ CancelTest(f, "result"))
      <4>1. UNCHANGED <<out, emitted, task>> BY <3>2 DEF Cancel, ResultCancels
      <4>2. ~Done(f) /\ requested' = requested
        BY <3>2 DEF Cancel, CancelTest
      <4>3. \A g \in Futures \ {f} : asking'[g] = asking[g]
        BY <3>2 DEF Cancel, CancelTest
      <4> QED BY <4>1, <4>2, <4>3
    <3>5. CASE ResultCancels(f) /\ ~CancelTest(f, "result") BY <3>5 DEF ResultCancels
    <3>6. CASE CancelEnds(f) \/ ResultCancelled(f)
      <4>1. UNCHANGED <<out, emitted, task>> BY <3>6 DEF CancelEnds, ResultCancelled
      <4>2. PICK who \in Askers : who \in asking[f] /\ CancelSet(f, who)
        BY <3>6 DEF CancelEnds, ResultCancelled
      <4>3. /\ \A g \in Futures : asking'[g] \subseteq asking[g]
            /\ \A g \in Futures \ {f} : requested'[g] = requested[g]
        BY <4>2 DEF CancelSet
      <4> QED BY <4>1, <4>2, <4>3
    <3>7. CASE Expire(f) \/ Interrupt(f) BY <3>7 DEF Expire, Interrupt
    <3>3. CASE \E bounded \in BOOLEAN : ResultCall(f, bounded) BY <3>3 DEF ResultCall
    <3>4. CASE ResultReturns(f) \/ GraceEnds(f) BY <3>4 DEF ResultReturns, GraceEnds
    <3> HIDE DEF Final
    <3> QED BY <2>1, <3>1, <3>2, <3>3, <3>4, <3>5, <3>6, <3>7 DEF Caller
  <2>2. ASSUME NEW f \in Futures, Bridge(f) PROVE Final
    <3>1. CASE SetOwn(f) \/ CreateTask(f) \/ StartRace(f)
      BY <3>1 DEF SetOwn, CreateTask, StartRace
    <3>2. CASE \E w \in Waiters : WaiterFires(f, w) \/ TidyWaiter(f, w)
      BY <3>2 DEF WaiterFires, TidyWaiter
    <3>3. CASE WaitReturns(f) \/ TidyWork(f) BY <3>3 DEF WaitReturns, TidyWork
    <3>4. CASE UnwindEnds(f) BY <3>4 DEF UnwindEnds
    <3>5. CASE GraceExpires(f) \/ Resolve(f) BY <3>5 DEF GraceExpires, Resolve
    <3>6. CASE \E delivered \in BOOLEAN : Finish(f, delivered) BY <3>6 DEF Finish
    <3> HIDE DEF Final
    <3> QED BY <2>2, <3>1, <3>2, <3>3, <3>4, <3>5, <3>6 DEF Bridge
  <2>3. CASE \/ \E f \in Futures : Coroutine(f)
             \/ \E s \in Scopes : CancelScope(s) \/ SetAmbient(s)
    BY <2>3 DEF Coroutine, Yields, WorkEnds, WorkUnwinds, CancelScope, SetAmbient
  <2>4. CASE Shutdown \/ Exit \/ ExitWaits
    BY <2>4 DEF Shutdown, Drain, AfterShutdownCancel, GatherReturns, LoopCloses,
                Exit, ExitWaits
  <2>5. CASE UNCHANGED vars BY <2>5 DEF vars
  <2> HIDE DEF Final
  <2> QED BY <1>1, <2>1, <2>2, <2>3, <2>4, <2>5 DEF Next
<1>2. IInv /\ [Next]_vars => [Final]_vars
  <2> HIDE DEF Final
  <2> QED BY <1>1
<1> QED BY <1>2, InductiveInvariant, PTL DEF Spec, DoneIsFinal
-----------------------------------------------------------------------------
(* Shutdown                                                                *)

\* What run_coroutine_threadsafe accepted has a place on the loop, and before
\* __exit__ every place is ahead of the stop; the loop stops only on __exit__.
PlacesAgree ==
    /\ \A f \in Futures :
          /\ Accepted(f) => task[f] # "none"
          /\ exit = "open" => task[f] # "late"
    /\ loop # "running" => exit # "open"

\* A submission ahead of the stop is gathered by the drain, and so done, its
\* coroutine ended, when the drain is over.
Gathered(f) ==
    /\ task[f] \notin {"none", "late"}
    /\ loop # "running" => f \in tasks
    /\ loop \in {"finalizing", "closed"} => Done(f) /\ ~WorkAlive(f)

\* No step but a submission and the drain concerns the places.
LEMMA NextPlaces ==
    ASSUME IInv, PlacesAgree, [Next]_vars
    PROVE  PlacesAgree' /\ \A f \in Futures : Gathered(f) => Gathered(f)'
<1> DEFINE Keeps == PlacesAgree' /\ \A f \in Futures : Gathered(f) => Gathered(f)'
<1> SUFFICES Keeps OBVIOUS
<1>t. TypeOK BY DEF IInv
<1> USE <1>t DEF TypeOK, LoopTypeOK, PlacesAgree, Gathered, callVars, cancelVars,
            raceVars, tidyVars, endVars, loopVars, Accepted, Done, WorkAlive
<1>1. ASSUME NEW f \in Futures, Caller(f) PROVE Keeps
  <2>1. CASE Unkoil(f) \/ UnkoilTask(f) \/ IterateAsync(f)
    <3>1. task[f] = "none"
      BY <2>1 DEF Unkoil, UnkoilTask, IterateAsync, Submit, IInv, Coupling, CallsAgree
    <3> QED BY <2>1, <3>1 DEF Unkoil, UnkoilTask, IterateAsync, Submit
  <2>2. CASE Cancel(f) \/ CancelEnds(f) \/ Expire(f) \/ Interrupt(f)
    BY <2>2 DEF Cancel, CancelEnds, Expire, Interrupt
  <2>5. CASE ResultCancels(f) \/ ResultCancelled(f)
    BY <2>5 DEF ResultCancels, ResultCancelled, AfterCancel, AfterResult
  <2>3. CASE \E bounded \in BOOLEAN : ResultCall(f, bounded) BY <2>3 DEF ResultCall
  <2>4. CASE ResultReturns(f) \/ GraceEnds(f)
    BY <2>4 DEF ResultReturns, GraceEnds, AfterResult
  <2> HIDE DEF Keeps
  <2> QED BY <1>1, <2>1, <2>2, <2>3, <2>4, <2>5 DEF Caller
<1>2. ASSUME NEW f \in Futures, Bridge(f) PROVE Keeps
  <2>1. CASE SetOwn(f) \/ CreateTask(f) \/ StartRace(f)
    BY <2>1 DEF SetOwn, CreateTask, StartRace
  <2>2. CASE \E w \in Waiters : WaiterFires(f, w) \/ TidyWaiter(f, w)
    BY <2>2 DEF WaiterFires, TidyWaiter
  <2>3. CASE WaitReturns(f) \/ TidyWork(f) BY <2>3 DEF WaitReturns, TidyWork
  <2>4. CASE UnwindEnds(f) BY <2>4 DEF UnwindEnds
  <2>5. CASE GraceExpires(f) \/ Resolve(f) BY <2>5 DEF GraceExpires, Resolve
  <2>6. CASE \E delivered \in BOOLEAN : Finish(f, delivered) BY <2>6 DEF Finish
  <2> HIDE DEF Keeps
  <2> QED BY <1>2, <2>1, <2>2, <2>3, <2>4, <2>5, <2>6 DEF Bridge
<1>3. CASE \/ \E f \in Futures : Coroutine(f)
           \/ \E s \in Scopes : CancelScope(s) \/ SetAmbient(s)
  BY <1>3 DEF Coroutine, Yields, WorkEnds, WorkUnwinds, CancelScope, SetAmbient
<1>4. CASE \E kept \in SUBSET Keepable : Drain(kept)
  <2>1. /\ \A f \in Futures : task'[f] \in {"none", "late"} <=> task[f] \in {"none", "late"}
        /\ \A f \in Futures : task'[f] = "none" <=> task[f] = "none"
    BY <1>4 DEF Drain, AfterShutdownCancel
  <2>2. /\ exit # "open" /\ exit' = exit /\ loop' = "draining" /\ call' = call
        /\ tasks' = {f \in Futures : task[f] \notin {"none", "late"}}
    BY <1>4 DEF Drain, StopRuns
  <2> QED BY <2>1, <2>2
<1>5. CASE GatherReturns \/ LoopCloses
  BY <1>5 DEF GatherReturns, GatherDone, LoopCloses, CloseLoop
<1>6. CASE Exit \/ ExitWaits
  BY <1>6 DEF Exit, ExitCall, ExitWaits, JoinReturns, JoinTimesOut, Abandon
<1>7. CASE UNCHANGED vars BY <1>7 DEF vars
<1> HIDE DEF Keeps
<1> QED BY <1>1, <1>2, <1>3, <1>4, <1>5, <1>6, <1>7 DEF Next, Shutdown

\* The places agree in every state.
LEMMA PlacesInvariant == Spec => [](IInv /\ PlacesAgree)
<1>1. Init => PlacesAgree BY DEF Init, LoopInit, PlacesAgree, Accepted
<1>2. IInv /\ PlacesAgree /\ [Next]_vars => PlacesAgree' BY NextPlaces
<1> QED BY <1>1, <1>2, InductiveInvariant, PTL DEF Spec

\* Whatever was accepted before __exit__ is done, and its coroutine has ended,
\* once the loop is closed, however long the drain takes and whatever is
\* submitted during it.
THEOREM ExitSettles == Spec => ExitSettlesSubmissions
<1> SUFFICES ASSUME NEW f \in Futures
             PROVE  Spec => [](Accepted(f) /\ exit = "open" =>
                                 [](loop = "closed" => Done(f) /\ ~WorkAlive(f)))
  BY DEF ExitSettlesSubmissions
<1> DEFINE Early == Accepted(f) /\ exit = "open"
           Settled == loop = "closed" => Done(f) /\ ~WorkAlive(f)
           G == Gathered(f)
<1>1. IInv /\ PlacesAgree /\ [Next]_vars => (G => G')
  BY NextPlaces
<1>2. PlacesAgree /\ Early => G
  BY DEF PlacesAgree, Gathered
<1>3. G => Settled BY DEF Gathered
<1> HIDE DEF Early, Settled, G
<1>4. Spec => [](Early => []Settled)
  BY <1>1, <1>2, <1>3, PlacesInvariant, PTL DEF Spec
<1> QED BY <1>4 DEF Early, Settled
=============================================================================
