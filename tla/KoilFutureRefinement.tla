------------------------ MODULE KoilFutureRefinement ------------------------
(* KoilFuture implements Settlement, for any number of submissions and      *)
(* scopes: the race, the tidying loop, the grace and the shutdown of        *)
(* run_async_sharing_context amount to the steps of a call that is asked to *)
(* stop, whose body ends and that is settled once.                          *)
EXTENDS KoilFutureProofs

USE DEF EventState, TaskPhases, WorkEndings, WorkPhases, Outcomes, Waiters, Racers, CallPhases,
        Askers

-----------------------------------------------------------------------------
(* What the mapping needs beside the invariant of KoilFutureProofs         *)

\* What ended has an outcome.
MappingAgrees == \A f \in Futures : Ended(f) => out[f] # "none"

\* Every step keeps it so.
LEMMA NextMapping == IInv /\ MappingAgrees /\ [Next]_vars => MappingAgrees'
<1> SUFFICES ASSUME IInv, MappingAgrees, [Next]_vars PROVE MappingAgrees' OBVIOUS
<1> USE DEF IInv, TypeOK, LoopTypeOK, MappingAgrees, callVars, cancelVars, raceVars,
            tidyVars, endVars, loopVars, Ended
<1>1. ASSUME NEW f \in Futures, Caller(f) PROVE MappingAgrees'
  <2>1. CASE Unkoil(f) \/ UnkoilTask(f) \/ IterateAsync(f)
    <3>1. task[f] = "none"
      BY <2>1 DEF Unkoil, UnkoilTask, IterateAsync, Submit, Coupling, CallsAgree
    <3> QED BY <2>1, <3>1 DEF Unkoil, UnkoilTask, IterateAsync, Submit
  <2>2. CASE Cancel(f) \/ CancelEnds(f) \/ Expire(f) \/ Interrupt(f)
    BY <2>2 DEF Cancel, CancelEnds, Expire, Interrupt
  <2>5. CASE ResultCancels(f) \/ ResultCancelled(f)
    BY <2>5 DEF ResultCancels, ResultCancelled
  <2>3. CASE \E bounded \in BOOLEAN : ResultCall(f, bounded) BY <2>3 DEF ResultCall
  <2>4. CASE ResultReturns(f) \/ GraceEnds(f) BY <2>4 DEF ResultReturns, GraceEnds
  <2> HIDE DEF MappingAgrees
  <2> QED BY <1>1, <2>1, <2>2, <2>3, <2>4, <2>5 DEF Caller
<1>2. ASSUME NEW f \in Futures, Bridge(f) PROVE MappingAgrees'
  <2>1. CASE SetOwn(f) \/ CreateTask(f) \/ StartRace(f)
    BY <2>1 DEF SetOwn, CreateTask, StartRace
  <2>2. CASE \E w \in Waiters : WaiterFires(f, w) \/ TidyWaiter(f, w)
    BY <2>2 DEF WaiterFires, TidyWaiter
  <2>3. CASE WaitReturns(f) \/ TidyWork(f) BY <2>3 DEF WaitReturns, TidyWork
  <2>4. CASE UnwindEnds(f) BY <2>4 DEF UnwindEnds
  <2>5. CASE GraceExpires(f) \/ Resolve(f) BY <2>5 DEF GraceExpires, Resolve
  <2>6. CASE \E delivered \in BOOLEAN : Finish(f, delivered)
    BY <2>6, VerdictType DEF Finish
  <2> HIDE DEF MappingAgrees
  <2> QED BY <1>2, <2>1, <2>2, <2>3, <2>4, <2>5, <2>6 DEF Bridge
<1>3. CASE \/ \E f \in Futures : Coroutine(f)
           \/ \E s \in Scopes : CancelScope(s) \/ SetAmbient(s)
  BY <1>3 DEF Coroutine, Yields, WorkEnds, WorkUnwinds, CancelScope, SetAmbient
<1>4. CASE \E kept \in SUBSET Keepable : Drain(kept)
  BY <1>4 DEF Drain, StopRuns, AfterShutdownCancel
<1>5. CASE GatherReturns \/ LoopCloses \/ Exit \/ ExitWaits
  BY <1>5 DEF GatherReturns, GatherDone, LoopCloses, CloseLoop, Exit, ExitCall,
              ExitWaits, JoinReturns, JoinTimesOut, Abandon
<1>6. CASE UNCHANGED vars BY <1>6 DEF vars
<1> HIDE DEF MappingAgrees, IInv
<1> QED BY <1>1, <1>2, <1>3, <1>4, <1>5, <1>6 DEF Next, Shutdown

\* The mapping is sound in every state.
LEMMA MappingInvariant == Spec => [](IInv /\ PlacesAgree /\ MappingAgrees)
<1>1. Init => MappingAgrees BY DEF Init, LoopInit, MappingAgrees, Ended
<1> QED BY <1>1, NextMapping, PlacesInvariant, PTL DEF Spec

-----------------------------------------------------------------------------
(* The steps of Settlement, in terms of the mapping                        *)

\* A step that leaves a submission as its caller and its coroutine see it.
LEMMA StuttersAgree ==
    ASSUME \A g \in Futures : /\ FutureOf(g)' = FutureOf(g)
                              /\ BodyOf(g)' = BodyOf(g)
                              /\ AskedToStop(g)' <=> AskedToStop(g)
    PROVE  UNCHANGED Promise!vars
BY DEF Promise!vars

\* A step that accepts one submission.
LEMMA OpensOne ==
    ASSUME NEW f \in Futures, FutureOf(f) = "idle", FutureOf(f)' = "pending",
           \A g \in Futures \ {f} : FutureOf(g)' = FutureOf(g),
           \A g \in Futures : BodyOf(g)' = BodyOf(g),
           \A g \in Futures : AskedToStop(g)' <=> AskedToStop(g)
    PROVE  Promise!Next
<1>1. Promise!Open(f) BY DEF Promise!Open
<1> QED BY <1>1 DEF Promise!Next

\* A step in which one coroutine begins.
LEMMA BeginsOne ==
    ASSUME NEW f \in Futures, FutureOf(f) = "pending", BodyOf(f) = "none",
           BodyOf(f)' = "running",
           \A g \in Futures : FutureOf(g)' = FutureOf(g),
           \A g \in Futures \ {f} : BodyOf(g)' = BodyOf(g),
           \A g \in Futures : AskedToStop(g)' <=> AskedToStop(g)
    PROVE  Promise!Next
<1>1. Promise!Begin(f, "running") BY DEF Promise!Begin
<1> QED BY <1>1 DEF Promise!Next, Promise!Live

\* A step in which one coroutine ends.
LEMMA EndsOne ==
    ASSUME NEW f \in Futures, NEW how \in {"ok", "err", "cancelled"},
           BodyOf(f) \in {"running", "stopping"}, BodyOf(f)' = how,
           \A g \in Futures : FutureOf(g)' = FutureOf(g),
           \A g \in Futures \ {f} : BodyOf(g)' = BodyOf(g),
           \A g \in Futures : AskedToStop(g)' <=> AskedToStop(g)
    PROVE  Promise!Next
<1>1. Promise!End(f, how) BY DEF Promise!End, Promise!Live
<1>2. how \in Promise!Ends BY DEF Promise!Ends
<1> QED BY <1>1, <1>2 DEF Promise!Next

\* A step that resolves one future with a genuine outcome.
LEMMA SettlesOne ==
    ASSUME NEW f \in Futures, NEW how \in Outcomes,
           FutureOf(f) = "pending", FutureOf(f)' = how, BodyOf(f) # "running",
           how = "value" => BodyOf(f) = "ok",
           how = "error" => BodyOf(f) = "err" \/ f \in Signalled,
           how = "cancelled" => BodyOf(f) = "cancelled" \/ AskedToStop(f),
           how = "timeout" => AskedToStop(f),
           \A g \in Futures \ {f} : FutureOf(g)' = FutureOf(g),
           \A g \in Futures : BodyOf(g)' = BodyOf(g),
           \A g \in Futures : AskedToStop(g)' <=> AskedToStop(g)
    PROVE  Promise!Next
<1>1. Promise!Settle(f, how) BY DEF Promise!Settle, Promise!Genuine
<1>2. how \in Promise!Outcomes BY DEF Promise!Outcomes
<1> QED BY <1>1, <1>2 DEF Promise!Next

\* A step that asks more submissions to stop, or tells the running coroutines
\* of some that were asked, or both.
LEMMA Asks ==
    ASSUME NEW told \in SUBSET Futures,
           \A g \in Futures : FutureOf(g)' = FutureOf(g),
           \A g \in Futures : BodyOf(g)' =
               IF g \in told /\ BodyOf(g) = "running" THEN "stopping" ELSE BodyOf(g),
           \A g \in Futures : AskedToStop(g) => AskedToStop(g)',
           \A g \in told : AskedToStop(g)'
    PROVE  Promise!Next
<1>1. Promise!Ask(told) BY DEF Promise!Ask
<1> QED BY <1>1 DEF Promise!Next

\* A step that asks, and tells no coroutine yet.
LEMMA OnlyAsks ==
    ASSUME \A g \in Futures : FutureOf(g)' = FutureOf(g) /\ BodyOf(g)' = BodyOf(g),
           \A g \in Futures : AskedToStop(g) => AskedToStop(g)'
    PROVE  Promise!Next
<1>1. {} \in SUBSET Futures OBVIOUS
<1> QED BY <1>1, Asks

\* The state a step leaves alone shows the same under the mapping.
LEMMA SameFutures ==
    ASSUME UNCHANGED <<call, task, out>>
    PROVE  \A g \in Futures : FutureOf(g)' = FutureOf(g)
BY DEF FutureOf, Done, Accepted

LEMMA SameBodies ==
    ASSUME UNCHANGED work
    PROVE  \A g \in Futures : BodyOf(g)' = BodyOf(g)
BY DEF BodyOf

LEMMA SameAsked ==
    ASSUME UNCHANGED <<requested, torn, finished, exit>>
    PROVE  \A g \in Futures : AskedToStop(g)' <=> AskedToStop(g)
BY DEF AskedToStop, TimedOut

-----------------------------------------------------------------------------
(* Every step of KoilFuture is a step of Settlement or a stutter           *)

\* The calling thread opens submissions and asks for their cancellation.
LEMMA CallerPromise ==
    ASSUME IInv, NEW f \in Futures, Caller(f)
    PROVE  Promise!Next \/ UNCHANGED Promise!vars
<1>t. TypeOK BY DEF IInv
<1> USE DEF callVars, cancelVars, raceVars, tidyVars, endVars, loopVars
<1>1. ASSUME NEW next \in {"waiting", "held"}, Submit(f, next)
      PROVE  Promise!Next \/ UNCHANGED Promise!vars
  <2>1. /\ \A g \in Futures : BodyOf(g)' = BodyOf(g)
        /\ \A g \in Futures : AskedToStop(g)' <=> AskedToStop(g)
    BY <1>1, SameBodies, SameAsked DEF Submit
  <2>2. call[f] = "idle" /\ task[f] = "none"
    BY <1>1 DEF Submit, IInv, Coupling, CallsAgree
  <2>3. \A g \in Futures \ {f} : FutureOf(g)' = FutureOf(g)
    BY <1>1, <1>t DEF Submit, TypeOK, FutureOf, Done, Accepted
  <2>4. FutureOf(f) = "idle" BY <2>2 DEF FutureOf, Done, Accepted
  <2>5. FutureOf(f)' \in {"idle", "pending"}
    BY <1>1, <1>t, <2>2 DEF Submit, TypeOK, FutureOf, Done, Accepted
  <2> QED BY <2>1, <2>3, <2>4, <2>5, OpensOne, StuttersAgree
<1>2. CASE Unkoil(f) \/ UnkoilTask(f) \/ IterateAsync(f)
  BY <1>1, <1>2 DEF Unkoil, UnkoilTask, IterateAsync
<1>3. CASE CancelEnds(f) \/ ResultCancelled(f)
  <2>1. \A g \in Futures : FutureOf(g)' = FutureOf(g)
    BY <1>3, <1>t DEF CancelEnds, ResultCancelled, AfterCancel, AfterResult, TypeOK,
                      FutureOf, Done, Accepted
  <2>2. \A g \in Futures : BodyOf(g)' = BodyOf(g)
    BY <1>3, SameBodies DEF CancelEnds, ResultCancelled
  <2>3. PICK who \in Askers : CancelSet(f, who)
    BY <1>3 DEF CancelEnds, ResultCancelled
  <2>4. torn' = torn /\ UNCHANGED <<finished, exit>>
    BY <1>3, <2>3 DEF CancelSet, CancelEnds, ResultCancelled
  <2>5. \A g \in Futures : requested[g] => requested'[g]
    <3>1. requested' = [requested EXCEPT ![f] = TRUE] BY <2>3 DEF CancelSet
    <3> QED BY <3>1, <1>t DEF TypeOK
  <2>6. \A g \in Futures : AskedToStop(g) => AskedToStop(g)'
    BY <2>4, <2>5 DEF AskedToStop, TimedOut
  <2> QED BY <2>1, <2>2, <2>6, OnlyAsks
<1>5. CASE Cancel(f) \/ Expire(f) \/ Interrupt(f) \/ ResultCancels(f)
  <2>1. \A g \in Futures : FutureOf(g)' = FutureOf(g)
    BY <1>5, <1>t DEF Cancel, Expire, Interrupt, ResultCancels, AfterCancel, AfterResult,
                      TypeOK, FutureOf, Done, Accepted
  <2>2. UNCHANGED <<work, requested, torn, finished, exit>>
    BY <1>5 DEF Cancel, CancelTest, Expire, Interrupt, ResultCancels
  <2> QED BY <2>1, <2>2, SameBodies, SameAsked, StuttersAgree
<1>4. CASE (\E bounded \in BOOLEAN : ResultCall(f, bounded)) \/ ResultReturns(f)
           \/ GraceEnds(f)
  <2>1. \A g \in Futures : FutureOf(g)' = FutureOf(g)
    BY <1>4, <1>t DEF ResultCall, ResultReturns, GraceEnds, AfterResult, TypeOK,
                      FutureOf, Done, Accepted
  <2>2. UNCHANGED <<work, requested, torn, finished, exit>>
    BY <1>4 DEF ResultCall, ResultReturns, GraceEnds
  <2> QED BY <2>1, <2>2, SameBodies, SameAsked, StuttersAgree
<1> QED BY <1>2, <1>3, <1>4, <1>5 DEF Caller

\* Of the steps of passed_with_context one begins the body, one ends the race,
\* one tells the body to stop and one settles; the rest is bookkeeping.
LEMMA BridgePromise ==
    ASSUME IInv, PlacesAgree, MappingAgrees, NEW f \in Futures, Bridge(f)
    PROVE  Promise!Next \/ UNCHANGED Promise!vars
<1>t. TypeOK BY DEF IInv
<1> USE DEF callVars, cancelVars, raceVars, tidyVars, endVars, loopVars
<1>1. ASSUME /\ \A g \in Futures : FutureOf(g)' = FutureOf(g)
             /\ UNCHANGED <<work, requested, torn, finished, exit>>
      PROVE  UNCHANGED Promise!vars
  BY <1>1, SameBodies, SameAsked, StuttersAgree
<1>2. CASE SetOwn(f) \/ (\E w \in Waiters : WaiterFires(f, w) \/ TidyWaiter(f, w))
  BY <1>1, <1>2, SameFutures DEF SetOwn, WaiterFires, TidyWaiter
<1>3. CASE CreateTask(f) \/ GraceExpires(f)
  <2>1. \A g \in Futures : FutureOf(g)' = FutureOf(g)
    BY <1>3, <1>t DEF CreateTask, GraceExpires, TypeOK, FutureOf, Done, Accepted
  <2>2. UNCHANGED <<work, requested, torn, finished, exit>>
    BY <1>3 DEF CreateTask, GraceExpires
  <2> QED BY <1>1, <2>1, <2>2
<1>4. CASE UnwindEnds(f) \/ (\E delivered \in BOOLEAN : Finish(f, delivered))
  <2>1. \A g \in Futures : FutureOf(g)' = FutureOf(g)
    BY <1>4, <1>t DEF UnwindEnds, Finish, TypeOK, FutureOf, Done, Accepted
  <2>2. UNCHANGED <<work, requested, torn, finished, exit>>
    BY <1>4 DEF UnwindEnds, Finish
  <2> QED BY <1>1, <2>1, <2>2
<1>5. CASE StartRace(f)
  <2>1. \A g \in Futures : FutureOf(g)' = FutureOf(g)
    BY <1>5, <1>t DEF StartRace, TypeOK, FutureOf, Done, Accepted
  <2>2. FutureOf(f) = "pending" /\ work[f] = "none"
    BY <1>5 DEF StartRace, FutureOf, Done, Accepted, IInv, Coupling, CallsAgree, WorkAgrees
  <2>3. /\ \A g \in Futures \ {f} : BodyOf(g)' = BodyOf(g)
        /\ BodyOf(f) = "none" /\ BodyOf(f)' = "running"
    BY <1>5, <1>t, <2>2 DEF StartRace, TypeOK, BodyOf
  <2>4. \A g \in Futures : AskedToStop(g)' <=> AskedToStop(g)
    BY <1>5, SameAsked DEF StartRace
  <2> QED BY <2>1, <2>2, <2>3, <2>4, BeginsOne
<1>6. CASE WaitReturns(f)
  <2>1. \A g \in Futures : FutureOf(g)' = FutureOf(g)
    BY <1>6, <1>t DEF WaitReturns, TypeOK, FutureOf, Done, Accepted
  <2>2. \A g \in Futures : BodyOf(g)' = BodyOf(g)
    BY <1>6, SameBodies DEF WaitReturns
  <2>3. \A g \in Futures : TimedOut(g) => TimedOut(g)'
    BY <1>6, <1>t DEF WaitReturns, TypeOK, TimedOut, IInv, Coupling, WaitersAgree
  <2>4. UNCHANGED <<requested, torn, exit>> BY <1>6 DEF WaitReturns
  <2>5. \A g \in Futures : AskedToStop(g) => AskedToStop(g)'
    BY <2>3, <2>4 DEF AskedToStop
  <2> QED BY <2>1, <2>2, <2>5, OnlyAsks
<1>7. CASE TidyWork(f)
  <2>1. \A g \in Futures : FutureOf(g)' = FutureOf(g)
    BY <1>7, <1>t DEF TidyWork, TypeOK, FutureOf, Done, Accepted
  <2>2. \A g \in Futures : BodyOf(g)' =
           IF g \in {f} /\ BodyOf(g) = "running" THEN "stopping" ELSE BodyOf(g)
    BY <1>7, <1>t DEF TidyWork, TypeOK, BodyOf
  <2>3. \A g \in Futures : AskedToStop(g)' <=> AskedToStop(g)
    BY <1>7, SameAsked DEF TidyWork
  <2>4. finished[f] # {} /\ "work" \notin finished[f] /\ finished[f] \subseteq Racers
    BY <1>7, <1>t DEF TidyWork, TypeOK, IInv, Coupling, WaitersAgree, WorkAgrees
  <2>5. requested[f] \/ ScopeOf[f] \in torn \/ TimedOut(f)
    BY <2>4 DEF IInv, Coupling, WaitersAgree, EventsAgree, TimedOut
  <2>6. AskedToStop(f) BY <2>5 DEF AskedToStop
  <2>7. \A g \in {f} : AskedToStop(g)' BY <2>3, <2>6
  <2>8. {f} \in SUBSET Futures OBVIOUS
  <2> QED BY <2>1, <2>2, <2>3, <2>7, <2>8, Asks
<1>8. CASE Resolve(f)
  <2>1. /\ \A g \in Futures \ {f} : FutureOf(g)' = FutureOf(g)
        /\ FutureOf(f)' = out[f]
    BY <1>8, <1>t DEF Resolve, TypeOK, FutureOf, Done, Accepted
  <2>2. FutureOf(f) = "pending"
    BY <1>8 DEF Resolve, FutureOf, Done, Accepted, IInv, Coupling, CallsAgree
  <2>3. /\ \A g \in Futures : BodyOf(g)' = BodyOf(g)
        /\ \A g \in Futures : AskedToStop(g)' <=> AskedToStop(g)
    BY <1>8, SameBodies, SameAsked DEF Resolve
  <2>4. Ended(f) BY <1>8 DEF Resolve, Ended
  <2>5. out[f] \in Outcomes BY <1>t, <2>4 DEF TypeOK, MappingAgrees
  <2>6. BodyOf(f) # "running"
    BY <2>4 DEF IInv, Coupling, WorkAgrees, WorkAlive, BodyOf
  <2>7. /\ out[f] = "value" => BodyOf(f) = "ok"
        /\ out[f] = "error" => BodyOf(f) = "err" \/ f \in Signalled
        /\ out[f] = "timeout" => TimedOut(f)
    BY <2>4 DEF IInv, Claims, OutcomeIsGenuine, ByWork, ByDeadline, BodyOf
  <2>8. out[f] = "cancelled" =>
           BodyOf(f) = "cancelled" \/ requested[f] \/ ScopeOf[f] \in torn \/ exit # "open"
    <3>1. f \in tasks => exit # "open"
      BY DEF IInv, Coupling, EndsAgree, PlacesAgree
    <3> QED BY <3>1 DEF IInv, Claims, CancellationIsolated, BodyOf
  <2>9. /\ out[f] = "cancelled" => BodyOf(f) = "cancelled" \/ AskedToStop(f)
        /\ out[f] = "timeout" => AskedToStop(f)
    BY <2>7, <2>8 DEF AskedToStop
  <2> QED BY <2>1, <2>2, <2>3, <2>5, <2>6, <2>7, <2>9, SettlesOne
<1> QED BY <1>2, <1>3, <1>4, <1>5, <1>6, <1>7, <1>8 DEF Bridge

\* The coroutine ends its body; the scopes and __exit__ ask; the drain tells.
LEMMA OthersPromise ==
    ASSUME IInv,
           \/ \E f \in Futures : Coroutine(f)
           \/ \E s \in Scopes : CancelScope(s) \/ SetAmbient(s)
           \/ Shutdown \/ Exit \/ ExitWaits \/ UNCHANGED vars
    PROVE  Promise!Next \/ UNCHANGED Promise!vars
<1>t. TypeOK BY DEF IInv
<1> USE DEF callVars, cancelVars, raceVars, tidyVars, endVars, loopVars
<1>1. ASSUME UNCHANGED <<call, task, out, work, requested, torn, finished, exit>>
      PROVE  UNCHANGED Promise!vars
  BY <1>1, SameFutures, SameBodies, SameAsked, StuttersAgree
<1>2. ASSUME NEW f \in Futures, NEW how \in WorkEndings, WorkEnds(f, how) \/ WorkUnwinds(f, how)
      PROVE  Promise!Next
  <2>1. /\ \A g \in Futures : FutureOf(g)' = FutureOf(g)
        /\ \A g \in Futures : AskedToStop(g)' <=> AskedToStop(g)
    BY <1>2, SameFutures, SameAsked DEF WorkEnds, WorkUnwinds
  <2>2. /\ BodyOf(f) \in {"running", "stopping"}
        /\ BodyOf(f)' \in {"ok", "err", "cancelled"}
        /\ \A g \in Futures \ {f} : BodyOf(g)' = BodyOf(g)
    BY <1>2, <1>t DEF WorkEnds, WorkUnwinds, TypeOK, BodyOf
  <2> QED BY <2>1, <2>2, EndsOne
<1>3. CASE \E f \in Futures : Yields(f) BY <1>1, <1>3 DEF Yields
<1>4. CASE \E s \in Scopes : CancelScope(s)
  <2>1. UNCHANGED <<call, task, out, work, requested, finished, exit>> /\ torn \subseteq torn'
    BY <1>4 DEF CancelScope
  <2>2. \A g \in Futures : AskedToStop(g) => AskedToStop(g)'
    BY <2>1 DEF AskedToStop, TimedOut
  <2> QED BY <2>1, <2>2, SameFutures, SameBodies, OnlyAsks
<1>5. CASE \E s \in Scopes : SetAmbient(s) BY <1>1, <1>5 DEF SetAmbient
<1>6. ASSUME NEW kept \in SUBSET Keepable, Drain(kept) PROVE Promise!Next
  <2>1. \A g \in Futures : task'[g] = "resolved" <=> task[g] = "resolved"
    BY <1>6 DEF Drain, AfterShutdownCancel
  <2>2. /\ call' = call
        /\ \A g \in Futures : task[g] = "resolved" => out'[g] = out[g]
    BY <1>6 DEF Drain
  <2>3. \A g \in Futures : FutureOf(g)' = FutureOf(g)
    BY <2>1, <2>2 DEF FutureOf, Done, Accepted
  <2>4. \A g \in Futures : work'[g] = IF work[g] = "running" THEN "cancelling" ELSE work[g]
    BY <1>6 DEF Drain
  <2>5. \A g \in Futures : BodyOf(g)' =
           IF g \in Futures /\ BodyOf(g) = "running" THEN "stopping" ELSE BodyOf(g)
    BY <2>4 DEF BodyOf
  <2>6. \A g \in Futures : AskedToStop(g) /\ AskedToStop(g)'
    BY <1>6 DEF Drain, StopRuns, AskedToStop
  <2>7. Futures \in SUBSET Futures OBVIOUS
  <2> QED BY <2>3, <2>5, <2>6, <2>7, Asks
<1>7. CASE GatherReturns \/ LoopCloses
  BY <1>1, <1>7 DEF GatherReturns, GatherDone, LoopCloses, CloseLoop
<1>8. CASE Exit \/ ExitWaits
  <2>1. UNCHANGED <<call, task, out, work, requested, torn, finished>> /\ exit' # "open"
    BY <1>8 DEF Exit, ExitCall, ExitWaits, JoinReturns, JoinTimesOut, Abandon
  <2>2. \A g \in Futures : AskedToStop(g) => AskedToStop(g)'
    BY <2>1 DEF AskedToStop
  <2> QED BY <2>1, <2>2, SameFutures, SameBodies, OnlyAsks
<1>9. CASE UNCHANGED vars BY <1>1, <1>9 DEF vars
<1> QED BY <1>2, <1>3, <1>4, <1>5, <1>6, <1>7, <1>8, <1>9 DEF Coroutine, Shutdown

\* run_async_sharing_context keeps the promise of Settlement for any submissions,
\* scopes, deadlines and signals: a future is settled once, with a genuine
\* outcome, and never over a coroutine that runs on without having been asked to
\* stop, whatever the shutdown cuts into.
THEOREM ImplementsSettlement == Spec => KeepsPromise
<1>1. Init => Promise!Init
  <2> SUFFICES ASSUME Init PROVE Promise!Init OBVIOUS
  <2>1. \A f \in Futures : FutureOf(f) = "idle" /\ BodyOf(f) = "none"
    BY DEF Init, FutureOf, BodyOf, Done, Accepted
  <2>2. \A f \in Futures : ~AskedToStop(f)
    BY DEF Init, LoopInit, AskedToStop, TimedOut
  <2> QED BY <2>1, <2>2 DEF Promise!Init
<1>2. IInv /\ PlacesAgree /\ MappingAgrees /\ [Next]_vars => [Promise!Next]_(Promise!vars)
  BY CallerPromise, BridgePromise, OthersPromise DEF Next
<1> QED BY <1>1, <1>2, MappingInvariant, PTL DEF Spec, KeepsPromise, Promise!Spec
=============================================================================
