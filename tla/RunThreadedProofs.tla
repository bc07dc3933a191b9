-------------------------- MODULE RunThreadedProofs --------------------------
(* Proofs about RunThreaded, for any number of calls, any nesting and any   *)
(* size of the pool.                                                        *)
EXTENDS RunThreaded, TLAPS

\* The phases of the coroutine and of its worker move together: there is a
\* worker exactly from the call on, one in its grace was cancelled and has its
\* event set, and who returned or withdrew a queued function knows the end of it.
PhasesAgree ==
    \A j \in Jobs :
        /\ worker[j] = "none" <=> awaiter[j] = "idle"
        /\ awaiter[j] = "grace" => event[j] # "clear" /\ cancels[j] > 0
        /\ awaiter[j] = "returned" => worker[j] = "ok"
        /\ worker[j] = "dropped" => Over(j)

\* A worker that has not ended finds its event set only if its call was
\* cancelled.
EventsAgree ==
    \A j \in Jobs : ~WorkerEnded(j) /\ event[j] # "clear" => cancels[j] > 0

\* What a call, its worker and its event owe each other.
Coupling ==
    /\ PhasesAgree
    /\ EventsAgree
    /\ OutlivingWorkerIsSignalled
    /\ CancelledOnceIsAcknowledged

\* The inductive invariant.
IInv == TypeOK /\ Coupling

\* The initial state satisfies the inductive invariant.
LEMMA InitIInv == Init => IInv
BY DEF Init, IInv, TypeOK, Coupling, PhasesAgree, EventsAgree, OutlivingWorkerIsSignalled,
       CancelledOnceIsAcknowledged, Over, WorkerEnded, Endings, Verdicts,
       WorkerPhases

\* Every step of a call, of its worker and of the loop keeps the types.
LEMMA NextTypeOK == TypeOK /\ Next => TypeOK'
<1> SUFFICES ASSUME TypeOK, NEW j \in Jobs,
                    \/ Call(j) \/ Deliver(j) \/ Cancel(j) \/ Acknowledge(j)
                    \/ GiveUp(j) \/ CancelAgain(j) \/ SetEvent(j) \/ Start(j)
                    \/ WriteContext(j) \/ Return(j) \/ Sleep(j) \/ SleepEnds(j)
                    \/ CheckCancelled(j)
                    \/ \E c \in Jobs : Nest(j, c) \/ CancelNested(j, c) \/ Unnest(j, c)
             PROVE  TypeOK'
  BY DEF Next
<1> USE DEF TypeOK, Verdicts, WorkerPhases, Endings, Busy
<1>1. CASE Call(j) BY <1>1 DEF Call, Enqueue
<1>2. CASE Deliver(j) BY <1>2 DEF Deliver
<1>3. CASE Cancel(j) BY <1>3 DEF Cancel
<1>4. CASE Acknowledge(j) BY <1>4 DEF Acknowledge
<1>5. CASE GiveUp(j) BY <1>5 DEF GiveUp, Withdrawn
<1>6. CASE CancelAgain(j) BY <1>6 DEF CancelAgain, Withdrawn
<1>7. CASE SetEvent(j) BY <1>7 DEF SetEvent
<1>8. CASE Start(j) BY <1>8 DEF Start
<1>9. CASE WriteContext(j) BY <1>9 DEF WriteContext
<1>10. CASE Return(j) BY <1>10 DEF Return, WorkerEnds
<1>11. CASE Sleep(j) BY <1>11 DEF Sleep
<1>12. CASE SleepEnds(j) BY <1>12 DEF SleepEnds
<1>13. CASE CheckCancelled(j) BY <1>13 DEF CheckCancelled
<1>14. ASSUME NEW c \in Jobs, Nest(j, c) \/ CancelNested(j, c) \/ Unnest(j, c)
       PROVE  TypeOK'
  BY <1>14 DEF Nest, Enqueue, CancelNested, Cancel, Unnest
<1> QED BY <1>1, <1>2, <1>3, <1>4, <1>5, <1>6, <1>7, <1>8, <1>9, <1>10, <1>11,
           <1>12, <1>13, <1>14

\* Every step keeps the inductive invariant.  Ended workers stay ended, a
\* queued one is withdrawn by whatever ends its call, and the event is posted
\* before the grace begins.
LEMMA NextIInv == IInv /\ [Next]_vars => IInv'
<1> SUFFICES ASSUME IInv, [Next]_vars PROVE IInv'
  OBVIOUS
<1>1. TypeOK'
  <2>1. CASE Next BY <2>1, NextTypeOK DEF IInv
  <2>2. CASE UNCHANGED vars BY <2>2 DEF IInv, vars, TypeOK
  <2> QED BY <2>1, <2>2
<1>2. Coupling'
  <2> USE DEF IInv, TypeOK, Coupling, PhasesAgree, EventsAgree, OutlivingWorkerIsSignalled,
              CancelledOnceIsAcknowledged, Over, WorkerEnded, Verdicts,
              WorkerPhases, Endings, Busy
  <2>1. ASSUME NEW j \in Jobs, Call(j) PROVE Coupling'
    BY <2>1 DEF Call, Enqueue
  <2>2. ASSUME NEW j \in Jobs, Deliver(j) PROVE Coupling'
    BY <2>2 DEF Deliver
  <2>3. ASSUME NEW j \in Jobs, Cancel(j) PROVE Coupling'
    BY <2>3 DEF Cancel
  <2>4. ASSUME NEW j \in Jobs, Acknowledge(j) PROVE Coupling'
    BY <2>4 DEF Acknowledge
  <2>5. ASSUME NEW j \in Jobs, GiveUp(j) PROVE Coupling'
    BY <2>5 DEF GiveUp, Withdrawn
  <2>6. ASSUME NEW j \in Jobs, CancelAgain(j) PROVE Coupling'
    BY <2>6 DEF CancelAgain, Withdrawn
  <2>7. ASSUME NEW j \in Jobs, SetEvent(j) PROVE Coupling'
    BY <2>7 DEF SetEvent
  <2>8. ASSUME NEW j \in Jobs, Start(j) PROVE Coupling'
    BY <2>8 DEF Start
  <2>9. ASSUME NEW j \in Jobs, WriteContext(j) PROVE Coupling'
    BY <2>9 DEF WriteContext
  <2>10. ASSUME NEW j \in Jobs, Return(j) PROVE Coupling'
    BY <2>10 DEF Return, WorkerEnds
  <2>11. ASSUME NEW j \in Jobs, Sleep(j) \/ SleepEnds(j) \/ CheckCancelled(j)
         PROVE Coupling'
    BY <2>11 DEF Sleep, SleepEnds, CheckCancelled
  <2>12. ASSUME NEW j \in Jobs, NEW c \in Jobs, Nest(j, c) PROVE Coupling'
    BY <2>12 DEF Nest, Enqueue
  <2>13. ASSUME NEW j \in Jobs, NEW c \in Jobs, CancelNested(j, c) PROVE Coupling'
    BY <2>13, <2>3 DEF CancelNested
  <2>14. ASSUME NEW j \in Jobs, NEW c \in Jobs, Unnest(j, c) PROVE Coupling'
    BY <2>14 DEF Unnest
  <2>15. CASE UNCHANGED vars
    BY <2>15 DEF vars
  <2> HIDE DEF IInv, Coupling
  <2> QED BY <2>1, <2>2, <2>3, <2>4, <2>5, <2>6, <2>7, <2>8, <2>9, <2>10,
             <2>11, <2>12, <2>13, <2>14, <2>15 DEF Next
<1> QED BY <1>1, <1>2 DEF IInv

\* The inductive invariant holds in every state of _run_threaded.
LEMMA InductiveInvariant == Spec => []IInv
BY InitIInv, NextIInv, PTL DEF Spec

\* Type correctness of the model of _run_threaded.
THEOREM TypeCorrect == Spec => []TypeOK
<1>1. IInv => TypeOK BY DEF IInv
<1> QED BY <1>1, InductiveInvariant, PTL

\* However a run_threaded call is left (a value, an error, one cancellation or
\* two, the end of the grace), a worker that outlives it has been told to stop
\* and a function still queued never runs.
THEOREM OutlivingWorkersAreSignalled == Spec => []OutlivingWorkerIsSignalled
<1>1. IInv => OutlivingWorkerIsSignalled BY DEF IInv, Coupling
<1> QED BY <1>1, InductiveInvariant, PTL

\* A run_threaded call cancelled once ends with CancelledError only after its
\* worker has ended.
THEOREM OneCancelIsAcknowledged == Spec => []CancelledOnceIsAcknowledged
<1>1. IInv => CancelledOnceIsAcknowledged BY DEF IInv, Coupling
<1> QED BY <1>1, InductiveInvariant, PTL

-----------------------------------------------------------------------------
(* What the caller's context takes over                                    *)

\* Every step keeps the contexts right.  The one step that sets seen reads the
\* worker's last word, since nothing is written after the worker has ended.
LEMMA NextContext ==
    IInv /\ ContextComesBackOnlyOnReturn /\ [Next]_vars
        => ContextComesBackOnlyOnReturn'
<1> SUFFICES ASSUME IInv, ContextComesBackOnlyOnReturn, [Next]_vars,
                    NEW i \in Jobs
             PROVE  (seen[i] <=> awaiter[i] = "returned" /\ i \in Bridged /\ wrote[i])'
  BY DEF ContextComesBackOnlyOnReturn
<1> USE DEF IInv, TypeOK, Coupling, PhasesAgree, WorkerEnded, Endings, Verdicts,
            ContextComesBackOnlyOnReturn
<1>1. ASSUME NEW j \in Jobs, Deliver(j)
      PROVE  (seen[i] <=> awaiter[i] = "returned" /\ i \in Bridged /\ wrote[i])'
  BY <1>1 DEF Deliver
<1>2. ASSUME NEW j \in Jobs, WriteContext(j)
      PROVE  (seen[i] <=> awaiter[i] = "returned" /\ i \in Bridged /\ wrote[i])'
  BY <1>2 DEF WriteContext
<1>3. ASSUME UNCHANGED <<wrote, seen>>, awaiter'[i] = "returned" <=> awaiter[i] = "returned"
      PROVE  (seen[i] <=> awaiter[i] = "returned" /\ i \in Bridged /\ wrote[i])'
  BY <1>3
<1>4. ASSUME NEW j \in Jobs,
             \/ Call(j) \/ Cancel(j) \/ Acknowledge(j) \/ GiveUp(j)
             \/ CancelAgain(j) \/ SetEvent(j) \/ Start(j) \/ Return(j)
             \/ Sleep(j) \/ SleepEnds(j) \/ CheckCancelled(j)
             \/ \E c \in Jobs : Nest(j, c) \/ CancelNested(j, c) \/ Unnest(j, c)
      PROVE  /\ UNCHANGED <<wrote, seen>>
             /\ awaiter'[i] = "returned" <=> awaiter[i] = "returned"
  BY <1>4 DEF Call, Enqueue, Cancel, Acknowledge, GiveUp, CancelAgain, SetEvent, Start,
              Return, WorkerEnds, Sleep, SleepEnds, CheckCancelled, Nest, CancelNested,
              Unnest
<1>5. CASE UNCHANGED vars BY <1>3, <1>5 DEF vars
<1> QED BY <1>1, <1>2, <1>3, <1>4, <1>5 DEF Next

\* The caller's context takes over the worker's changes exactly when a bridged
\* call returns, however a cancellation raced with the end of the worker.
THEOREM ContextsComeBackOnReturn == Spec => []ContextComesBackOnlyOnReturn
<1>1. Init => ContextComesBackOnlyOnReturn
  BY DEF Init, ContextComesBackOnlyOnReturn
<1> QED BY <1>1, NextContext, InductiveInvariant, PTL DEF Spec

-----------------------------------------------------------------------------
(* Settlement                                                              *)

\* A step that leaves the call as its coroutine and its worker see it is no step
\* of Settlement.
LEMMA StuttersAgree ==
    ASSUME TypeOK,
           \A i \in Jobs : FutureOf(i)' = FutureOf(i) /\ BodyOf(i)' = BodyOf(i),
           \A i \in Jobs : cancels'[i] > 0 <=> cancels[i] > 0
    PROVE  UNCHANGED Promise!vars
BY DEF Promise!vars

\* A step that settles one call and changes nothing else.
LEMMA SettlesOne ==
    ASSUME TypeOK, NEW j \in Jobs, NEW how \in {"value", "error", "cancelled"},
           FutureOf(j) = "pending", FutureOf(j)' = how, BodyOf(j) # "running",
           how = "value" => BodyOf(j) = "ok",
           how = "error" => BodyOf(j) = "err" \/ cancels[j] > 0,
           how = "cancelled" => BodyOf(j) = "cancelled" \/ cancels[j] > 0,
           \A i \in Jobs \ {j} : FutureOf(i)' = FutureOf(i),
           \A i \in Jobs : BodyOf(i)' = BodyOf(i),
           \A i \in Jobs : cancels'[i] > 0 <=> cancels[i] > 0
    PROVE  Promise!Next
<1>1. Promise!Settle(j, how) BY DEF Promise!Settle, Promise!Genuine
<1>2. how \in Promise!Outcomes BY DEF Promise!Outcomes
<1> QED BY <1>1, <1>2 DEF Promise!Next

\* A step that opens a call: nothing of it runs yet.
LEMMA OpensOne ==
    ASSUME TypeOK, NEW j \in Jobs, FutureOf(j) = "idle", FutureOf(j)' = "pending",
           \A i \in Jobs \ {j} : FutureOf(i)' = FutureOf(i),
           \A i \in Jobs : BodyOf(i)' = BodyOf(i),
           \A i \in Jobs : cancels'[i] > 0 <=> cancels[i] > 0
    PROVE  Promise!Next
<1>1. Promise!Open(j) BY DEF Promise!Open
<1> QED BY <1>1 DEF Promise!Next

\* A step in which one function begins, told to stop or not.
LEMMA BeginsOne ==
    ASSUME TypeOK, NEW j \in Jobs, NEW how \in {"running", "stopping"},
           FutureOf(j) = "pending", BodyOf(j) = "none", BodyOf(j)' = how,
           how = "stopping" => cancels[j] > 0,
           \A i \in Jobs : FutureOf(i)' = FutureOf(i),
           \A i \in Jobs \ {j} : BodyOf(i)' = BodyOf(i),
           \A i \in Jobs : cancels'[i] > 0 <=> cancels[i] > 0
    PROVE  Promise!Next
<1>1. Promise!Begin(j, how) BY DEF Promise!Begin
<1>2. how \in Promise!Live BY DEF Promise!Live
<1> QED BY <1>1, <1>2 DEF Promise!Next

\* A step in which one function ends.
LEMMA EndsOne ==
    ASSUME TypeOK, NEW j \in Jobs, NEW how \in {"ok", "err", "cancelled"},
           BodyOf(j) \in {"running", "stopping"}, BodyOf(j)' = how,
           \A i \in Jobs : FutureOf(i)' = FutureOf(i),
           \A i \in Jobs \ {j} : BodyOf(i)' = BodyOf(i),
           \A i \in Jobs : cancels'[i] > 0 <=> cancels[i] > 0
    PROVE  Promise!Next
<1>1. Promise!End(j, how) BY DEF Promise!End, Promise!Live
<1>2. how \in Promise!Ends BY DEF Promise!Ends
<1> QED BY <1>1, <1>2 DEF Promise!Next

\* The cancellation of a call asks it to stop, and tells its function if that
\* runs and did not know.
LEMMA CancelAsks == ASSUME IInv, NEW j \in Jobs, Cancel(j) PROVE Promise!Next
<1> USE DEF IInv, TypeOK, Cancel
<1>1. \A i \in Jobs : FutureOf(i)' = FutureOf(i) BY DEF FutureOf
<1>2. \A i \in Jobs :
         BodyOf(i)' = IF i \in {j} /\ BodyOf(i) = "running" THEN "stopping" ELSE BodyOf(i)
  BY DEF BodyOf, WorkerPhases, Endings, Busy
<1>3. \A i \in Jobs : cancels'[i] > 0 <=> cancels[i] > 0 \/ i = j OBVIOUS
<1>4. Promise!Ask({j})
  <2> HIDE DEF IInv, TypeOK, Cancel
  <2> QED BY <1>1, <1>2, <1>3 DEF Promise!Ask
<1> QED BY <1>4 DEF Promise!Next

\* Every step of RunThreaded is a step of Settlement or none of its business.
LEMMA NextPromise == IInv /\ [Next]_vars => [Promise!Next]_(Promise!vars)
<1> SUFFICES ASSUME IInv, [Next]_vars PROVE Promise!Next \/ UNCHANGED Promise!vars
  OBVIOUS
<1>t. TypeOK BY DEF IInv
<1> USE DEF IInv, TypeOK, Coupling, PhasesAgree, EventsAgree, OutlivingWorkerIsSignalled,
            Over, WorkerEnded, WorkerPhases, Endings, Busy, Verdicts, FutureOf, BodyOf
<1>1. ASSUME NEW j \in Jobs, Call(j) PROVE Promise!Next
  BY <1>1, <1>t, OpensOne DEF Call, Enqueue
<1>2. ASSUME NEW j \in Jobs, Deliver(j) PROVE Promise!Next
  BY <1>2, <1>t, SettlesOne DEF Deliver
<1>3. ASSUME NEW j \in Jobs, Cancel(j) PROVE Promise!Next
  BY <1>3, CancelAsks
<1>4. ASSUME NEW j \in Jobs, Acknowledge(j) PROVE Promise!Next
  BY <1>4, <1>t, SettlesOne DEF Acknowledge
<1>5. ASSUME NEW j \in Jobs, GiveUp(j) PROVE Promise!Next
  BY <1>5, <1>t, SettlesOne DEF GiveUp, Withdrawn
<1>6. ASSUME NEW j \in Jobs, CancelAgain(j) PROVE Promise!Next
  BY <1>6, <1>t, SettlesOne DEF CancelAgain, Withdrawn
<1>7. ASSUME NEW j \in Jobs, SetEvent(j) PROVE UNCHANGED Promise!vars
  BY <1>7, <1>t, StuttersAgree DEF SetEvent
<1>8. ASSUME NEW j \in Jobs, Start(j) PROVE Promise!Next
  BY <1>8, <1>t, BeginsOne DEF Start
<1>9. ASSUME NEW j \in Jobs, WriteContext(j) PROVE UNCHANGED Promise!vars
  BY <1>9, <1>t, StuttersAgree DEF WriteContext
<1>10. ASSUME NEW j \in Jobs, Return(j) PROVE Promise!Next
  BY <1>10, <1>t, EndsOne DEF Return, WorkerEnds
<1>11. ASSUME NEW j \in Jobs, Sleep(j) \/ SleepEnds(j) PROVE UNCHANGED Promise!vars
  BY <1>11, <1>t, StuttersAgree DEF Sleep, SleepEnds
<1>12. ASSUME NEW j \in Jobs, CheckCancelled(j) PROVE Promise!Next
  BY <1>12, <1>t, EndsOne DEF CheckCancelled
<1>13. ASSUME NEW j \in Jobs, NEW c \in Jobs, Nest(j, c) PROVE Promise!Next
  BY <1>13, <1>t, OpensOne DEF Nest, Enqueue
<1>14. ASSUME NEW j \in Jobs, NEW c \in Jobs, CancelNested(j, c) PROVE Promise!Next
  BY <1>14, CancelAsks DEF CancelNested
<1>15. ASSUME NEW j \in Jobs, NEW c \in Jobs, Unnest(j, c)
       PROVE  Promise!Next \/ UNCHANGED Promise!vars
  <2>1. worker[j] = "nested" /\ UNCHANGED <<awaiter, event, cancels>> BY <1>15 DEF Unnest
  <2>2. PICK next \in {"running", "lost", "err"} : worker' = [worker EXCEPT ![j] = next]
    BY <1>15, Zenon DEF Unnest
  <2>3. CASE next = "running" BY <2>1, <2>2, <2>3, <1>t, StuttersAgree
  <2>4. CASE next = "lost" BY <2>1, <2>2, <2>4, <1>t, EndsOne
  <2>5. CASE next = "err" BY <2>1, <2>2, <2>5, <1>t, EndsOne
  <2> QED BY <2>3, <2>4, <2>5
<1>16. CASE UNCHANGED vars BY <1>16, <1>t, StuttersAgree DEF vars
<1> HIDE DEF IInv
<1> QED BY <1>1, <1>2, <1>3, <1>4, <1>5, <1>6, <1>7, <1>8, <1>9, <1>10, <1>11, <1>12,
           <1>13, <1>14, <1>15, <1>16 DEF Next

\* run_threaded keeps the promise of Settlement for any calls, any nesting and
\* any pool: a call is settled once, with a genuine outcome, and never over a
\* function that runs on without having been told to stop.
THEOREM ImplementsSettlement == Spec => KeepsPromise
<1>1. Init => Promise!Init
  BY DEF Init, Promise!Init, FutureOf, BodyOf, Busy
<1> QED BY <1>1, NextPromise, InductiveInvariant, PTL DEF Spec, KeepsPromise, Promise!Spec
=============================================================================
