-------------------------- MODULE UnkoilGenProofs --------------------------
(* Proofs about UnkoilGen, with and without a timeout and for any number of *)
(* values.                                                                  *)
EXTENDS UnkoilGen, TLAPS

-----------------------------------------------------------------------------
(* The inductive invariant, in parts                                       *)

\* The loop stops, and gets to what it does after that, only after __exit__.
LoopAgrees ==
    exit = "open" =>
        loop = "running" /\ stopped # "shutdown" /\ frame # "shutting" /\ aclose # "dropped"

\* A step that runs is the one that drives the frame, and ends it by a stop.  One
\* that was stopped does not run on, and one that is posted has a pending future.
StepAgrees ==
    /\ step \in {"running", "stopping"} <=> frame = "stepping"
    /\ step = "stop" => frame = "finished"
    /\ step = "none" <=> fut = "none"
    /\ step \in {"posted", "late"} => fut = "pending"
    /\ stopped # "no" => StepOver \/ step = "stopping"

\* A future is settled over an ended step, unless the deadline or the shutdown did
\* not wait for it; a value and a stop are those of the step.
FutureAgrees ==
    /\ fut \in Settled =>
          \/ StepOver
          \/ fut = "timeout" /\ stopped = "deadline"
          \/ fut = "cancelled" /\ stopped = "shutdown"
    /\ fut = "value" => step = "value"
    /\ fut = "stop" => step = "stop"

\* aclose() unwinds the frame or has finished it, or it was ignored, dropped or
\* refused.
AcloseAgrees ==
    /\ aclose = "unwinding" <=> frame = "unwinding"
    /\ aclose \in {"done", "failed", "silenced"} => frame = "finished"
    /\ aclose = "clash" /\ exit = "open" /\ gaveup = {} =>
          fut = "timeout" /\ stopped = "deadline"

\* Where the consumer is tells whether a step is pending and aclose() was posted.
ConsumerAgrees ==
    /\ consumer = "fresh" => fut = "none" /\ step = "none" /\ frame = "unstarted"
    /\ consumer \in {"fresh", "waiting", "yielded"} <=> ending = "none"
    /\ consumer = "yielded" => fut = "value"
    /\ consumer \notin {"closing", "ended"} => aclose = "none"
    /\ consumer \in {"closing", "ended"} /\ gaveup = {} => fut # "pending"
    /\ consumer = "ended" /\ gaveup = {} /\ exit = "open" =>
          (aclose = "none" /\ frame = "unstarted") \/ aclose \in AcloseOver

\* The values received, counted against those produced.
CountAgrees ==
    /\ \A i \in 1..Len(got) : got[i] = i
    /\ consumer = "fresh" => produced = 0 /\ Len(got) = 0
    /\ consumer = "waiting" =>
          produced = IF step = "value" THEN Len(got) + 1 ELSE Len(got)
    /\ consumer = "yielded" => produced = Len(got)
    /\ ending \in {"exhausted", "stopasync"} => frame = "finished" /\ produced = Len(got)
    /\ ending = "exhausted" => produced > 0
    /\ ending = "stopasync" => produced = 0

Control == LoopAgrees /\ StepAgrees /\ FutureAgrees /\ AcloseAgrees /\ ConsumerAgrees

IInv == TypeOK /\ Control /\ CountAgrees

-----------------------------------------------------------------------------
(* Type correctness                                                        *)

USE DEF loopVars, consumerVars, stepVars, genVars, LoopAlive, Posted

\* The finally block keeps the types.
LEMMA LeaveType ==
    ASSUME TypeOK, NEW how, Leave(how)
    PROVE  /\ consumer' \in {"settling", "closing", "ended"}
           /\ asked' \in BOOLEAN
           /\ aclose' \in AcloseOver \cup {"none", "posted", "late", "unwinding"}
BY DEF TypeOK, Leave, PostAclose

\* Every step keeps the types.
LEMMA NextTypeOK == TypeOK /\ [Next]_vars => TypeOK'
<1> SUFFICES ASSUME TypeOK, [Next]_vars PROVE TypeOK' OBVIOUS
<1> USE DEF TypeOK, LoopTypeOK
<1>0. ASSUME NEW v \in BOOLEAN, SubmitStep(v)
      PROVE  /\ consumer' \in {"waiting", "settling", "closing", "ended"}
             /\ ending' \in {ending, "refused"}
             /\ aclose' \in AcloseOver \cup {"none", "posted", "late", "unwinding"}
             /\ asked' \in BOOLEAN /\ sent' \in BOOLEAN /\ fut' \in {fut, "pending"}
             /\ step' \in {step, "posted", "late"} /\ stopped' \in {stopped, "no"}
  BY <1>0, LeaveType DEF SubmitStep, Leave
<1>1. CASE First
  <2>1. CASE LoopAlive
    <3>1. PICK v \in BOOLEAN : SubmitStep(v) BY <1>1, <2>1, Zenon DEF First
    <3> QED BY <1>0, <1>1, <3>1 DEF First
  <2>2. CASE ~LoopAlive BY <1>1, <2>2 DEF First
  <2> QED BY <2>1, <2>2
<1>2. ASSUME NEW v \in BOOLEAN, NextStep(v) PROVE TypeOK' BY <1>0, <1>2 DEF NextStep
<1>3. CASE ResultReturns
  <2>1. CASE fut = "value"
    BY <1>3, <2>1 DEF ResultReturns
  <2>2. CASE fut # "value"
    <3>1. PICK how \in {"error", "cancelled", "timeout", "stopasync", "exhausted"} :
             Leave(how)
      BY <1>3, <2>2, Zenon DEF ResultReturns, Settled
    <3>2. ending' = how BY <3>1 DEF Leave
    <3> QED BY <1>3, <2>2, <3>1, <3>2, LeaveType DEF ResultReturns
  <2> QED BY <2>1, <2>2
<1>4. CASE Interrupt \/ Close
  <2>1. PICK how \in {"interrupt", "closed"} : Leave(how) BY <1>4, Zenon DEF Interrupt, Close
  <2>2. ending' = how BY <2>1 DEF Leave
  <2>3. UNCHANGED <<got, gaveup, ambient, fut, sent, step, stopped, genVars, tasks, loopVars>>
    BY <1>4 DEF Interrupt, Close
  <2> QED BY <2>1, <2>2, <2>3, LeaveType
<1>5. CASE CloseOnLoop \/ CloseFresh \/ Abort
  <2>1. gaveup' \in SUBSET {"wait", "close", "abort", "detached"}
    BY <1>5 DEF CloseOnLoop, CloseFresh, Abort
  <2>2. aclose' \in {aclose, "posted", "late"} BY <1>5 DEF CloseOnLoop, CloseFresh, Abort
  <2>3. consumer' = "ended" /\ ending' \in {"closed", "interrupt"}
    BY <1>5 DEF CloseOnLoop, CloseFresh, Abort
  <2>4. UNCHANGED <<got, ambient, stepVars, genVars, tasks, loopVars>>
    BY <1>5 DEF CloseOnLoop, CloseFresh, Abort
  <2> QED BY <2>1, <2>2, <2>3, <2>4
<1>6. CASE Waits
  <2> USE <1>6 DEF Waits, SettlingEnds, SettlingTimesOut, ClosingEnds, ClosingTimesOut,
                   PostAclose
  <2>1. gaveup' \in SUBSET {"wait", "close", "abort", "detached"} OBVIOUS
  <2>2. aclose' \in {aclose, "posted", "late"} /\ consumer' \in {"closing", "ended"} OBVIOUS
  <2>3. ending' \in {ending, "error"} OBVIOUS
  <2>4. UNCHANGED <<got, ambient, stepVars, genVars, tasks, loopVars>> OBVIOUS
  <2> QED BY <2>1, <2>2, <2>3, <2>4
<1>7. CASE CancelScope BY <1>7 DEF CancelScope
<1>8. CASE StartStep
  <2>1. step' \in StepEndings \cup {"running"} /\ frame' \in {frame, "stepping"}
    BY <1>8 DEF StartStep, StepEndings
  <2> QED BY <1>8, <2>1 DEF StartStep
<1>9. ASSUME NEW cause \in {"cancel", "deadline"}, StopStep(cause) PROVE TypeOK'
  BY <1>9 DEF StopStep
<1>10. CASE SettleStep
  <2>1. ASSUME StepOver PROVE StepVerdict \in Settled
    BY <2>1 DEF StepVerdict, StepOver, StepEndings, Settled
  <2>2. fut' \in Settled BY <1>10, <2>1 DEF SettleStep, Settled
  <2> QED BY <1>10, <2>2 DEF SettleStep
<1>11. CASE AcloseStarts
  <2>1. aclose' \in {"clash", "unwinding", "done"} /\ frame' \in {frame, "unwinding", "finished"}
    BY <1>11 DEF AcloseStarts
  <2> QED BY <1>11, <2>1 DEF AcloseStarts, AcloseOver
<1>12. ASSUME NEW how \in StepEndings \ {"rejected"}, StepEnds(how) PROVE TypeOK'
  BY <1>12, MaxValuesAssumption DEF StepEnds
<1>13. ASSUME NEW how \in {"done", "failed", "silenced", "ignored"}, AcloseEnds(how) PROVE TypeOK'
  BY <1>13 DEF AcloseEnds, AcloseOver
<1>14. ASSUME NEW left \in {"finished", "suspended"}, ShutdownGenEnds(left) PROVE TypeOK'
  BY <1>14 DEF ShutdownGenEnds
<1>15. ASSUME NEW cut \in BOOLEAN, Drain(cut) PROVE TypeOK'
  <2>1. step' \in {step, "cancelled", "stopping"}
    BY <1>15 DEF Drain
  <2>2. tasks' \in SUBSET {"step", "aclose"}
    BY <1>15 DEF Drain
  <2>3. stopped' \in {stopped, "shutdown"} /\ aclose' \in {aclose, "dropped"}
    BY <1>15 DEF Drain
  <2> QED BY <1>15, <2>1, <2>2, <2>3 DEF Drain, StopRuns, StepEndings, AcloseOver
<1>16. CASE GatherReturns \/ LoopCloses \/ Exit
  <2> USE <1>16 DEF GatherReturns, GatherDone, LoopCloses, CloseLoop, Exit, ExitCall
  <2>1. frame' \in {frame, "shutting"} OBVIOUS
  <2>2. loop' \in {loop, "finalizing", "closed"} /\ exit' \in {exit, "joining"} OBVIOUS
  <2>3. UNCHANGED <<consumerVars, ambient, stepVars, produced, aclose, tasks>> OBVIOUS
  <2> QED BY <2>1, <2>2, <2>3
<1>17. CASE UNCHANGED vars BY <1>17 DEF vars
<1> HIDE DEF TypeOK
<1> QED
  BY <1>1, <1>2, <1>3, <1>4, <1>5, <1>6, <1>7, <1>8, <1>9, <1>10, <1>11, <1>12, <1>13,
     <1>14, <1>15, <1>16, <1>17
  DEF Next, Consumer, Serve, Generator, Shutdown

\* Type correctness of the model of unkoil_gen.
THEOREM TypeCorrect == Spec => []TypeOK
<1>1. Init => TypeOK
  <2> SUFFICES ASSUME Init PROVE TypeOK OBVIOUS
  <2>1. got \in Seq(Nat) /\ produced \in 0..MaxValues BY MaxValuesAssumption DEF Init
  <2>2. ambient \in BOOLEAN /\ asked \in BOOLEAN /\ sent \in BOOLEAN BY DEF Init
  <2> QED BY <2>1, <2>2 DEF Init, LoopInit, TypeOK, LoopTypeOK, Settled, StepEndings, AcloseOver
<1> QED BY <1>1, NextTypeOK, PTL DEF Spec

-----------------------------------------------------------------------------
(* Control                                                                 *)

\* Every step keeps the consumer, the step, its future and aclose() in accord.
LEMMA NextControl == TypeOK /\ Control /\ [Next]_vars => Control'
<1> SUFFICES ASSUME TypeOK, Control, [Next]_vars PROVE Control' OBVIOUS
<1> USE DEF TypeOK, LoopTypeOK, Control, LoopAgrees, StepAgrees, FutureAgrees, AcloseAgrees,
            ConsumerAgrees, StepOver, StepEndings, Settled, AcloseOver
<1>1. CASE First
  BY <1>1 DEF First, SubmitStep, Leave, PostAclose
<1>2. ASSUME NEW v \in BOOLEAN, NextStep(v) PROVE Control'
  BY <1>2 DEF NextStep, SubmitStep, Leave, PostAclose
<1>3. CASE ResultReturns
  <2>1. CASE fut = "value" BY <1>3, <2>1 DEF ResultReturns
  <2>2. CASE fut # "value"
    <3>1. PICK how : Leave(how) BY <1>3, <2>2 DEF ResultReturns
    <3> QED BY <1>3, <2>2, <3>1 DEF ResultReturns, Leave, PostAclose
  <2> QED BY <2>1, <2>2
<1>4. CASE Interrupt \/ Close
  BY <1>4 DEF Interrupt, Close, Leave, PostAclose
<1>5. CASE CloseOnLoop \/ CloseFresh \/ Abort
  BY <1>5 DEF CloseOnLoop, CloseFresh, Abort
<1>6. CASE SettlingEnds \/ SettlingTimesOut
  BY <1>6 DEF SettlingEnds, SettlingTimesOut, PostAclose
<1>7. CASE ClosingEnds \/ ClosingTimesOut
  BY <1>7 DEF ClosingEnds, ClosingTimesOut
<1>8. CASE CancelScope BY <1>8 DEF CancelScope
<1>9. CASE StartStep
  BY <1>9 DEF StartStep
<1>10. ASSUME NEW cause \in {"cancel", "deadline"}, StopStep(cause) PROVE Control'
  BY <1>10 DEF StopStep
<1>11. CASE SettleStep
  BY <1>11 DEF SettleStep, StepVerdict
<1>12. CASE AcloseStarts
  BY <1>12 DEF AcloseStarts
<1>13. ASSUME NEW how \in StepEndings \ {"rejected"}, StepEnds(how) PROVE Control'
  BY <1>13 DEF StepEnds
<1>14. ASSUME NEW how \in {"done", "failed", "silenced", "ignored"}, AcloseEnds(how) PROVE Control'
  BY <1>14 DEF AcloseEnds
<1>15. ASSUME NEW left \in {"finished", "suspended"}, ShutdownGenEnds(left) PROVE Control'
  BY <1>15 DEF ShutdownGenEnds
<1>16. ASSUME NEW cut \in BOOLEAN, Drain(cut) PROVE Control'
  BY <1>16 DEF Drain, StopRuns
<1>17. CASE GatherReturns \/ LoopCloses \/ Exit
  BY <1>17 DEF GatherReturns, GatherDone, LoopCloses, CloseLoop, Exit, ExitCall
<1>18. CASE UNCHANGED vars BY <1>18 DEF vars
<1> HIDE DEF TypeOK, Control
<1> QED
  BY <1>1, <1>2, <1>3, <1>4, <1>5, <1>6, <1>7, <1>8, <1>9, <1>10, <1>11, <1>12, <1>13,
     <1>14, <1>15, <1>16, <1>17, <1>18
  DEF Next, Consumer, Waits, Serve, Generator, Shutdown

-----------------------------------------------------------------------------
(* The values                                                              *)

\* A step that yields and receives nothing: the count stands, also when the consumer
\* submits the next step or leaves.
LEMMA SameCount ==
    ASSUME CountAgrees, UNCHANGED <<got, produced>>,
           consumer' = "fresh" => consumer = "fresh",
           consumer' = "yielded" => consumer = "yielded",
           consumer' = "waiting" =>
               \/ consumer = "waiting" /\ (step' = "value" <=> step = "value")
               \/ consumer \in {"fresh", "yielded"} /\ step' # "value",
           ending' \in {"exhausted", "stopasync"} => ending' = ending,
           frame = "finished" => frame' = "finished"
    PROVE  CountAgrees'
<1> DEFINE lg == Len(got)
<1>1. /\ \A i \in 1..lg : got[i] = i
      /\ consumer = "fresh" => produced = 0 /\ lg = 0
      /\ consumer = "waiting" => produced = IF step = "value" THEN lg + 1 ELSE lg
      /\ consumer = "yielded" => produced = lg
      /\ ending \in {"exhausted", "stopasync"} => frame = "finished" /\ produced = lg
      /\ ending = "exhausted" => produced > 0
      /\ ending = "stopasync" => produced = 0
  BY DEF CountAgrees
<1>2. CountAgrees' <=>
      /\ \A i \in 1..lg : got[i] = i
      /\ consumer' = "fresh" => produced = 0 /\ lg = 0
      /\ consumer' = "waiting" => produced = IF step' = "value" THEN lg + 1 ELSE lg
      /\ consumer' = "yielded" => produced = lg
      /\ ending' \in {"exhausted", "stopasync"} => frame' = "finished" /\ produced = lg
      /\ ending' = "exhausted" => produced > 0
      /\ ending' = "stopasync" => produced = 0
  BY DEF CountAgrees
<1> HIDE DEF lg
<1> QED BY <1>1, <1>2

\* The finally block never goes back to iterating.
LEMMA LeaveCount ==
    ASSUME NEW how, Leave(how)
    PROVE  consumer' \in {"settling", "closing", "ended"} /\ ending' = how
BY DEF Leave, PostAclose

\* A value is received after it was produced, and once.
LEMMA ResultCount == IInv /\ ResultReturns => CountAgrees'
<1> SUFFICES ASSUME IInv, ResultReturns PROVE CountAgrees' OBVIOUS
<1>0. /\ TypeOK /\ Control /\ CountAgrees /\ consumer = "waiting"
      /\ UNCHANGED <<step, frame, produced>>
  BY DEF IInv, ResultReturns
<1> DEFINE lg == Len(got)
           lh == Len(got')
<1>1. CASE fut = "value"
  <2>1. got \in Seq(Nat) /\ produced \in Nat BY <1>0, MaxValuesAssumption DEF TypeOK
  <2>2. got' = Append(got, produced) /\ consumer' = "yielded" /\ ending' = ending
    BY <1>1 DEF ResultReturns
  <2>3. step = "value" /\ ending = "none"
    BY <1>0, <1>1 DEF Control, FutureAgrees, ConsumerAgrees
  <2>4. produced = lg + 1 /\ \A i \in 1..lg : got[i] = i
    BY <1>0, <2>3 DEF CountAgrees
  <2>5. lg \in Nat /\ lh = lg + 1 /\ got'[lg + 1] = produced /\ \A i \in 1..lg : got'[i] = got[i]
    BY <2>1, <2>2
  <2>6. CountAgrees' <=> (\A i \in 1..lh : got'[i] = i) /\ produced' = lh
    BY <2>2, <2>3 DEF CountAgrees
  <2> HIDE DEF lg, lh
  <2>7. \A i \in 1..lh : i \in 1..lg \/ i = lg + 1 BY <2>5
  <2>8. \A i \in 1..lh : got'[i] = i BY <2>4, <2>5, <2>7
  <2> QED BY <1>0, <2>4, <2>5, <2>6, <2>8
<1>2. CASE fut # "value"
  <2>1. PICK how : Leave(how) /\ how = IF fut # "stop" THEN fut
                                       ELSE IF got = <<>> THEN "stopasync" ELSE "exhausted"
    BY <1>2 DEF ResultReturns
  <2>2. consumer' \in {"settling", "closing", "ended"} /\ ending' = how /\ got' = got
    BY <1>2, <2>1, LeaveCount DEF ResultReturns
  <2>3. CASE fut # "stop"
    <3>1. ending' \notin {"exhausted", "stopasync"}
      BY <2>1, <2>2, <2>3 DEF ResultReturns, Settled
    <3> QED BY <1>0, <2>2, <3>1, SameCount
  <2>4. CASE fut = "stop"
    <3>1. step = "stop" /\ frame = "finished"
      BY <1>0, <2>4 DEF Control, FutureAgrees, StepAgrees
    <3>2. got = <<>> <=> lg = 0 BY <1>0 DEF TypeOK
    <3>3. lg \in Nat BY <1>0 DEF TypeOK
    <3>4. produced = lg /\ \A i \in 1..lg : got[i] = i BY <1>0, <3>1 DEF CountAgrees
    <3>5. /\ (\A i \in 1..lg : got[i] = i)
          /\ (ending' \in {"exhausted", "stopasync"} => frame' = "finished" /\ produced' = lg)
          /\ (ending' = "exhausted" => produced' > 0)
          /\ (ending' = "stopasync" => produced' = 0)
          => CountAgrees'
      BY <2>2 DEF CountAgrees
    <3>6. how = IF got = <<>> THEN "stopasync" ELSE "exhausted" BY <2>1, <2>4
    <3> HIDE DEF lg
    <3>7. produced' = lg /\ frame' = "finished" BY <1>0, <3>1, <3>4
    <3>8. ending' = "exhausted" => produced' > 0 BY <2>2, <3>2, <3>3, <3>6, <3>7
    <3>9. ending' = "stopasync" => produced' = 0 BY <2>2, <3>2, <3>6, <3>7
    <3> QED BY <3>4, <3>5, <3>7, <3>8, <3>9
  <2> QED BY <2>3, <2>4
<1> QED BY <1>1, <1>2

\* A value is produced by the step the consumer waits for, or after it left.
LEMMA StepCount ==
    ASSUME IInv, NEW how \in StepEndings, StepEnds(how)
    PROVE  CountAgrees'
<1>0. TypeOK /\ Control /\ CountAgrees BY DEF IInv
<1>1. UNCHANGED <<consumer, ending, got>> /\ step' = how BY DEF StepEnds
<1>2. step \in {"running", "stopping"} /\ frame = "stepping"
  BY <1>0 DEF StepEnds, Control, StepAgrees
<1>3. consumer \notin {"fresh", "yielded"}
  BY <1>0, <1>2 DEF Control, ConsumerAgrees, FutureAgrees
<1>4. ending \notin {"exhausted", "stopasync"} BY <1>0, <1>2 DEF CountAgrees
<1>5. produced' = IF how = "value" THEN produced + 1 ELSE produced BY DEF StepEnds
<1> DEFINE lg == Len(got)
<1>6. (\A i \in 1..lg : got[i] = i) /\ (consumer = "waiting" => produced = lg)
  BY <1>0, <1>2 DEF CountAgrees
<1>7. /\ \A i \in 1..lg : got[i] = i
      /\ consumer = "waiting" => produced' = IF how = "value" THEN lg + 1 ELSE lg
  BY <1>5, <1>6
<1> QED BY <1>1, <1>3, <1>4, <1>7 DEF CountAgrees

\* Every step keeps the count.
LEMMA NextCount == IInv /\ [Next]_vars => CountAgrees'
<1> SUFFICES ASSUME IInv, [Next]_vars PROVE CountAgrees' OBVIOUS
<1>0. TypeOK /\ Control /\ CountAgrees BY DEF IInv
<1>1. ASSUME NEW v \in BOOLEAN, SubmitStep(v), consumer \in {"fresh", "yielded"},
             UNCHANGED <<got, genVars>>
      PROVE  CountAgrees'
  <2>1. CASE LoopAlive /\ ~ambient
    <3>1. consumer' = "waiting" /\ step' \in {"posted", "late"} /\ ending' = ending
      BY <1>1, <2>1 DEF SubmitStep
    <3> QED BY <1>0, <1>1, <3>1, SameCount
  <2>2. CASE ~(LoopAlive /\ ~ambient)
    <3>1. Leave("refused") BY <1>1, <2>2 DEF SubmitStep
    <3>2. consumer' \in {"settling", "closing", "ended"} /\ ending' = "refused"
      BY <3>1, LeaveCount
    <3> QED BY <1>0, <1>1, <3>2, SameCount
  <2> QED BY <2>1, <2>2
<1>2. CASE First
  <2>1. CASE LoopAlive
    <3>1. SubmitStep(FALSE) /\ consumer = "fresh" /\ UNCHANGED <<got, genVars>>
      BY <1>2, <2>1 DEF First
    <3> QED BY <1>1, <3>1
  <2>2. CASE ~LoopAlive
    <3>1. consumer' = "ended" /\ ending' = "refused" /\ UNCHANGED <<got, genVars>>
      BY <1>2, <2>2 DEF First
    <3> QED BY <1>0, <3>1, SameCount
  <2> QED BY <2>1, <2>2
<1>3. ASSUME NEW v \in BOOLEAN, NextStep(v) PROVE CountAgrees'
  BY <1>1, <1>3 DEF NextStep
<1>4. CASE ResultReturns BY <1>4, ResultCount
<1>5. CASE Interrupt \/ Close
  <2>1. PICK how \in {"interrupt", "closed"} : Leave(how) BY <1>5, Zenon DEF Interrupt, Close
  <2>2. consumer' \in {"settling", "closing", "ended"} /\ ending' = how BY <2>1, LeaveCount
  <2>3. UNCHANGED <<got, genVars>> BY <1>5 DEF Interrupt, Close
  <2> QED BY <1>0, <2>2, <2>3, SameCount
<1>6. CASE CloseOnLoop \/ CloseFresh \/ Abort
  <2>1. /\ consumer' = "ended" /\ ending' \in {"closed", "interrupt"}
        /\ UNCHANGED <<got, genVars>>
    BY <1>6 DEF CloseOnLoop, CloseFresh, Abort
  <2> QED BY <1>0, <2>1, SameCount
<1>7. CASE Waits
  <2>1. /\ consumer' \in {"closing", "ended"} /\ ending' \in {ending, "error"}
        /\ UNCHANGED <<got, genVars>>
    BY <1>7 DEF Waits, SettlingEnds, SettlingTimesOut, ClosingEnds, ClosingTimesOut,
                PostAclose
  <2> QED BY <1>0, <2>1, SameCount
<1>8. ASSUME UNCHANGED <<consumer, ending, got, produced>>,
             step' = "value" <=> step = "value",
             frame = "finished" => frame' = "finished"
      PROVE  CountAgrees'
  BY <1>0, <1>8, SameCount
<1>9. CASE CancelScope \/ SettleStep BY <1>8, <1>9 DEF CancelScope, SettleStep
<1>10. CASE StartStep BY <1>8, <1>10 DEF StartStep
<1>11. ASSUME NEW cause \in {"cancel", "deadline"}, StopStep(cause) PROVE CountAgrees'
  BY <1>8, <1>11 DEF StopStep
<1>12. CASE AcloseStarts BY <1>8, <1>12 DEF AcloseStarts
<1>13. ASSUME NEW how \in StepEndings \ {"rejected"}, StepEnds(how) PROVE CountAgrees'
  BY <1>13, StepCount
<1>14. ASSUME NEW how \in {"done", "failed", "silenced", "ignored"}, AcloseEnds(how) PROVE CountAgrees'
  <2>1. frame = "unwinding" BY <1>0, <1>14 DEF AcloseEnds, Control, AcloseAgrees
  <2> QED BY <1>8, <1>14, <2>1 DEF AcloseEnds
<1>15. ASSUME NEW left \in {"finished", "suspended"}, ShutdownGenEnds(left)
       PROVE  CountAgrees'
  BY <1>8, <1>15 DEF ShutdownGenEnds
<1>16. ASSUME NEW cut \in BOOLEAN, Drain(cut) PROVE CountAgrees'
  BY <1>8, <1>16 DEF Drain
<1>17. CASE GatherReturns \/ LoopCloses \/ Exit
  BY <1>8, <1>17 DEF GatherReturns, LoopCloses, Exit
<1>18. CASE UNCHANGED vars BY <1>8, <1>18 DEF vars
<1> QED
  BY <1>2, <1>3, <1>4, <1>5, <1>6, <1>7, <1>9, <1>10, <1>11, <1>12, <1>13, <1>14, <1>15,
     <1>16, <1>17, <1>18
  DEF Next, Consumer, Serve, Generator, Shutdown

\* The inductive invariant holds in every state.
LEMMA InductiveInvariant == Spec => []IInv
<1>1. Init => IInv
  <2> SUFFICES ASSUME Init PROVE IInv OBVIOUS
  <2>1. got \in Seq(Nat) /\ produced \in 0..MaxValues BY MaxValuesAssumption DEF Init
  <2>2. ambient \in BOOLEAN /\ asked \in BOOLEAN /\ sent \in BOOLEAN BY DEF Init
  <2>3. TypeOK
    BY <2>1, <2>2 DEF Init, LoopInit, TypeOK, LoopTypeOK, Settled, StepEndings, AcloseOver
  <2>4. Control
    BY DEF Init, LoopInit, Control, LoopAgrees, StepAgrees, FutureAgrees, AcloseAgrees,
           ConsumerAgrees, StepOver, StepEndings, Settled, AcloseOver
  <2>5. Len(got) = 0 /\ 1..0 = {} BY DEF Init
  <2>6. CountAgrees BY <2>5 DEF Init, CountAgrees
  <2> QED BY <2>3, <2>4, <2>6 DEF IInv
<1>2. IInv /\ [Next]_vars => IInv' BY NextTypeOK, NextControl, NextCount DEF IInv
<1> QED BY <1>1, <1>2, PTL DEF Spec

-----------------------------------------------------------------------------
(* What follows                                                            *)

\* However the consumer gets out, the generator is closed then, for any number of
\* values and whether or not the steps have a deadline.
THEOREM LeftIsClosed == Spec => []ClosedWhenLeft
<1>1. IInv => ClosedWhenLeft
  BY DEF IInv, Control, LoopAgrees, AcloseAgrees, ConsumerAgrees, ClosedWhenLeft, AcloseOver
<1> QED BY <1>1, InductiveInvariant, PTL

\* The consumer receives the values that were produced, once and in order, and its
\* iteration ends normally only after all of them.
THEOREM EndingsAreHonest == Spec => []EndingIsHonest
<1>1. ASSUME IInv PROVE EndingIsHonest
  <2> DEFINE lg == Len(got)
  <2>0. TypeOK /\ Control /\ CountAgrees BY <1>1 DEF IInv
  <2>1. lg \in Nat /\ produced \in Nat /\ DOMAIN got = 1..lg
    BY <2>0, MaxValuesAssumption DEF TypeOK
  <2>2. /\ \A i \in 1..lg : got[i] = i
        /\ consumer = "fresh" => produced = 0 /\ lg = 0
        /\ consumer = "waiting" => produced = IF step = "value" THEN lg + 1 ELSE lg
        /\ consumer = "yielded" => produced = lg
        /\ ending \in {"exhausted", "stopasync"} => frame = "finished" /\ produced = lg
        /\ ending = "exhausted" => produced > 0
        /\ ending = "stopasync" => produced = 0
    BY <2>0 DEF CountAgrees
  <2>3. consumer # "ended" /\ ending = "none" => consumer \in {"fresh", "waiting", "yielded"}
    BY <2>0 DEF TypeOK, Control, ConsumerAgrees
  <2>4. EndingIsHonest <=>
          /\ \A i \in DOMAIN got : got[i] = i
          /\ consumer = "yielded" => lg = produced
          /\ consumer # "ended" /\ ending = "none" => produced <= lg + 1
          /\ ending = "exhausted" => frame = "finished" /\ lg = produced /\ produced > 0
          /\ ending = "stopasync" => produced = 0
    BY DEF EndingIsHonest
  <2> HIDE DEF lg
  <2>5. consumer \in {"fresh", "waiting", "yielded"} => produced <= lg + 1
    BY <2>1, <2>2
  <2> QED BY <2>1, <2>2, <2>3, <2>4, <2>5
<1> QED BY <1>1, InductiveInvariant, PTL
=============================================================================
