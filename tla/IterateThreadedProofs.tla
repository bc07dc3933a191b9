----------------------- MODULE IterateThreadedProofs -----------------------
(* Proofs about IterateThreaded, for any number of steps and any size of    *)
(* the pool.                                                                *)
EXTENDS IterateThreaded, TLAPS

-----------------------------------------------------------------------------
(* The inductive invariant, in parts                                       *)

\* The calls up to the last one were made; all before it have returned.
CallsInOrder ==
    \A c \in Calls :
        /\ c > now => awaiter[c] = "idle" /\ worker[c] = "none"
        /\ c < now => awaiter[c] = "returned" /\ worker[c] = "ok"

\* The last call: how its coroutine, its worker and its cancellation agree.
LastCall ==
    now > 0 =>
        /\ worker[now] \notin {"none", "sleeping", "nested", "lost"}
        /\ awaiter[now] # "idle"
        /\ awaiter[now] \in {"grace", "cancelled", "gaveup"} => cancels[now] > 0
        /\ awaiter[now] = "returned" => worker[now] = "ok"
        /\ awaiter[now] = "raised" => worker[now] \in {"err", "timeouterr", "stopped"}
        /\ worker[now] = "dropped" => awaiter[now] \in {"cancelled", "gaveup"}

\* Where the async generator is, in terms of its last call.
IterAgrees ==
    /\ now = 0 => /\ iter \in {"fresh", "ended"}
                  /\ frame = "none" /\ produced = 0 /\ got = <<>>
    /\ iter = "fresh" => now = 0
    /\ iter \in {"stepping", "yielded"} => now < MaxCalls
    /\ closing # 0 => closing = now /\ iter \in {"closing", "ended"}
    /\ iter = "stepping" => awaiter[now] \in {"shielded", "grace"}
    /\ iter = "closing" => awaiter[now] \in {"shielded", "grace"} /\ closing = now
    /\ iter = "yielded" => awaiter[now] = "returned"
    /\ iter = "ended" /\ now > 0 => awaiter[now] \in T!Verdicts

\* The frame shows what the worker of the last call did with it.
FrameAgrees ==
    now > 0 =>
        /\ worker[now] = "running" => frame = "running"
        /\ worker[now] \in {"queued", "dropped"} => frame \in {"none", "suspended"}
        /\ worker[now] = "ok" => frame = IF now = closing THEN "closed" ELSE "suspended"
        /\ worker[now] = "err" =>
              frame \in {"failed", IF now = closing THEN "suspended" ELSE "exhausted"}
        /\ worker[now] \in {"timeouterr", "stopped"} => frame = "failed"

\* The one value that was yielded and not, or not yet, received.
Unseen ==
    now > 0 /\ now # closing /\ worker[now] = "ok" /\ awaiter[now] # "returned"

ValuesAgree ==
    /\ \A i \in DOMAIN got : got[i] = i
    /\ produced = Len(got) + (IF Unseen THEN 1 ELSE 0)
    /\ produced <= now
    /\ now > 0 /\ worker[now] \in {"queued", "running"} => produced < now

\* How the iteration ended, in terms of its last call.
EndingAgrees ==
    /\ ending = "none" <=> iter # "ended"
    /\ iter = "ended" =>
          \/ ending = "closed" /\ now = 0
          \/ /\ now > 0
             /\ \/ ending = "closed" /\ awaiter[now] = "returned" /\ now = closing
                \/ ending = "thrown" /\ awaiter[now] = "returned"
                \/ ending = "exhausted" /\ awaiter[now] = "raised" /\ frame = "exhausted"
                \/ ending = "raised" /\ awaiter[now] = "raised" /\ frame # "exhausted"
                \/ ending \in {"cancelled", "gaveup"} /\ awaiter[now] = ending

IInv ==
    /\ TypeOK
    /\ CallsInOrder
    /\ LastCall
    /\ IterAgrees
    /\ FrameAgrees
    /\ ValuesAgree
    /\ EndingAgrees

-----------------------------------------------------------------------------
(* The invariant is inductive                                              *)

\* The initial state satisfies the inductive invariant.
LEMMA InitIInv == Init => IInv
BY MaxCallsAssumption
DEF Init, T!Init, IInv, TypeOK, T!TypeOK, T!Verdicts, T!WorkerPhases, CallsInOrder,
    LastCall, IterAgrees, FrameAgrees, ValuesAgree, EndingAgrees, Unseen, Calls, FrameOver

\* A step that makes the next call: everything of it is still to come, and the
\* one before has returned.
LEMMA MakeCallIInv ==
    ASSUME IInv, NEW next \in {"stepping", "closing"}, MakeCall(next),
           iter \in {"fresh", "yielded"}, now < MaxCalls,
           next = "stepping" => now + 1 < MaxCalls /\ closing' = closing,
           next = "closing" => iter = "yielded" /\ closing' = now + 1
    PROVE  IInv'
<1> USE MaxCallsAssumption DEF Calls
<1>t. TypeOK /\ T!TypeOK BY DEF IInv, TypeOK
<1>1. now \in Nat /\ now + 1 \in Calls BY <1>t DEF TypeOK
<1>2. /\ awaiter' = [awaiter EXCEPT ![now + 1] = "shielded"]
      /\ worker' = [worker EXCEPT ![now + 1] = "queued"]
      /\ now' = now + 1 /\ iter' = next
      /\ UNCHANGED <<event, cancels, wrote, seen, ending, got, frame, produced>>
  BY DEF MakeCall, T!Call, T!Enqueue, genVars
<1>3. now > 0 => awaiter[now] = "returned" /\ worker[now] = "ok" /\ frame = "suspended"
  BY DEF IInv, IterAgrees, LastCall, FrameAgrees
<1>4. closing = 0 BY DEF IInv, IterAgrees
<1>5. awaiter'[now'] = "shielded" /\ worker'[now'] = "queued"
  BY <1>t, <1>1, <1>2 DEF T!TypeOK
<1>6. TypeOK'
  BY <1>t, <1>1, <1>2, <1>4 DEF TypeOK, T!TypeOK, T!Verdicts, T!WorkerPhases
<1>7. CallsInOrder'
  BY <1>t, <1>1, <1>2, <1>3 DEF IInv, TypeOK, T!TypeOK, CallsInOrder
<1>8. LastCall' BY <1>5 DEF LastCall
<1>9. IterAgrees' BY <1>1, <1>2, <1>4, <1>5 DEF IterAgrees
<1>10. FrameAgrees'
  BY <1>1, <1>2, <1>3, <1>5 DEF IInv, IterAgrees, FrameAgrees
<1>11. ValuesAgree'
  <2>1. ~Unseen /\ ~Unseen' BY <1>1, <1>3, <1>5 DEF Unseen
  <2> QED BY <1>1, <1>2, <2>1 DEF IInv, ValuesAgree
<1>12. EndingAgrees' BY <1>2 DEF IInv, EndingAgrees
<1> QED BY <1>6, <1>7, <1>8, <1>9, <1>10, <1>11, <1>12 DEF IInv

\* The generator is left without a call.
LEMMA LeaveIInv ==
    ASSUME IInv, NEW how \in {"closed", "thrown"}, LeaveWithoutCall(how)
    PROVE  IInv'
<1> USE DEF LeaveWithoutCall, callVars, genVars, IInv
<1>1. TypeOK' BY DEF TypeOK, T!TypeOK
<1>2. CallsInOrder' /\ LastCall' /\ FrameAgrees'
  BY DEF CallsInOrder, LastCall, FrameAgrees
<1>3. IterAgrees' BY DEF IterAgrees, LastCall, T!Verdicts
<1>4. ValuesAgree' BY DEF ValuesAgree, Unseen
<1>5. EndingAgrees' BY DEF EndingAgrees, IterAgrees, TypeOK
<1> QED BY <1>1, <1>2, <1>3, <1>4, <1>5

\* The await of a call comes back and the generator goes on or ends.
LEMMA CallEndsIInv ==
    ASSUME IInv, now > 0, CallEnds
    PROVE  IInv'
<1> USE MaxCallsAssumption DEF Calls
<1> DEFINE verdict == awaiter'[now]
<1>t. TypeOK /\ T!TypeOK BY DEF IInv, TypeOK
<1>1. now \in Calls BY <1>t DEF TypeOK
<1>2. /\ awaiter[now] \in {"shielded", "grace"}
      /\ \A c \in Calls \ {now} : awaiter'[c] = awaiter[c] /\ worker'[c] = worker[c]
      /\ verdict \in T!Verdicts
      /\ awaiter' \in [Calls -> T!Verdicts \cup {"idle", "shielded", "grace"}]
  BY <1>t, <1>1 DEF CallEnds, T!Deliver, T!Acknowledge, T!GiveUp, T!CancelAgain,
                    T!TypeOK, T!Verdicts
<1>3. /\ verdict = "returned" => awaiter[now] = "shielded" /\ worker[now] = "ok"
      /\ verdict = "raised" => worker[now] \in {"err", "timeouterr", "stopped"}
      /\ verdict \in {"cancelled", "gaveup"} => cancels'[now] > 0
      /\ worker'[now] = IF worker[now] = "queued" THEN "dropped" ELSE worker[now]
      /\ worker'[now] = "dropped" => verdict \in {"cancelled", "gaveup"}
      /\ verdict = "returned" <=> awaiter[now] = "shielded" /\ worker[now] = "ok"
  BY <1>t, <1>1 DEF CallEnds, T!Deliver, T!Acknowledge, T!GiveUp, T!CancelAgain,
                    T!TypeOK, T!WorkerEnded, T!Endings, T!WorkerPhases, T!Busy,
                    T!Withdrawn, IInv, LastCall
<1>4. T!TypeOK'
  <2> USE <1>t, <1>1 DEF T!TypeOK, T!WorkerEnded, T!Endings, T!WorkerPhases, T!Busy,
                         T!Verdicts
  <2>1. CASE T!Deliver(now) BY <2>1 DEF T!Deliver
  <2>2. CASE T!Acknowledge(now) BY <2>2 DEF T!Acknowledge
  <2>3. CASE T!GiveUp(now) BY <2>3 DEF T!GiveUp, T!Withdrawn
  <2>4. CASE T!CancelAgain(now) BY <2>4 DEF T!CancelAgain, T!Withdrawn
  <2> QED BY <2>1, <2>2, <2>3, <2>4 DEF CallEnds
<1>5. iter \in {"stepping", "closing"}
  BY <1>2 DEF IInv, IterAgrees, TypeOK, T!Verdicts
<1>6. UNCHANGED <<now, closing, frame, produced>> BY DEF CallEnds, Resume, genVars
<1>7. CallsInOrder' BY <1>1, <1>2, <1>6 DEF IInv, CallsInOrder
<1>8. LastCall'
  BY <1>2, <1>3, <1>6 DEF IInv, LastCall, T!Verdicts
<1>9. FrameAgrees' BY <1>3, <1>6 DEF IInv, FrameAgrees
<1>10. CASE iter = "stepping" /\ verdict = "returned"
  <2>1. iter' = "yielded" /\ got' = Append(got, produced) /\ ending' = ending
    BY <1>10 DEF CallEnds, Resume
  <2>2. closing = 0 BY <1>10 DEF IInv, IterAgrees
  <2>3. TypeOK' BY <1>4, <1>6, <2>1 DEF IInv, TypeOK
  <2>4. IterAgrees' BY <1>6, <1>10, <2>1, <2>2 DEF IInv, IterAgrees
  <2>5. ValuesAgree'
    <3>1. Unseen /\ ~Unseen' BY <1>3, <1>6, <1>10, <2>2 DEF Unseen
    <3>2. produced = Len(got) + 1 /\ got \in Seq(Nat)
      BY <3>1 DEF IInv, ValuesAgree, TypeOK
    <3>3. /\ Len(got') = Len(got) + 1
          /\ \A i \in DOMAIN got' : got'[i] = i
      BY <2>1, <3>2 DEF IInv, ValuesAgree
    <3>4. worker'[now] = "ok" BY <1>3, <1>10
    <3> QED BY <1>6, <3>1, <3>2, <3>3, <3>4 DEF IInv, ValuesAgree
  <2>6. EndingAgrees' BY <1>10, <2>1 DEF IInv, EndingAgrees
  <2> QED BY <1>7, <1>8, <1>9, <2>3, <2>4, <2>5, <2>6 DEF IInv
<1>11. CASE ~(iter = "stepping" /\ verdict = "returned")
  <2>1. iter' = "ended" /\ got' = got BY <1>11 DEF CallEnds, Resume
  <2>2. \/ ending' = "closed" /\ iter = "closing" /\ verdict = "returned"
        \/ ending' = "exhausted" /\ verdict = "raised" /\ frame = "exhausted"
        \/ /\ ending' = verdict /\ verdict # "returned"
           /\ ~(verdict = "raised" /\ frame = "exhausted")
    <3>1. ending' = CASE iter = "closing" /\ verdict = "returned" -> "closed"
                      [] verdict = "raised" /\ frame = "exhausted" -> "exhausted"
                      [] OTHER -> verdict
      BY <1>11, Zenon DEF CallEnds, Resume
    <3> QED BY <1>5, <1>11, <3>1
  <2>3. TypeOK' BY <1>2, <1>4, <1>6, <2>1, <2>2 DEF IInv, TypeOK
  <2>4. IterAgrees' BY <1>2, <1>6, <2>1 DEF IInv, IterAgrees
  <2>5. ValuesAgree'
    <3>1. Unseen <=> Unseen'
      BY <1>2, <1>3, <1>5, <1>6, <1>11 DEF Unseen, IInv, IterAgrees
    <3> QED BY <1>3, <1>6, <2>1, <3>1 DEF IInv, ValuesAgree
  <2>6. EndingAgrees'
    <3>1. verdict = "returned" => now = closing BY <1>5, <1>11 DEF IInv, IterAgrees
    <3> QED BY <1>2, <1>6, <2>1, <2>2, <3>1 DEF EndingAgrees, T!Verdicts
  <2> QED BY <1>7, <1>8, <1>9, <2>3, <2>4, <2>5, <2>6 DEF IInv
<1> QED BY <1>10, <1>11

\* The cancellation of the iterating task and the setting of an event concern
\* the call only.
LEMMA CancelIInv ==
    ASSUME IInv, (now > 0 /\ Cancel) \/ \E c \in Calls : SetEvent(c)
    PROVE  IInv'
<1> USE MaxCallsAssumption DEF Calls
<1>t. TypeOK /\ T!TypeOK BY DEF IInv, TypeOK
<1>0. UNCHANGED <<worker, wrote, seen, iter, ending, got, now, closing, frame, produced>>
  BY DEF Cancel, SetEvent, T!Cancel, T!SetEvent, iterVars, genVars
<1>1. T!TypeOK' BY <1>t DEF Cancel, SetEvent, T!Cancel, T!SetEvent, T!TypeOK, TypeOK
<1>2. TypeOK' BY <1>0, <1>1 DEF IInv, TypeOK
<1>3. CASE \E c \in Calls : SetEvent(c)
  <2>1. UNCHANGED <<awaiter, cancels>> BY <1>3 DEF SetEvent, T!SetEvent
  <2> QED BY <1>0, <1>2, <2>1
          DEF IInv, CallsInOrder, LastCall, IterAgrees, FrameAgrees, ValuesAgree,
              Unseen, EndingAgrees
<1>4. CASE now > 0 /\ Cancel
  <2>1. now \in Calls BY <1>4, <1>t DEF TypeOK
  <2>2. /\ awaiter[now] = "shielded" /\ awaiter'[now] = "grace" /\ cancels'[now] = 1
        /\ \A c \in Calls \ {now} : awaiter'[c] = awaiter[c]
    BY <1>4, <1>t, <2>1 DEF Cancel, T!Cancel, T!TypeOK
  <2>3. CallsInOrder' BY <1>0, <2>1, <2>2 DEF IInv, CallsInOrder
  <2>4. LastCall' BY <1>0, <2>2 DEF IInv, LastCall
  <2>5. IterAgrees' BY <1>0, <2>2 DEF IInv, IterAgrees, T!Verdicts
  <2>6. FrameAgrees' BY <1>0 DEF IInv, FrameAgrees
  <2>7. ValuesAgree' BY <1>0, <2>2 DEF IInv, ValuesAgree, Unseen
  <2>8. EndingAgrees' BY <1>0, <2>2 DEF IInv, EndingAgrees
  <2> QED BY <1>2, <2>3, <2>4, <2>5, <2>6, <2>7, <2>8 DEF IInv
<1> QED BY <1>3, <1>4

\* Only the last call has a worker that can start or run.
LEMMA WorkerIsLast ==
    ASSUME IInv, NEW c \in Calls, worker[c] \in {"queued", "running", "sleeping"}
    PROVE  c = now /\ now > 0 /\ now \in Nat
BY MaxCallsAssumption DEF Calls, IInv, CallsInOrder, TypeOK

\* A thread of the pool takes the step or the close.
LEMMA StartIInv ==
    ASSUME IInv, NEW c \in Calls, StartCall(c)
    PROVE  IInv'
<1>t. TypeOK /\ T!TypeOK BY DEF IInv, TypeOK
<1>1. c = now /\ now > 0 /\ now \in Nat BY WorkerIsLast DEF StartCall, T!Start
<1>2. /\ worker[now] = "queued" /\ worker'[now] = "running"
      /\ worker' \in [Calls -> T!WorkerPhases]
      /\ \A d \in Calls \ {now} : worker'[d] = worker[d]
      /\ frame' = "running"
      /\ UNCHANGED <<awaiter, event, cancels, wrote, seen, iter, ending, got, now,
                     closing, produced>>
  BY <1>t, <1>1 DEF StartCall, T!Start, T!TypeOK, T!WorkerPhases, T!Busy, iterVars
<1>3. TypeOK' BY <1>t, <1>2 DEF TypeOK, T!TypeOK
<1>4. CallsInOrder' BY <1>1, <1>2 DEF IInv, CallsInOrder, Calls
<1>5. LastCall' BY <1>2 DEF IInv, LastCall
<1>6. IterAgrees' BY <1>1, <1>2 DEF IInv, IterAgrees
<1>7. FrameAgrees' BY <1>2 DEF IInv, FrameAgrees
<1>8. ValuesAgree' BY <1>1, <1>2 DEF IInv, ValuesAgree, Unseen
<1>9. EndingAgrees' BY <1>2 DEF IInv, EndingAgrees, LastCall
<1> QED BY <1>3, <1>4, <1>5, <1>6, <1>7, <1>8, <1>9 DEF IInv

\* The frame yields, returns or raises, and the worker ends with it.
LEMMA FrameIInv ==
    ASSUME IInv, NEW c \in Calls, FrameYields(c) \/ FrameReturns(c) \/ FrameRaises(c)
    PROVE  IInv'
<1>t. TypeOK /\ T!TypeOK BY DEF IInv, TypeOK
<1>1. c = now /\ now > 0 /\ now \in Nat /\ worker[now] = "running"
  <2>1. worker[c] \in {"running", "sleeping"}
    BY DEF FrameYields, FrameReturns, FrameRaises, T!WorkerEnds, T!CheckCancelled
  <2>2. c = now /\ now > 0 /\ now \in Nat BY <2>1, WorkerIsLast
  <2> QED BY <2>1, <2>2 DEF IInv, LastCall
<1>2. UNCHANGED <<awaiter, event, cancels, wrote, seen, iter, ending, got, now, closing>>
  BY DEF FrameYields, FrameReturns, FrameRaises, T!WorkerEnds, T!CheckCancelled, iterVars
<1>3. PICK how \in {"ok", "err", "timeouterr", "stopped"} :
         worker' = [worker EXCEPT ![now] = how]
  BY <1>1 DEF FrameYields, FrameReturns, FrameRaises, T!WorkerEnds, T!CheckCancelled
<1>4. /\ worker'[now] = how
      /\ worker' \in [Calls -> T!WorkerPhases]
      /\ \A d \in Calls \ {now} : worker'[d] = worker[d]
  BY <1>t, <1>1, <1>3 DEF T!TypeOK, T!WorkerPhases, T!Endings
<1>5. /\ how = "ok" => frame' = IF now = closing THEN "closed" ELSE "suspended"
      /\ how = "err" =>
            frame' \in {"failed", IF now = closing THEN "suspended" ELSE "exhausted"}
      /\ how \in {"timeouterr", "stopped"} => frame' = "failed"
      /\ frame' \in FrameOver \cup {"suspended"}
      /\ produced' = IF how = "ok" /\ now # closing THEN produced + 1 ELSE produced
  BY <1>t, <1>1, <1>4 DEF FrameYields, FrameReturns, FrameRaises, T!WorkerEnds,
                          T!CheckCancelled, FrameOver, T!TypeOK
<1>6. awaiter[now] # "returned" /\ awaiter[now] # "raised" BY <1>1 DEF IInv, LastCall
<1>7. CallsInOrder' BY <1>1, <1>2, <1>4 DEF IInv, CallsInOrder, Calls
<1>8. LastCall' BY <1>2, <1>4, <1>6 DEF IInv, LastCall
<1>9. IterAgrees' BY <1>1, <1>2 DEF IInv, IterAgrees
<1>10. FrameAgrees' BY <1>2, <1>4, <1>5 DEF FrameAgrees
<1>11. ValuesAgree'
  <2>1. ~Unseen /\ produced < now /\ produced \in Nat
    BY <1>t, <1>1 DEF Unseen, IInv, ValuesAgree, TypeOK
  <2>2. Unseen' <=> how = "ok" /\ now # closing
    BY <1>1, <1>2, <1>4, <1>6 DEF Unseen
  <2> QED BY <1>1, <1>2, <1>4, <1>5, <2>1, <2>2 DEF IInv, ValuesAgree
<1>12. EndingAgrees' BY <1>1, <1>2, <1>6 DEF IInv, EndingAgrees
<1>13. TypeOK'
  <2>1. produced' \in 0..MaxCalls
    BY <1>t, <1>1, <1>2, <1>11, <1>5, MaxCallsAssumption DEF ValuesAgree, TypeOK
  <2> QED BY <1>t, <1>2, <1>4, <1>5, <2>1 DEF TypeOK, T!TypeOK
<1> QED BY <1>7, <1>8, <1>9, <1>10, <1>11, <1>12, <1>13 DEF IInv

\* The inductive invariant holds in every state of _iterate_threaded.
LEMMA InductiveInvariant == Spec => []IInv
<1>1. IInv /\ [Next]_vars => IInv'
  <2> SUFFICES ASSUME IInv, [Next]_vars PROVE IInv' OBVIOUS
  <2>1. CASE Asend
    <3>1. now < MaxCalls BY <2>1, MaxCallsAssumption DEF Asend, IInv, TypeOK
    <3> QED BY <2>1, <3>1, MakeCallIInv DEF Asend
  <2>2. CASE Aclose
    <3>1. now < MaxCalls BY <2>2 DEF Aclose, IInv, IterAgrees
    <3> QED BY <2>2, <3>1, MakeCallIInv DEF Aclose
  <2>3. CASE UNCHANGED vars
    BY <2>3 DEF vars, callVars, iterVars, genVars, IInv, TypeOK, T!TypeOK, CallsInOrder,
                LastCall, IterAgrees, FrameAgrees, ValuesAgree, Unseen, EndingAgrees
  <2> QED BY <2>1, <2>2, <2>3, LeaveIInv, CallEndsIInv, CancelIInv, StartIInv, FrameIInv
          DEF Next
<1> QED BY <1>1, InitIInv, PTL DEF Spec

-----------------------------------------------------------------------------
(* The theorems                                                            *)

\* Type correctness of the model of _iterate_threaded; with it, a synchronous
\* generator yields no more values than it was asked for.
THEOREM TypeCorrect == Spec => []TypeOK
<1>1. IInv => TypeOK BY DEF IInv
<1> QED BY <1>1, InductiveInvariant, PTL

\* No two threads of the pool are ever in the frame of the generator, however
\* the iterating task is cancelled: a step is made only after the one before has
\* returned.
THEOREM OneThreadAtATime == Spec => []OneThreadInTheFrame
<1>1. IInv => OneThreadInTheFrame
  BY MaxCallsAssumption
  DEF IInv, CallsInOrder, OneThreadInTheFrame, Calls, TypeOK, T!Endings
<1> QED BY <1>1, InductiveInvariant, PTL

\* The consumer of iterate_threaded sees every value once and in order, loses at
\* most the one it was cancelled in, and an iteration that ended by itself or was
\* closed leaves no frame behind.
THEOREM EndingsAreHonest == Spec => []EndingIsHonest
<1>1. IInv => EndingIsHonest
  <2> SUFFICES ASSUME IInv PROVE EndingIsHonest OBVIOUS
  <2> USE DEF IInv, TypeOK, T!TypeOK
  <2>1. \A i \in DOMAIN got : got[i] = i BY DEF ValuesAgree
  <2>2. Len(got) = produced \/ (now > 0 /\ Len(got) + 1 = produced /\ iter # "yielded")
    BY DEF ValuesAgree, Unseen, IterAgrees
  <2>3. iter = "ended" /\ Len(got) < produced => cancels[now] > 0
    BY DEF ValuesAgree, Unseen, IterAgrees, LastCall, T!Verdicts
  <2>4. iter = "ended" /\ frame \in {"running", "suspended"} =>
           ending = "thrown" \/ cancels[now] > 0 \/ (ending = "raised" /\ now = closing)
    BY MaxCallsAssumption
    DEF IterAgrees, LastCall, FrameAgrees, EndingAgrees, T!Verdicts, Calls
  <2>5. ending \in {"exhausted", "closed"} => frame \in FrameOver \cup {"none"}
    BY DEF IterAgrees, LastCall, FrameAgrees, EndingAgrees, FrameOver
  <2> HIDE DEF IInv, TypeOK, T!TypeOK
  <2> QED BY <2>1, <2>2, <2>3, <2>4, <2>5 DEF EndingIsHonest
<1> QED BY <1>1, InductiveInvariant, PTL
=============================================================================
