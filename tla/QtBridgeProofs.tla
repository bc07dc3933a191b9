--------------------------- MODULE QtBridgeProofs ---------------------------
(* Proofs about QtBridge, for any number of calls, any choice of the timed  *)
(* ones and any number of answers.                                          *)
EXTENDS QtBridge, TLAPS

-----------------------------------------------------------------------------
(* The inductive invariant, in parts                                       *)

\* What is posted and not yet run, p, is the last of what was said, s; what was
\* taken, g, and after it what the box holds, b, is the first of it.
InOrder(p, g, b, s) ==
    /\ Len(p) <= Len(s)
    /\ \A i \in 1..Len(p) : p[i] = s[Len(s) - Len(p) + i]
    /\ Len(g) + Len(b) <= Len(s)
    /\ \A i \in 1..Len(g) : g[i] = s[i]
    /\ \A i \in 1..Len(b) : b[i] = s[Len(g) + i]

\* Nothing was lost in between.
AllThere(p, g, b, s) == Len(g) + Len(b) + Len(p) = Len(s)

\* A generator loses nothing; a future takes one answer, and the first one unless
\* it was withdrawn before.
AnswersAgree(c) ==
    /\ InOrder(posted[c], got[c], box[c], said[c])
    /\ c \in QtGenerators => AllThere(posted[c], got[c], box[c], said[c])
    /\ c \in QtFutures =>
          \/ box[c] = <<>> /\ got[c] = <<>>
             /\ (withdrawn[c] \/ AllThere(posted[c], got[c], box[c], said[c]))
          \/ Len(box[c]) = 1 /\ got[c] = <<>>
          \/ box[c] = <<>> /\ Len(got[c]) = 1

\* All answers in g are values; all but the last are.
AllValues(g) == \A i \in 1..Len(g) : g[i].kind = "value"
EndsOnce(g)  == \A i \in 1..Len(g) : g[i].kind # "value" => i = Len(g)

\* The coroutine waits on only while all it took were values of a generator.
KindsAgree(c) ==
    /\ awaiter[c] \notin Over => AllValues(got[c]) /\ (c \in QtFutures => got[c] = <<>>)
    /\ EndsOnce(got[c])
    /\ awaiter[c] = "yielded" => c \notin QtFutures
    /\ awaiter[c] = "returned" =>
          got[c] # <<>> /\ (c \in QtGenerators => Last(got[c]).kind = "stop")

\* A QtFuture that was answered is flagged, one that is over can be told to be.
FlagsAgree(c) ==
    /\ withdrawn[c] => awaiter[c] \in Over
    /\ c \in QtFutures =>
          /\ said[c] # <<>> => flagged[c]
          /\ awaiter[c] \in Over => flagged[c] \/ iscancelled[c] \/ withdrawn[c]

CallAgrees(c) ==
    AnswersAgree(c) /\ KindsAgree(c) /\ FlagsAgree(c)

IInv == TypeOK /\ \A c \in Calls : CallAgrees(c)

-----------------------------------------------------------------------------
(* Sequences                                                               *)

\* A sequence that agrees with the first elements of another is its prefix.
LEMMA PrefixPointwise ==
    ASSUME NEW S, NEW s \in Seq(S), NEW t \in Seq(S), Len(s) <= Len(t),
           \A i \in 1..Len(s) : s[i] = t[i]
    PROVE  IsPrefix(s, t)
<1>1. SubSeq(s, 1, Len(s)) = s OBVIOUS
<1>2. SubSeq(t, 1, Len(s)) = s OBVIOUS
<1> QED BY <1>1, <1>2 DEF IsPrefix

\* An answer said last and posted last keeps the order.
LEMMA SaidLast ==
    ASSUME NEW S, NEW s \in Seq(S), NEW p \in Seq(S), NEW g \in Seq(S), NEW b \in Seq(S),
           NEW e \in S, InOrder(p, g, b, s)
    PROVE  /\ InOrder(Append(p, e), g, b, Append(s, e))
           /\ AllThere(p, g, b, s) => AllThere(Append(p, e), g, b, Append(s, e))
<1> DEFINE pe == Append(p, e)
           se == Append(s, e)
           lp == Len(p)
           lg == Len(g)
           lb == Len(b)
           ls == Len(s)
           lpe == Len(pe)
           lse == Len(se)
<1>1. lp \in Nat /\ lg \in Nat /\ lb \in Nat /\ ls \in Nat OBVIOUS
<1>2. /\ lpe = lp + 1 /\ pe[lp + 1] = e /\ \A i \in 1..lp : pe[i] = p[i]
  OBVIOUS
<1>3. /\ lse = ls + 1 /\ se[ls + 1] = e /\ \A i \in 1..ls : se[i] = s[i]
  OBVIOUS
<1>4. /\ lp <= ls /\ \A i \in 1..lp : p[i] = s[ls - lp + i]
      /\ lg + lb <= ls /\ \A i \in 1..lg : g[i] = s[i]
      /\ \A i \in 1..lb : b[i] = s[lg + i]
  BY DEF InOrder
<1> HIDE DEF pe, se, lp, lg, lb, ls, lpe, lse
<1>5. lpe <= lse /\ lg + lb <= lse BY <1>1, <1>2, <1>3, <1>4
<1>6. \A i \in 1..lg : g[i] = se[i] BY <1>1, <1>3, <1>4
<1>7. \A i \in 1..lb : b[i] = se[lg + i] BY <1>1, <1>3, <1>4
<1>8. \A i \in 1..lpe : pe[i] = se[lse - lpe + i] 
  <2>1. ASSUME NEW i \in 1..lp PROVE pe[i] = se[lse - lpe + i]
    <3>1. ls - lp + i \in 1..ls BY <1>1, <1>4
    <3>2. lse - lpe + i = ls - lp + i BY <1>1, <1>2, <1>3
    <3> QED BY <1>2, <1>3, <1>4, <3>1, <3>2
  <2>2. pe[lpe] = se[lse - lpe + lpe]
    <3>1. lse - lpe + lpe = ls + 1 BY <1>1, <1>2, <1>3
    <3> QED BY <1>2, <1>3, <3>1
  <2>3. \A i \in 1..lpe : i \in 1..lp \/ i = lpe BY <1>1, <1>2
  <2> QED BY <2>1, <2>2, <2>3
<1>9. lg + lb + lp = ls => lg + lb + lpe = lse BY <1>1, <1>2, <1>3
<1>10. InOrder(pe, g, b, se)
  BY <1>5, <1>6, <1>7, <1>8, Zenon DEF InOrder, lg, lb, lpe, lse
<1>11. AllThere(p, g, b, s) => AllThere(pe, g, b, se)
  BY <1>9, Zenon DEF AllThere, lg, lb, lp, ls, lpe, lse
<1> QED BY <1>10, <1>11 DEF pe, se

\* The first of what is posted is run and ignored, or put into the box: if nothing
\* was lost it is the next of what was said.
LEMMA PostedFirst ==
    ASSUME NEW S, NEW s \in Seq(S), NEW p \in Seq(S), NEW g \in Seq(S), NEW b \in Seq(S),
           p # <<>>, InOrder(p, g, b, s)
    PROVE  /\ InOrder(Tail(p), g, b, s)
           /\ AllThere(p, g, b, s) =>
                 /\ InOrder(Tail(p), g, Append(b, Head(p)), s)
                 /\ AllThere(Tail(p), g, Append(b, Head(p)), s)
<1> DEFINE pt == Tail(p)
           e == Head(p)
           be == Append(b, e)
           lp == Len(p)
           lg == Len(g)
           lb == Len(b)
           ls == Len(s)
           lpt == Len(pt)
           lbe == Len(be)
<1>1. lp \in Nat \ {0} /\ lg \in Nat /\ lb \in Nat /\ ls \in Nat OBVIOUS
<1>2. lpt = lp - 1 /\ e = p[1] /\ \A i \in 1..lpt : pt[i] = p[i + 1] OBVIOUS
<1>3. lbe = lb + 1 /\ be[lb + 1] = e /\ \A i \in 1..lb : be[i] = b[i]
  <2>1. e \in S OBVIOUS
  <2> HIDE DEF e
  <2> QED BY <2>1
<1>4. /\ lp <= ls /\ \A i \in 1..lp : p[i] = s[ls - lp + i]
      /\ lg + lb <= ls /\ \A i \in 1..lg : g[i] = s[i]
      /\ \A i \in 1..lb : b[i] = s[lg + i]
  BY DEF InOrder
<1> HIDE DEF pt, e, be, lp, lg, lb, ls, lpt, lbe
<1>5. lpt <= ls BY <1>1, <1>2, <1>4
<1>6. \A i \in 1..lpt : pt[i] = s[ls - lpt + i]
  <2>1. ASSUME NEW i \in 1..lpt PROVE pt[i] = s[ls - lpt + i]
    <3>1. i + 1 \in 1..lp BY <1>1, <1>2
    <3>2. ls - lp + (i + 1) = ls - lpt + i BY <1>1, <1>2
    <3> QED BY <1>2, <1>4, <3>1, <3>2
  <2> QED BY <2>1
<1>7. InOrder(pt, g, b, s)
  BY <1>4, <1>5, <1>6, Zenon DEF InOrder, lg, lb, ls, lpt
<1>8. ASSUME AllThere(p, g, b, s) PROVE InOrder(pt, g, be, s) /\ AllThere(pt, g, be, s)
  <2>1. lg + lb + lp = ls BY <1>8, Zenon DEF AllThere, lg, lb, lp, ls
  <2>2. lg + lbe <= ls /\ lg + lbe + lpt = ls BY <1>1, <1>2, <1>3, <2>1
  <2>3. be[lbe] = s[lg + lbe]
    <3>1. ls - lp + 1 = lg + lbe BY <1>1, <1>3, <2>1
    <3>2. 1 \in 1..lp BY <1>1
    <3> QED BY <1>2, <1>3, <1>4, <3>1, <3>2
  <2>4. \A i \in 1..lbe : i \in 1..lb \/ i = lbe BY <1>1, <1>3
  <2>5. \A i \in 1..lbe : be[i] = s[lg + i] BY <1>3, <1>4, <2>3, <2>4
  <2>6. InOrder(pt, g, be, s)
    BY <1>4, <1>5, <1>6, <2>2, <2>5, Zenon DEF InOrder, lg, ls, lpt, lbe
  <2>7. AllThere(pt, g, be, s) BY <2>2, Zenon DEF AllThere, lg, ls, lpt, lbe
  <2> QED BY <2>6, <2>7
<1> QED BY <1>7, <1>8 DEF pt, be, e

\* The first of the box is taken: it is the next of what was taken.
LEMMA BoxFirst ==
    ASSUME NEW S, NEW s \in Seq(S), NEW p \in Seq(S), NEW g \in Seq(S), NEW b \in Seq(S),
           b # <<>>, InOrder(p, g, b, s)
    PROVE  /\ InOrder(p, Append(g, Head(b)), Tail(b), s)
           /\ AllThere(p, g, b, s) => AllThere(p, Append(g, Head(b)), Tail(b), s)
           /\ s # <<>>
<1> DEFINE bt == Tail(b)
           e == Head(b)
           ge == Append(g, e)
           lp == Len(p)
           lg == Len(g)
           lb == Len(b)
           ls == Len(s)
           lbt == Len(bt)
           lge == Len(ge)
<1>1. lp \in Nat /\ lg \in Nat /\ lb \in Nat \ {0} /\ ls \in Nat OBVIOUS
<1>2. lbt = lb - 1 /\ e = b[1] /\ \A i \in 1..lbt : bt[i] = b[i + 1] OBVIOUS
<1>3. lge = lg + 1 /\ ge[lg + 1] = e /\ \A i \in 1..lg : ge[i] = g[i]
  <2>1. e \in S OBVIOUS
  <2> HIDE DEF e
  <2> QED BY <2>1
<1>4. /\ lp <= ls /\ \A i \in 1..lp : p[i] = s[ls - lp + i]
      /\ lg + lb <= ls /\ \A i \in 1..lg : g[i] = s[i]
      /\ \A i \in 1..lb : b[i] = s[lg + i]
  BY DEF InOrder
<1>5. s = <<>> => ls = 0 OBVIOUS
<1> HIDE DEF bt, e, ge, lp, lg, lb, ls, lbt, lge
<1>6. s # <<>> BY <1>1, <1>4, <1>5
<1>7. lge + lbt = lg + lb BY <1>1, <1>2, <1>3
<1>8. \A i \in 1..lge : ge[i] = s[i]
  <2>1. \A i \in 1..lge : i \in 1..lg \/ i = lg + 1 BY <1>1, <1>3
  <2>2. 1 \in 1..lb BY <1>1
  <2> QED BY <1>2, <1>3, <1>4, <2>1, <2>2
<1>9. \A i \in 1..lbt : bt[i] = s[lge + i]
  <2>1. ASSUME NEW i \in 1..lbt PROVE bt[i] = s[lge + i]
    <3>1. i + 1 \in 1..lb BY <1>1, <1>2
    <3>2. lg + (i + 1) = lge + i BY <1>1, <1>3
    <3> QED BY <1>2, <1>4, <3>1, <3>2
  <2> QED BY <2>1
<1>10. lge + lbt <= ls BY <1>4, <1>7
<1>11. InOrder(p, ge, bt, s)
  BY <1>4, <1>8, <1>9, <1>10, Zenon DEF InOrder, lp, ls, lbt, lge
<1>12. lg + lb + lp = ls => lge + lbt + lp = ls BY <1>7
<1>13. AllThere(p, g, b, s) => AllThere(p, ge, bt, s)
  BY <1>12, Zenon DEF AllThere, lp, lg, lb, ls, lbt, lge
<1> QED BY <1>6, <1>11, <1>13 DEF ge, bt, e

\* The only answer leaves nothing behind, and is one answer to who had none.
LEMMA TailOfOne ==
    /\ \A s \in Seq(Answers) : Len(s) = 1 => Tail(s) = <<>>
    /\ \A a \in Answers : Len(Append(<<>>, a)) = 1
<1>1. ASSUME NEW s \in Seq(Answers), Len(s) = 1 PROVE Tail(s) = <<>>
  <2>0. Len(<<>>) # 1 OBVIOUS
  <2>1. s # <<>> BY <1>1, <2>0, Zenon
  <2>2. Tail(s) \in Seq(Answers) /\ Len(Tail(s)) = 0 BY <1>1, <2>1
  <2>3. \A t \in Seq(Answers) : Len(t) = 0 => t = <<>> OBVIOUS
  <2> QED BY <2>2, <2>3, Zenon
<1>2. \A a \in Answers : Len(Append(<<>>, a)) = 1 OBVIOUS
<1> QED BY <1>1, <1>2

\* An answer taken after values only is the one that may end the iteration.
LEMMA TakenLast ==
    ASSUME NEW g \in Seq(Answers), NEW e \in Answers, AllValues(g)
    PROVE  /\ EndsOnce(Append(g, e)) /\ Append(g, e) # <<>> /\ Last(Append(g, e)) = e
           /\ e.kind = "value" => AllValues(Append(g, e))
<1> DEFINE ge == Append(g, e)
<1>1. /\ ge \in Seq(Answers) /\ Len(ge) = Len(g) + 1 /\ Len(g) \in Nat
      /\ ge[Len(g) + 1] = e /\ \A i \in 1..Len(g) : ge[i] = g[i]
  OBVIOUS
<1>2. ge # <<>> BY <1>1
<1> HIDE DEF ge
<1>3. EndsOnce(ge) /\ (e.kind = "value" => AllValues(ge))
  BY <1>1 DEF EndsOnce, AllValues
<1>4. Last(ge) = e BY <1>1 DEF Last
<1> QED BY <1>2, <1>3, <1>4 DEF ge

-----------------------------------------------------------------------------
(* Type correctness                                                        *)

\* An answer within the bound is one.
LEMMA AnswerType ==
    ASSUME TypeOK, NEW c \in Calls, NEW kind \in Kinds, Post(c, kind)
    PROVE  [kind |-> kind, n |-> Len(said[c]) + 1] \in Answers
<1>1. Len(said[c]) \in Nat /\ Len(said[c]) < MaxSays BY DEF Post, TypeOK
<1>2. Len(said[c]) + 1 \in 1..MaxSays BY <1>1, MaxSaysAssumption
<1> QED BY <1>2 DEF Kinds, Answers

\* An answer is posted, or not, without harm to the types.
LEMMA PostType ==
    ASSUME TypeOK, NEW c \in Calls, NEW kind \in Kinds, Post(c, kind)
    PROVE  /\ flagged' \in [Calls -> BOOLEAN]
           /\ said' \in [Calls -> Seq(Answers)]
           /\ posted' \in [Calls -> Seq(Answers)]
<1>1. flagged' \in [Calls -> BOOLEAN] BY Zenon DEF Post, TypeOK
<1> DEFINE answer == [kind |-> kind, n |-> Len(said[c]) + 1]
<1>2. answer \in Answers BY AnswerType
<1>3. \/ /\ said' = [said EXCEPT ![c] = Append(said[c], answer)]
         /\ posted' = [posted EXCEPT ![c] = Append(posted[c], answer)]
      \/ UNCHANGED <<said, posted>>
  BY DEF Post
<1> HIDE DEF answer
<1>4. Append(said[c], answer) \in Seq(Answers) /\ Append(posted[c], answer) \in Seq(Answers)
  BY <1>2 DEF TypeOK
<1>5. said \in [Calls -> Seq(Answers)] /\ posted \in [Calls -> Seq(Answers)] BY DEF TypeOK
<1>6. \A f \in [Calls -> Seq(Answers)], s \in Seq(Answers) :
         [f EXCEPT ![c] = s] \in [Calls -> Seq(Answers)]
  BY Zenon
<1>7. said' \in [Calls -> Seq(Answers)] /\ posted' \in [Calls -> Seq(Answers)]
  BY <1>3, <1>4, <1>5, <1>6, Zenon
<1> QED BY <1>1, <1>7

\* A cancellation keeps the types.
LEMMA CancelAwaitsType ==
    ASSUME TypeOK, NEW cs \in SUBSET Calls, NEW heard \in SUBSET Calls,
           CancelAwaits(cs, heard), LoopTypeOK'
    PROVE  TypeOK'
<1> USE DEF TypeOK, CancelAwaits, slotVars, boxVars
<1>1. awaiter' \in [Calls -> Over \cup {"idle", "awaiting", "yielded"}] BY DEF Over
<1>2. iscancelled' \in [Calls -> BOOLEAN] BY Zenon
<1>3. withdrawn' \in [Calls -> BOOLEAN] BY Zenon
<1> QED BY <1>1, <1>2, <1>3

\* Every step keeps the types.
LEMMA NextTypeOK == TypeOK /\ [Next]_vars => TypeOK'
<1> SUFFICES ASSUME TypeOK, [Next]_vars PROVE TypeOK' OBVIOUS
<1> USE DEF TypeOK, LoopTypeOK, endVars, slotVars, boxVars, loopVars
<1>1. ASSUME NEW c \in Calls, OnCalled(c) \/ SlotReturns(c) PROVE TypeOK'
  BY <1>1 DEF OnCalled, SlotReturns
<1>2. ASSUME NEW c \in Calls, NEW kind \in Kinds, Say(c, kind) PROVE TypeOK'
  <2>1. /\ flagged' \in [Calls -> BOOLEAN] /\ said' \in [Calls -> Seq(Answers)]
        /\ posted' \in [Calls -> Seq(Answers)]
    BY <1>2, PostType DEF Say
  <2> QED BY <1>2, <2>1 DEF Say
<1>3. ASSUME NEW c \in Calls, SlotRaises(c) PROVE TypeOK'
  <2>1. /\ flagged' \in [Calls -> BOOLEAN] /\ said' \in [Calls -> Seq(Answers)]
        /\ posted' \in [Calls -> Seq(Answers)]
    BY <1>3, PostType DEF SlotRaises, Kinds
  <2> QED BY <1>3, <2>1 DEF SlotRaises
<1>4. ASSUME NEW c \in Calls, Acall(c) \/ Anext(c) \/ Close(c) PROVE TypeOK'
  BY <1>4 DEF Acall, Anext, Close, Over
<1>5. ASSUME NEW c \in Calls, Deposit(c) PROVE TypeOK' BY <1>5 DEF Deposit
<1>6. ASSUME NEW c \in Calls, Take(c) PROVE TypeOK'
  <2>1. AfterAnswer(c, Head(box[c]).kind) \in Over \cup {"yielded"}
    BY DEF AfterAnswer, Over
  <2>2. awaiter' \in [Calls -> Over \cup {"idle", "awaiting", "yielded"}]
    BY <1>6, <2>1 DEF Take
  <2>3. got' \in [Calls -> Seq(Answers)] /\ box' \in [Calls -> Seq(Answers)]
    <3>1. got[c] \in Seq(Answers) /\ box[c] \in Seq(Answers) /\ box[c] # <<>> BY <1>6 DEF Take
    <3>2. Append(got[c], Head(box[c])) \in Seq(Answers) /\ Tail(box[c]) \in Seq(Answers)
      BY <3>1
    <3>3. \A f \in [Calls -> Seq(Answers)], s \in Seq(Answers) :
             [f EXCEPT ![c] = s] \in [Calls -> Seq(Answers)]
      BY Zenon
    <3>4. /\ got' = [got EXCEPT ![c] = Append(got[c], Head(box[c]))]
          /\ box' = [box EXCEPT ![c] = Tail(box[c])]
      BY <1>6 DEF Take
    <3> QED BY <3>2, <3>3, <3>4
  <2> QED BY <1>6, <2>2, <2>3 DEF Take
<1>7. ASSUME NEW c \in Calls, TimesOut(c) PROVE TypeOK'
  <2>1. withdrawn' \in [Calls -> BOOLEAN] BY <1>7, Zenon DEF TimesOut
  <2> QED BY <1>7, <2>1 DEF TimesOut, Over
<1>8. ASSUME NEW c \in Calls, Cancel(c) PROVE TypeOK'
  <2>1. PICK heard \in SUBSET {c} : CancelAwaits({c}, heard) BY <1>8 DEF Cancel
  <2>2. LoopTypeOK' BY <1>8 DEF Cancel
  <2> QED BY <2>1, <2>2, CancelAwaitsType
<1>9. CASE Drain
  <2>1. PICK heard \in SUBSET Awaiting : CancelAwaits(Awaiting, heard) BY <1>9 DEF Drain
  <2>2. LoopTypeOK' BY <1>9 DEF Drain, StopRuns
  <2>3. Awaiting \in SUBSET Calls BY DEF Awaiting
  <2> QED BY <2>1, <2>2, <2>3, CancelAwaitsType
<1>10. CASE CloseWindow \/ ExitWaits \/ LoopEnds
  BY <1>10 DEF CloseWindow, ExitCall, ExitWaits, JoinReturns, JoinTimesOut, Abandon,
               LoopEnds, GatherDone, CloseLoop
<1>11. CASE UNCHANGED vars BY <1>11 DEF vars
<1> HIDE DEF TypeOK
<1> QED BY <1>1, <1>2, <1>3, <1>4, <1>5, <1>6, <1>7, <1>8, <1>9, <1>10, <1>11 DEF Next

\* Type correctness of the model of qt_to_async and qt_gen_to_async_gen.
THEOREM TypeCorrect == Spec => []TypeOK
<1>1. Init => TypeOK BY DEF Init, LoopInit, TypeOK, LoopTypeOK
<1> QED BY <1>1, NextTypeOK, PTL DEF Spec

-----------------------------------------------------------------------------
(* The invariant is inductive                                              *)

\* A call is in order as long as what it holds is not touched.
LEMMA SameCall ==
    ASSUME NEW d \in Calls, CallAgrees(d),
           awaiter'[d] = awaiter[d], flagged'[d] = flagged[d],
           iscancelled'[d] = iscancelled[d], said'[d] = said[d],
           posted'[d] = posted[d], box'[d] = box[d],
           withdrawn'[d] = withdrawn[d], got'[d] = got[d]
    PROVE  CallAgrees(d)'
<1> USE DEF CallAgrees
<1>1. AnswersAgree(d)' BY DEF AnswersAgree
<1>2. KindsAgree(d)' BY DEF KindsAgree
<1>3. FlagsAgree(d)' BY DEF FlagsAgree
<1> QED BY <1>1, <1>2, <1>3

\* A step of the coroutine that takes no answer: of its call only awaiter,
\* iscancelled and withdrawn change.  It may stop waiting, and then Qt can tell.
LEMMA CoroutineMoves ==
    ASSUME NEW d \in Calls, CallAgrees(d),
           flagged'[d] = flagged[d], said'[d] = said[d], posted'[d] = posted[d],
           box'[d] = box[d], got'[d] = got[d],
           awaiter'[d] \notin Over => awaiter[d] \notin Over /\ ~withdrawn'[d],
           awaiter'[d] \in {"returned", "yielded"} => awaiter'[d] = awaiter[d],
           withdrawn[d] => withdrawn'[d],
           d \in QtFutures /\ awaiter'[d] \in Over =>
               flagged[d] \/ iscancelled'[d] \/ withdrawn'[d]
    PROVE  CallAgrees(d)'
<1> USE DEF CallAgrees
<1>1. AnswersAgree(d)' BY DEF AnswersAgree
<1>2. KindsAgree(d)' BY DEF KindsAgree
<1>3. FlagsAgree(d)' BY DEF FlagsAgree
<1> QED BY <1>1, <1>2, <1>3

\* An answer is said last and posted last.
LEMMA PostKeeps ==
    ASSUME IInv, NEW c \in Calls, NEW kind \in Kinds, Post(c, kind),
           UNCHANGED <<endVars, box>>
    PROVE  \A d \in Calls : CallAgrees(d)'
<1>t. TypeOK BY DEF IInv
<1> USE DEF endVars
<1>1. \A d \in Calls \ {c} : flagged'[d] = flagged[d] BY <1>t DEF Post, TypeOK
<1>2. \A d \in Calls \ {c} : said'[d] = said[d] /\ posted'[d] = posted[d]
  BY <1>t DEF Post, TypeOK
<1>3. ASSUME NEW d \in Calls \ {c} PROVE CallAgrees(d)'
  BY <1>1, <1>2, <1>3, SameCall DEF IInv
<1>4. c \in QtFutures => flagged'[c] BY <1>t DEF Post, TypeOK
<1>5. CallAgrees(c) BY DEF IInv
<1>6. KindsAgree(c)' BY <1>5 DEF CallAgrees, KindsAgree
<1>7. FlagsAgree(c)' BY <1>4, <1>5 DEF CallAgrees, FlagsAgree
<1>8. AnswersAgree(c)'
  <2>1. CASE ~LoopAlive
    <3>1. UNCHANGED <<said, posted>> BY <2>1 DEF Post
    <3> QED BY <1>5, <3>1 DEF CallAgrees, AnswersAgree
  <2>2. CASE LoopAlive
    <3> DEFINE answer == [kind |-> kind, n |-> Len(said[c]) + 1]
    <3>1. said'[c] = Append(said[c], answer) /\ posted'[c] = Append(posted[c], answer)
      BY <2>2, <1>t DEF Post, TypeOK
    <3>2. /\ said[c] \in Seq(Answers) /\ posted[c] \in Seq(Answers)
          /\ box[c] \in Seq(Answers) /\ got[c] \in Seq(Answers)
      BY <1>t DEF TypeOK
    <3>3. answer \in Answers BY <1>t, AnswerType
    <3> HIDE DEF answer
    <3>4. /\ InOrder(posted'[c], got[c], box[c], said'[c])
          /\ AllThere(posted[c], got[c], box[c], said[c]) =>
                AllThere(posted'[c], got[c], box[c], said'[c])
      BY <1>5, <3>1, <3>2, <3>3, SaidLast DEF CallAgrees, AnswersAgree
    <3> QED BY <1>5, <3>4 DEF CallAgrees, AnswersAgree
  <2> QED BY <2>1, <2>2
<1> QED BY <1>3, <1>6, <1>7, <1>8 DEF CallAgrees

\* A posted callback runs.
LEMMA DepositKeeps ==
    ASSUME IInv, NEW c \in Calls, Deposit(c)
    PROVE  \A d \in Calls : CallAgrees(d)'
<1>t. TypeOK BY DEF IInv
<1>1. UNCHANGED <<awaiter, iscancelled, withdrawn, got, flagged, said>>
  BY DEF Deposit, endVars, slotVars
<1>2. \A d \in Calls \ {c} : posted'[d] = posted[d] /\ box'[d] = box[d]
  BY <1>t DEF Deposit, TypeOK
<1>3. ASSUME NEW d \in Calls \ {c} PROVE CallAgrees(d)'
  BY <1>1, <1>2, <1>3, SameCall DEF IInv
<1>4. CallAgrees(c) BY DEF IInv
<1>5. KindsAgree(c)' BY <1>1, <1>4 DEF CallAgrees, KindsAgree
<1>6. FlagsAgree(c)' BY <1>1, <1>4 DEF CallAgrees, FlagsAgree
<1>7. AnswersAgree(c)'
  <2>1. /\ said[c] \in Seq(Answers) /\ posted[c] \in Seq(Answers)
        /\ box[c] \in Seq(Answers) /\ got[c] \in Seq(Answers) /\ posted[c] # <<>>
    BY <1>t DEF TypeOK, Deposit
  <2>2. posted'[c] = Tail(posted[c]) BY <1>t DEF Deposit, TypeOK
  <2>3. /\ InOrder(posted'[c], got[c], box[c], said[c])
        /\ AllThere(posted[c], got[c], box[c], said[c]) =>
              /\ InOrder(posted'[c], got[c], Append(box[c], Head(posted[c])), said[c])
              /\ AllThere(posted'[c], got[c], Append(box[c], Head(posted[c])), said[c])
    BY <1>4, <2>1, <2>2, PostedFirst DEF CallAgrees, AnswersAgree
  <2>4. CASE c \in QtFutures /\ (withdrawn[c] \/ got[c] # <<>> \/ box[c] # <<>>)
    <3>1. box'[c] = box[c] BY <1>t, <2>4 DEF Deposit, TypeOK
    <3>2. c \notin QtGenerators BY <2>4, KindsAssumption
    <3> QED BY <1>1, <1>4, <2>3, <2>4, <3>1, <3>2 DEF CallAgrees, AnswersAgree
  <2>5. CASE ~(c \in QtFutures /\ (withdrawn[c] \/ got[c] # <<>> \/ box[c] # <<>>))
    <3>1. box'[c] = Append(box[c], Head(posted[c])) BY <1>t, <2>5 DEF Deposit, TypeOK
    <3>2. AllThere(posted[c], got[c], box[c], said[c])
      BY <1>4, <2>5 DEF CallAgrees, AnswersAgree, Calls
    <3>3. c \in QtFutures => Len(box'[c]) = 1 /\ got[c] = <<>>
      BY <2>1, <2>5, <3>1
    <3> QED BY <1>1, <2>3, <3>1, <3>2, <3>3 DEF AnswersAgree
  <2> QED BY <2>4, <2>5
<1> QED BY <1>3, <1>5, <1>6, <1>7 DEF CallAgrees

\* The coroutine takes an answer.
LEMMA TakeKeeps ==
    ASSUME IInv, NEW c \in Calls, Take(c)
    PROVE  \A d \in Calls : CallAgrees(d)'
<1>t. TypeOK BY DEF IInv
<1>1. UNCHANGED <<iscancelled, withdrawn, flagged, said, posted>> BY DEF Take, slotVars
<1>2. \A d \in Calls \ {c} : awaiter'[d] = awaiter[d] /\ got'[d] = got[d] /\ box'[d] = box[d]
  BY <1>t DEF Take, TypeOK
<1>3. ASSUME NEW d \in Calls \ {c} PROVE CallAgrees(d)'
  BY <1>1, <1>2, <1>3, SameCall DEF IInv
<1>4. CallAgrees(c) BY DEF IInv
<1>5. /\ said[c] \in Seq(Answers) /\ posted[c] \in Seq(Answers)
      /\ box[c] \in Seq(Answers) /\ got[c] \in Seq(Answers) /\ box[c] # <<>>
  BY <1>t DEF TypeOK, Take
<1> DEFINE e == Head(box[c])
<1>6. /\ got'[c] = Append(got[c], e) /\ box'[c] = Tail(box[c])
      /\ awaiter'[c] = AfterAnswer(c, e.kind)
  BY <1>t DEF Take, TypeOK
<1>7. e \in Answers BY <1>5
<1>8. AnswersAgree(c)'
  <2>1. /\ InOrder(posted[c], got'[c], box'[c], said[c])
        /\ AllThere(posted[c], got[c], box[c], said[c]) =>
              AllThere(posted[c], got'[c], box'[c], said[c])
    BY <1>4, <1>5, <1>6, BoxFirst DEF CallAgrees, AnswersAgree
  <2>2. c \in QtFutures => box'[c] = <<>> /\ Len(got'[c]) = 1
    <3>1. ASSUME c \in QtFutures PROVE Len(box[c]) = 1 /\ got[c] = <<>>
      BY <1>4, <1>5, <3>1 DEF CallAgrees, AnswersAgree
    <3> HIDE DEF e
    <3> QED BY <1>5, <1>6, <1>7, <3>1, TailOfOne
  <2> QED BY <1>1, <1>4, <2>1, <2>2 DEF CallAgrees, AnswersAgree
<1>9. awaiter[c] = "awaiting" /\ "awaiting" \notin Over BY DEF Take, Over
<1>10. AllValues(got[c]) BY <1>4, <1>9 DEF CallAgrees, KindsAgree
<1> HIDE DEF e
<1>11. /\ EndsOnce(got'[c]) /\ got'[c] # <<>> /\ Last(got'[c]) = e
       /\ e.kind = "value" => AllValues(got'[c])
  BY <1>5, <1>6, <1>7, <1>10, TakenLast
<1>12. /\ awaiter'[c] \notin Over => e.kind = "value" /\ c \notin QtFutures
       /\ awaiter'[c] = "returned" /\ c \in QtGenerators => e.kind = "stop"
       /\ awaiter'[c] = "yielded" => c \notin QtFutures
  <2>1. e.kind \in {"value", "error", "stop"} BY <1>7 DEF Answers
  <2> QED BY <1>6, <2>1, KindsAssumption DEF AfterAnswer, Over, Calls
<1>13. KindsAgree(c)' BY <1>11, <1>12 DEF KindsAgree
<1>14. FlagsAgree(c)'
  <2>1. said[c] # <<>>
    BY <1>4, <1>5, BoxFirst DEF CallAgrees, AnswersAgree
  <2>2. ~withdrawn[c] BY <1>4, <1>9 DEF CallAgrees, FlagsAgree
  <2> QED BY <1>1, <1>4, <2>1, <2>2 DEF CallAgrees, FlagsAgree
<1> QED BY <1>3, <1>8, <1>13, <1>14 DEF CallAgrees

\* An asyncio future that is done belongs to a flagged QtFuture.
LEMMA DoneIsFlagged ==
    ASSUME IInv, NEW c \in QtFutures, box[c] # <<>>
    PROVE  flagged[c]
<1>1. c \in Calls BY DEF Calls
<1>2. /\ said[c] \in Seq(Answers) /\ posted[c] \in Seq(Answers)
      /\ box[c] \in Seq(Answers) /\ got[c] \in Seq(Answers)
  BY <1>1 DEF IInv, TypeOK
<1>3. InOrder(posted[c], got[c], box[c], said[c])
  BY <1>1 DEF IInv, CallAgrees, AnswersAgree
<1>4. said[c] # <<>> BY <1>2, <1>3, BoxFirst
<1> QED BY <1>1, <1>4 DEF IInv, CallAgrees, FlagsAgree

\* The timeout withdraws the future or finds it done.
LEMMA TimesOutKeeps ==
    ASSUME IInv, NEW c \in Calls, TimesOut(c)
    PROVE  \A d \in Calls : CallAgrees(d)'
<1>t. TypeOK BY DEF IInv
<1>1. UNCHANGED <<iscancelled, got, flagged, said, posted, box>>
  BY DEF TimesOut, slotVars, boxVars
<1>2. \A d \in Calls \ {c} : awaiter'[d] = awaiter[d] BY <1>t DEF TimesOut, TypeOK
<1>3. \A d \in Calls \ {c} : withdrawn'[d] = withdrawn[d] BY <1>t DEF TimesOut, TypeOK
<1>4. ASSUME NEW d \in Calls \ {c} PROVE CallAgrees(d)'
  BY <1>1, <1>2, <1>3, <1>4, SameCall DEF IInv
<1>5. awaiter[c] = "awaiting" /\ awaiter'[c] = "timeout" BY <1>t DEF TimesOut, TypeOK
<1>6. awaiter[c] \notin Over /\ awaiter'[c] \in Over \ {"returned"}
  BY <1>5 DEF Over
<1>7. withdrawn'[c] = (c \in QtFutures /\ box[c] = <<>>)
  BY <1>t, Zenon DEF TimesOut, TypeOK
<1>8. CallAgrees(c) BY DEF IInv
<1>9. ~withdrawn[c] BY <1>6, <1>8 DEF CallAgrees, FlagsAgree
<1>10. c \in QtFutures => flagged[c] \/ withdrawn'[c] BY <1>7, DoneIsFlagged
<1>11. CallAgrees(c)' BY <1>1, <1>6, <1>8, <1>9, <1>10, CoroutineMoves DEF Over
<1> QED BY <1>4, <1>11

\* A cancellation sets is_cancelled, or withdraws the future, or finds it done.
LEMMA CancelKeeps ==
    ASSUME IInv, NEW cs \in SUBSET Awaiting, NEW heard, CancelAwaits(cs, heard)
    PROVE  \A d \in Calls : CallAgrees(d)'
<1> SUFFICES ASSUME NEW d \in Calls PROVE CallAgrees(d)' OBVIOUS
<1>1. UNCHANGED <<got, flagged, said, posted, box>> BY DEF CancelAwaits, slotVars, boxVars
<1>2. CallAgrees(d) BY DEF IInv
<1>3. CASE d \notin cs
  <2>1. awaiter'[d] = awaiter[d] BY <1>3 DEF CancelAwaits
  <2>2. iscancelled'[d] = iscancelled[d] BY <1>3, Zenon DEF CancelAwaits, IInv, TypeOK
  <2>3. withdrawn'[d] = withdrawn[d] BY <1>3, Zenon DEF CancelAwaits, IInv, TypeOK
  <2> QED BY <1>1, <1>2, <2>1, <2>2, <2>3, SameCall
<1>4. CASE d \in cs
  <2>1. awaiter[d] \notin Over /\ awaiter'[d] \in Over \ {"returned"}
    BY <1>4 DEF Awaiting, CancelAwaits, Over
  <2>2. withdrawn'[d] = (withdrawn[d] \/ (d \in cs \cap QtFutures /\ box[d] = <<>>))
    BY Zenon DEF CancelAwaits
  <2>3. d \in QtFutures => flagged[d] \/ withdrawn'[d] BY <1>4, <2>2, DoneIsFlagged
  <2> QED BY <1>1, <1>2, <2>1, <2>2, <2>3, CoroutineMoves DEF Over
<1> QED BY <1>3, <1>4

\* Every step keeps the invariant.
LEMMA NextIInv == IInv /\ [Next]_vars => IInv'
<1> SUFFICES ASSUME IInv, [Next]_vars PROVE IInv' OBVIOUS
<1>t. TypeOK /\ TypeOK' BY NextTypeOK DEF IInv
<1> SUFFICES \A d \in Calls : CallAgrees(d)' BY <1>t DEF IInv
<1> DEFINE Kept == \A d \in Calls : CallAgrees(d)'
<1> USE DEF endVars, slotVars, boxVars
<1>1. ASSUME UNCHANGED <<endVars, flagged, said, boxVars>> PROVE Kept
  BY <1>1, SameCall DEF IInv
<1>2. ASSUME NEW c \in Calls, OnCalled(c) \/ SlotReturns(c) PROVE Kept
  BY <1>1, <1>2 DEF OnCalled, SlotReturns
<1>3. ASSUME NEW c \in Calls, NEW kind \in Kinds, Say(c, kind) PROVE Kept
  BY <1>3, PostKeeps DEF Say
<1>4. ASSUME NEW c \in Calls, SlotRaises(c) PROVE Kept
  BY <1>4, PostKeeps DEF SlotRaises, Kinds
<1>5. ASSUME NEW c \in Calls, Acall(c) \/ Anext(c) \/ Close(c) PROVE Kept
  <2>1. UNCHANGED <<iscancelled, withdrawn, got, flagged, said, boxVars>>
    BY <1>5 DEF Acall, Anext, Close
  <2>2. \A d \in Calls \ {c} : awaiter'[d] = awaiter[d]
    BY <1>5, <1>t DEF Acall, Anext, Close, TypeOK
  <2>3. ASSUME NEW d \in Calls \ {c} PROVE CallAgrees(d)'
    BY <2>1, <2>2, <2>3, SameCall DEF IInv
  <2>4. CallAgrees(c) BY DEF IInv
  <2>5. awaiter[c] \in {"idle", "yielded"} /\ awaiter'[c] \in {"awaiting", "closed"}
    BY <1>5, <1>t DEF Acall, Anext, Close, TypeOK
  <2>6. awaiter'[c] = "closed" => c \notin QtFutures
    <3>1. awaiter'[c] = "closed" => awaiter[c] = "yielded"
      BY <1>5, <1>t DEF Acall, Anext, Close, TypeOK
    <3> QED BY <2>4, <3>1 DEF CallAgrees, KindsAgree
  <2>7. awaiter[c] \notin Over /\ awaiter'[c] # "returned" BY <2>5 DEF Over
  <2>8. ~withdrawn[c] BY <2>4, <2>7 DEF CallAgrees, FlagsAgree
  <2>9. CallAgrees(c)' BY <2>1, <2>4, <2>5, <2>6, <2>7, <2>8, CoroutineMoves DEF Over
  <2> QED BY <2>3, <2>9
<1>6. ASSUME NEW c \in Calls, Deposit(c) PROVE Kept BY <1>6, DepositKeeps
<1>7. ASSUME NEW c \in Calls, Take(c) PROVE Kept BY <1>7, TakeKeeps
<1>8. ASSUME NEW c \in Calls, TimesOut(c) PROVE Kept BY <1>8, TimesOutKeeps
<1>9. ASSUME NEW c \in Calls, Cancel(c) PROVE Kept
  <2>1. PICK heard \in SUBSET {c} : CancelAwaits({c}, heard) BY <1>9 DEF Cancel
  <2>2. {c} \in SUBSET Awaiting BY <1>9 DEF Cancel, Awaiting
  <2> QED BY <2>1, <2>2, CancelKeeps
<1>10. CASE Drain
  <2>1. PICK heard \in SUBSET Awaiting : CancelAwaits(Awaiting, heard) BY <1>10 DEF Drain
  <2> QED BY <2>1, CancelKeeps
<1>11. CASE CloseWindow \/ ExitWaits \/ LoopEnds
  BY <1>1, <1>11 DEF CloseWindow, ExitWaits, LoopEnds
<1>12. CASE UNCHANGED vars BY <1>1, <1>12 DEF vars
<1> QED BY <1>2, <1>3, <1>4, <1>5, <1>6, <1>7, <1>8, <1>9, <1>10, <1>11, <1>12 DEF Next

\* Nothing is said, posted or taken at the start.
LEMMA InitIInv == Init => IInv
<1> SUFFICES ASSUME Init PROVE IInv OBVIOUS
<1>1. TypeOK BY DEF Init, LoopInit, TypeOK, LoopTypeOK
<1> SUFFICES ASSUME NEW c \in Calls PROVE CallAgrees(c) BY <1>1 DEF IInv
<1>2. /\ awaiter[c] = "idle" /\ said[c] = <<>> /\ posted[c] = <<>> /\ box[c] = <<>>
      /\ got[c] = <<>>
  BY DEF Init
<1>3. ~withdrawn[c] BY DEF Init
<1>4. Len(<<>>) = 0 /\ 1..0 = {} OBVIOUS
<1>5. InOrder(<<>>, <<>>, <<>>, <<>>) /\ AllThere(<<>>, <<>>, <<>>, <<>>)
  BY <1>4 DEF InOrder, AllThere
<1>6. AnswersAgree(c) BY <1>2, <1>5 DEF AnswersAgree
<1>7. KindsAgree(c) BY <1>2, <1>4 DEF KindsAgree, AllValues, EndsOnce
<1>8. FlagsAgree(c) BY <1>2, <1>3 DEF FlagsAgree, Over
<1> QED BY <1>6, <1>7, <1>8 DEF CallAgrees

LEMMA InductiveInvariant == Spec => []IInv
  BY InitIInv, NextIInv, PTL DEF Spec

-----------------------------------------------------------------------------
(* What follows                                                            *)

\* For every choice of calls, kinds and timeouts: the coroutine receives what Qt
\* said, in order and with nothing left out, whenever the callbacks run.
THEOREM AnswersAsSaid == Spec => []ReceivedAsSaid
<1>1. ASSUME IInv PROVE ReceivedAsSaid
  <2> SUFFICES ASSUME NEW c \in Calls
               PROVE  /\ IsPrefix(got[c], said[c])
                      /\ c \in QtFutures => Len(got[c]) <= 1
                      /\ \A i \in DOMAIN got[c] : got[c][i].kind # "value" => i = Len(got[c])
                      /\ awaiter[c] = "returned" =>
                            got[c] # <<>> /\ (c \in QtGenerators => Last(got[c]).kind = "stop")
    BY DEF ReceivedAsSaid
  <2>1. CallAgrees(c) BY <1>1 DEF IInv
  <2>2. got[c] \in Seq(Answers) /\ said[c] \in Seq(Answers) /\ box[c] \in Seq(Answers)
    BY <1>1 DEF IInv, TypeOK
  <2>3. InOrder(posted[c], got[c], box[c], said[c]) BY <2>1 DEF CallAgrees, AnswersAgree
  <2>4. Len(got[c]) <= Len(said[c]) /\ \A i \in 1..Len(got[c]) : got[c][i] = said[c][i]
    <3> DEFINE lg == Len(got[c])
               lb == Len(box[c])
               ls == Len(said[c])
    <3>1. lg \in Nat /\ lb \in Nat /\ ls \in Nat BY <2>2
    <3>2. lg + lb <= ls BY <2>3, Zenon DEF InOrder
    <3> HIDE DEF lg, lb, ls
    <3>3. lg <= ls BY <3>1, <3>2
    <3> QED BY <2>3, <3>3, Zenon DEF InOrder, lg, ls
  <2>5. IsPrefix(got[c], said[c]) BY <2>2, <2>4, PrefixPointwise
  <2>6. c \in QtFutures => Len(got[c]) <= 1
    <3>1. c \in QtFutures => got[c] = <<>> \/ Len(got[c]) = 1
      BY <2>1 DEF CallAgrees, AnswersAgree
    <3>2. Len(<<>>) = 0 OBVIOUS
    <3> DEFINE lg == Len(got[c])
    <3>3. c \in QtFutures => lg = 0 \/ lg = 1 BY <3>1, <3>2, Zenon
    <3> HIDE DEF lg
    <3>4. c \in QtFutures => lg <= 1 BY <3>3
    <3> QED BY <3>4 DEF lg
  <2>7. DOMAIN got[c] = 1..Len(got[c]) BY <2>2
  <2> QED BY <2>1, <2>5, <2>6, <2>7 DEF CallAgrees, KindsAgree, EndsOnce
<1> QED BY <1>1, InductiveInvariant, PTL

\* Whatever ended the call of a QtFuture, Qt can tell: by an answer, a timeout, a
\* cancellation or the shutdown, also when the cancelled signal raised.
THEOREM EndsAreVisible == Spec => []QtCanTell
<1>1. ASSUME IInv PROVE QtCanTell
  BY <1>1 DEF IInv, CallAgrees, FlagsAgree, QtCanTell, Calls
<1> QED BY <1>1, InductiveInvariant, PTL
=============================================================================
