-------------------------- MODULE KoilContextProofs --------------------------
(* Proofs about KoilContext, for any managers, any futures, any number of   *)
(* fields and any bound on the loops started, with any of them abandoned.   *)
EXTENDS KoilContext, TLAPS

\* Managers own different open loops, none of them yet to be started.
OwnersDiffer ==
    /\ \A h \in Managers : own[h] # 0 => own[h] \in open
    /\ \A g, h \in Managers : own[g] # 0 /\ own[g] = own[h] => g = h
    /\ \A h \in Managers : own[h] <= starts

\* Every open loop is the one loop of the one manager that has any, and without
\* an ambient koil there is none.
OneOwner ==
    /\ \A l \in open : \E h \in Managers : own[h] = l
    /\ \A h \in Managers : own[h] # 0 => koil # NoKoil
    /\ \A g, h \in Managers : own[g] # 0 /\ own[h] # 0 => g = h

\* A loop that was given up on was started, and is no longer counted as open.
AbandonedAgree == \A l \in abandoned : l \notin open /\ l <= starts

\* The loops of the managers, as long as the ambient koil was never lost.
LoopsAgree == OwnersDiffer /\ (~lost => OneOwner) /\ AbandonedAgree

\* The ambient loop is open, unless a result() wrote back a dead one.
AmbientAgrees == ~late => koilLoop \in open \cup {0}

\* Who hosts a loop is in its block, or is a koilable object that failed.
OwnersAgree ==
    \A h \in Managers : own[h] # 0 => Inside(h) \/ h \in failed \cap Objects

\* The inductive invariant.
IInv == TypeOK /\ LoopsAgree /\ OwnersAgree /\ AmbientAgrees

\* The type of a block on the stack.
Block == [who : Managers, outer : Ambient]

\* No manager is in two blocks.
BlocksDiffer == \A i, j \in 1..Len(blocks) : blocks[i].who = blocks[j].who => i = j

\* Outside all blocks there is nothing.
OutsideAgrees == koil = NoKoil /\ koilLoop = 0 /\ open = {}

\* Inside, the outermost block found nothing and started the loop, and every other
\* block found what there still is.
InsideAgrees ==
    /\ koil # NoKoil
    /\ koilLoop \in open
    /\ own[blocks[Len(blocks)].who] # 0
    /\ blocks[Len(blocks)].outer = NoSubmission
    /\ \A i \in 1..Len(blocks) : i < Len(blocks) => blocks[i].outer = Here

\* A coroutine of a loop that is open brings back what there is, if it brings back
\* a koil at all.
HeldAgrees ==
    \A f \in Futures : held[f].koilLoop \in open /\ held[f].koil # NoKoil => held[f] = Here

\* The ambient variables and the stack, as long as nothing disturbed them.
StackAgrees ==
    Undisturbed =>
        /\ blocks = <<>> => OutsideAgrees
        /\ blocks # <<>> => InsideAgrees
        /\ HeldAgrees

\* No loop is known before it is started.
KnownAgree == koilLoop <= starts /\ \A f \in Futures : held[f].koilLoop <= starts

\* The inductive invariant of the stack, on top of IInv.
SInv == BlocksDiffer /\ KnownAgree /\ StackAgrees

-----------------------------------------------------------------------------
(* The pieces                                                              *)

\* The empty sequence is the one of length zero.
LEMMA EmptySeq ==
    ASSUME NEW S, NEW s \in Seq(S)
    PROVE  s = <<>> <=> Len(s) = 0
OBVIOUS

\* What entering a block does to the stack.
LEMMA PushShape ==
    ASSUME TypeOK, NEW h \in Managers, Push(h)
    PROVE  /\ blocks' \in Seq(Block) /\ Len(blocks) \in Nat
           /\ Len(blocks') = Len(blocks) + 1
           /\ blocks'[1] = [who |-> h, outer |-> Here]
           /\ \A i \in 1..Len(blocks) : blocks'[i + 1] = blocks[i]
<1> DEFINE b == [who |-> h, outer |-> Here]
<1>1. b \in Block BY DEF TypeOK, Block, Ambient, Here
<1>2. blocks \in Seq(Block) BY DEF TypeOK, Block
<1>3. blocks' = <<b>> \o blocks BY DEF Push
<1>4. /\ blocks' \in Seq(Block) /\ Len(blocks) \in Nat
      /\ Len(blocks') = Len(blocks) + 1
      /\ blocks'[1] = b
      /\ \A i \in 1..Len(blocks) : blocks'[i + 1] = blocks[i]
  <2> HIDE DEF b
  <2> QED BY <1>1, <1>2, <1>3
<1> QED BY <1>4

\* What leaving the innermost block does to it.
LEMMA PopShape ==
    ASSUME TypeOK, NEW h \in Managers, Innermost(h), blocks' = Tail(blocks)
    PROVE  /\ blocks \in Seq(Block) /\ blocks' \in Seq(Block) /\ Len(blocks') \in Nat
           /\ Len(blocks) = Len(blocks') + 1
           /\ Head(blocks) = blocks[1] /\ blocks[1].who = h
           /\ \A i \in 1..Len(blocks') : blocks'[i] = blocks[i + 1]
<1>1. blocks \in Seq(Block) /\ blocks # <<>> BY DEF TypeOK, Block, Innermost
<1>2. /\ blocks' \in Seq(Block) /\ Len(blocks') \in Nat
      /\ Len(blocks) = Len(blocks') + 1
      /\ \A i \in 1..Len(blocks') : blocks'[i] = blocks[i + 1]
  BY <1>1
<1>3. Head(blocks) = blocks[1] BY <1>1
<1>4. blocks[1].who = h BY <1>3 DEF Innermost
<1> QED BY <1>1, <1>2, <1>3, <1>4

\* Entering a block leaves the thread in all the blocks it was in, and in the
\* new one.
LEMMA PushInside ==
    ASSUME TypeOK, NEW h \in Managers, Push(h)
    PROVE  /\ blocks' \in Seq(Block)
           /\ Inside(h)'
           /\ \A g \in Managers : Inside(g) => Inside(g)'
           /\ \A g \in Managers \ {h} : Inside(g)' => Inside(g)
           /\ BlocksDiffer /\ ~Inside(h) => BlocksDiffer'
<1> DEFINE n == Len(blocks)
           m == Len(blocks')
<1>1. n \in Nat /\ m = n + 1 BY PushShape
<1>2. blocks'[1].who = h /\ \A i \in 1..n : blocks'[i + 1] = blocks[i]
  <2>1. /\ blocks'[1] = [who |-> h, outer |-> Here]
        /\ \A i \in 1..n : blocks'[i + 1] = blocks[i]
    BY PushShape
  <2>2. [who |-> h, outer |-> Here].who = h OBVIOUS
  <2> QED BY <2>1, <2>2, Zenon
<1>3. /\ \A g : Inside(g) <=> \E i \in 1..n : blocks[i].who = g
      /\ \A g : Inside(g)' <=> \E i \in 1..m : blocks'[i].who = g
  BY DEF Inside
<1>4. /\ BlocksDiffer <=> \A i, j \in 1..n : blocks[i].who = blocks[j].who => i = j
      /\ BlocksDiffer' <=> \A i, j \in 1..m : blocks'[i].who = blocks'[j].who => i = j
  BY DEF BlocksDiffer
<1> HIDE DEF n, m
<1>5. \A i \in 1..m : i = 1 \/ (i - 1 \in 1..n /\ blocks'[i] = blocks[i - 1])
  <2>1. \A i \in 1..m : i = 1 \/ (i - 1 \in 1..n /\ (i - 1) + 1 = i) BY <1>1
  <2> QED BY <1>2, <2>1
<1>6. 1 \in 1..m /\ \A i \in 1..n : i + 1 \in 1..m BY <1>1
<1>7. Inside(h)' BY <1>2, <1>3, <1>6
<1>8. \A g \in Managers : Inside(g) => Inside(g)' BY <1>2, <1>3, <1>6
<1>9. \A g \in Managers \ {h} : Inside(g)' => Inside(g) BY <1>2, <1>3, <1>5
<1>10. ASSUME BlocksDiffer, ~Inside(h) PROVE BlocksDiffer'
  <2>1. ASSUME NEW i \in 1..m, NEW j \in 1..m, blocks'[i].who = blocks'[j].who PROVE i = j
    <3>1. \A l \in 1..n : blocks[l].who # h BY <1>3, <1>10
    <3>2. i = 1 <=> j = 1 BY <1>2, <1>5, <2>1, <3>1
    <3>3. CASE i # 1
      <4>1. i - 1 = j - 1 BY <1>4, <1>5, <1>10, <2>1, <3>2, <3>3
      <4> QED BY <1>1, <4>1
    <3> QED BY <3>2, <3>3
  <2> QED BY <1>4, <2>1
<1> QED BY <1>7, <1>8, <1>9, <1>10, PushShape

\* Leaving the innermost block leaves the thread in all the others.
LEMMA PopInside ==
    ASSUME TypeOK, NEW h \in Managers, Innermost(h), blocks' = Tail(blocks)
    PROVE  /\ blocks' \in Seq(Block)
           /\ \A g \in Managers \ {h} : Inside(g) <=> Inside(g)'
           /\ BlocksDiffer => BlocksDiffer' /\ ~Inside(h)'
<1> DEFINE n == Len(blocks)
           m == Len(blocks')
<1>1. m \in Nat /\ n = m + 1 BY PopShape
<1>2. blocks[1].who = h /\ \A i \in 1..m : blocks'[i] = blocks[i + 1] BY PopShape
<1>3. /\ \A g : Inside(g) <=> \E i \in 1..n : blocks[i].who = g
      /\ \A g : Inside(g)' <=> \E i \in 1..m : blocks'[i].who = g
  BY DEF Inside
<1>4. /\ BlocksDiffer <=> \A i, j \in 1..n : blocks[i].who = blocks[j].who => i = j
      /\ BlocksDiffer' <=> \A i, j \in 1..m : blocks'[i].who = blocks'[j].who => i = j
  BY DEF BlocksDiffer
<1> HIDE DEF n, m
<1>5. \A i \in 1..n : i = 1 \/ (i - 1 \in 1..m /\ blocks'[i - 1] = blocks[i])
  <2>1. \A i \in 1..n : i = 1 \/ (i - 1 \in 1..m /\ (i - 1) + 1 = i) BY <1>1
  <2> QED BY <1>2, <2>1
<1>6. 1 \in 1..n /\ \A i \in 1..m : i + 1 \in 1..n /\ i + 1 # 1 BY <1>1
<1>7. \A g \in Managers \ {h} : Inside(g) <=> Inside(g)'
  <2>1. ASSUME NEW g \in Managers \ {h}, Inside(g) PROVE Inside(g)'
    <3>1. PICK i \in 1..n : blocks[i].who = g BY <1>3, <2>1, Zenon
    <3>2. i # 1 BY <1>2, <3>1, Zenon
    <3>3. i - 1 \in 1..m /\ blocks'[i - 1].who = g BY <1>5, <3>1, <3>2, Zenon
    <3> QED BY <1>3, <3>3, Zenon
  <2>2. ASSUME NEW g \in Managers \ {h}, Inside(g)' PROVE Inside(g)
    <3>1. PICK i \in 1..m : blocks'[i].who = g BY <1>3, <2>2, Zenon
    <3>2. i + 1 \in 1..n /\ blocks[i + 1].who = g BY <1>2, <1>6, <3>1, Zenon
    <3> QED BY <1>3, <3>2, Zenon
  <2> QED BY <2>1, <2>2, Zenon
<1>8. ASSUME BlocksDiffer PROVE BlocksDiffer' /\ ~Inside(h)'
  <2>1. \A i \in 1..m : blocks'[i].who # h BY <1>2, <1>4, <1>6, <1>8
  <2>2. ASSUME NEW i \in 1..m, NEW j \in 1..m, blocks'[i].who = blocks'[j].who PROVE i = j
    <3>1. blocks'[i] = blocks[i + 1] /\ blocks'[j] = blocks[j + 1] BY <1>2, Zenon
    <3>2. blocks[i + 1].who = blocks[j + 1].who BY <2>2, <3>1, Zenon
    <3>3. i + 1 \in 1..n /\ j + 1 \in 1..n BY <1>6, Zenon
    <3>4. i + 1 = j + 1 BY <1>4, <1>8, <3>2, <3>3, Zenon
    <3> QED BY <1>1, <3>4
  <2> QED BY <1>3, <1>4, <2>1, <2>2
<1> QED BY <1>7, <1>8, PopShape

\* Koil.__enter__ keeps the loops and their owners in step.
LEMMA OpenKoilAgrees ==
    ASSUME TypeOK, LoopsAgree, NEW h \in Managers, OpenKoil(h), lost' = lost
    PROVE  /\ LoopsAgree'
           /\ AmbientAgrees /\ late' = late => AmbientAgrees'
           /\ koil' \in Managers \cup {NoKoil} /\ koilLoop' \in Loops \cup {0}
           /\ own' \in [Managers -> Loops \cup {0}]
           /\ open' \in SUBSET Loops /\ abandoned' \in SUBSET Loops
           /\ starts' \in 0..MaxStarts
           /\ \A g \in Managers \ {h} : own'[g] = own[g]
           /\ koil # NoKoil => own' = own
<1> USE CountAssumption, NoKoilAssumption DEF TypeOK, Loops
<1>1. CASE koil # NoKoil
  <2>1. UNCHANGED <<koil, koilLoop, own, open, abandoned, starts>>
    BY <1>1 DEF OpenKoil, ambientVars, loopVars
  <2>2. LoopsAgree' BY <2>1 DEF LoopsAgree, OwnersDiffer, OneOwner, AbandonedAgree
  <2> QED BY <2>1, <2>2 DEF AmbientAgrees
<1>2. CASE koil = NoKoil
  <2> USE <1>2 DEF OpenKoil
  <2>1. /\ own'[h] = starts + 1
        /\ \A g \in Managers \ {h} : own'[g] = own[g]
        /\ open' = open \cup {starts + 1}
        /\ starts' = starts + 1
        /\ koil' = h /\ koilLoop' = starts + 1
        /\ starts + 1 \in Loops
        /\ abandoned' = abandoned
    OBVIOUS
  <2>2. OwnersDiffer'
    <3>1. \A g \in Managers : own[g] <= starts BY DEF LoopsAgree, OwnersDiffer
    <3> QED BY <2>1, <3>1 DEF LoopsAgree, OwnersDiffer
  <2>3. ASSUME ~lost PROVE OneOwner'
    <3>1. \A g \in Managers : own[g] = 0 BY <2>3 DEF LoopsAgree, OneOwner
    <3>2. open = {} BY <2>3, <3>1 DEF LoopsAgree, OneOwner
    <3>3. \A g \in Managers : own'[g] # 0 => g = h BY <2>1, <3>1
    <3>4. \A l \in open' : own'[h] = l BY <2>1, <3>2
    <3> QED BY <2>1, <3>3, <3>4, h # NoKoil DEF OneOwner, Managers
  <2>a. AbandonedAgree' BY <2>1 DEF LoopsAgree, AbandonedAgree
  <2>4. LoopsAgree' BY <2>2, <2>3, <2>a DEF LoopsAgree
  <2> QED BY <2>1, <2>4 DEF AmbientAgrees
<1> QED BY <1>1, <1>2

\* Koil.__exit__ keeps the loops and their owners in step.
LEMMA CloseKoilAgrees ==
    ASSUME TypeOK, LoopsAgree, NEW h \in Managers, CloseKoil(h), lost' = lost
    PROVE  /\ LoopsAgree'
           /\ AmbientAgrees /\ late' = late => AmbientAgrees'
           /\ koil' \in Managers \cup {NoKoil} /\ koilLoop' \in Loops \cup {0}
           /\ own' \in [Managers -> Loops \cup {0}]
           /\ open' \in SUBSET Loops /\ abandoned' \in SUBSET Loops
           /\ starts' \in 0..MaxStarts
           /\ own'[h] = 0
           /\ \A g \in Managers \ {h} : own'[g] = own[g]
<1> USE CountAssumption, NoKoilAssumption DEF TypeOK, Loops
<1>1. CASE own[h] = 0
  <2>1. UNCHANGED <<koil, koilLoop, own, open, abandoned, starts>>
    BY <1>1 DEF CloseKoil, ambientVars, loopVars
  <2>2. LoopsAgree' BY <2>1 DEF LoopsAgree, OwnersDiffer, OneOwner, AbandonedAgree
  <2> QED BY <1>1, <2>1, <2>2 DEF AmbientAgrees
<1>2. CASE own[h] # 0
  <2> USE <1>2 DEF CloseKoil, StopLoop
  <2>1. /\ own'[h] = 0
        /\ \A g \in Managers \ {h} : own'[g] = own[g]
        /\ open' = open \ {own[h]} /\ abandoned' \in {abandoned, abandoned \cup {own[h]}}
        /\ starts' = starts /\ koilLoop' = 0
    OBVIOUS
  <2>2. OwnersDiffer' BY <2>1 DEF LoopsAgree, OwnersDiffer
  <2>3. ASSUME ~lost PROVE OneOwner'
    <3>1. \A g \in Managers : own'[g] = 0 BY <2>1, <2>3 DEF LoopsAgree, OneOwner
    <3>2. \A l \in open : l # 0 OBVIOUS
    <3>3. open \subseteq {own[h]}
      <4>1. OneOwner BY <2>3 DEF LoopsAgree
      <4>2. ASSUME NEW l \in open PROVE l = own[h]
        <5>1. PICK g \in Managers : own[g] = l BY <4>1, <4>2 DEF OneOwner
        <5>2. g = h BY <1>2, <3>2, <4>1, <4>2, <5>1, Zenon DEF OneOwner
        <5> QED BY <5>1, <5>2
      <4> QED BY <4>2, Zenon
    <3>4. open' = {} BY <2>1, <3>3, Zenon
    <3> QED BY <3>1, <3>4 DEF OneOwner
  <2>a. AbandonedAgree' BY <2>1 DEF LoopsAgree, OwnersDiffer, AbandonedAgree
  <2>4. LoopsAgree' BY <2>2, <2>3, <2>a DEF LoopsAgree
  <2> QED BY <2>1, <2>4 DEF AmbientAgrees
<1> QED BY <1>1, <1>2

\* A Koil that is started and stopped at once leaves no loop behind but an
\* abandoned one.
LEMMA OpenAndCloseKoilAgrees ==
    ASSUME TypeOK, LoopsAgree, NEW h \in Managers, OpenAndCloseKoil(h), lost' = lost
    PROVE  /\ LoopsAgree'
           /\ AmbientAgrees /\ late' = late => AmbientAgrees'
           /\ koil' \in Managers \cup {NoKoil} /\ koilLoop' \in Loops \cup {0}
           /\ own' \in [Managers -> Loops \cup {0}]
           /\ open' \in SUBSET Loops /\ abandoned' \in SUBSET Loops
           /\ starts' \in 0..MaxStarts
           /\ \A g \in Managers : own'[g] # 0 => own'[g] = own[g]
<1> USE CountAssumption DEF TypeOK, Loops
<1>1. CASE koil = NoKoil
  <2>1. /\ own'[h] = 0
        /\ \A g \in Managers \ {h} : own'[g] = own[g]
        /\ own' \in [Managers -> Loops \cup {0}]
        /\ open' = open \ {starts + 1} /\ koil' = koil /\ koilLoop' = 0
        /\ abandoned' \in {abandoned, abandoned \cup {starts + 1}}
        /\ starts' = starts + 1 /\ starts' \in 0..MaxStarts /\ starts + 1 \in Loops
    BY <1>1 DEF OpenAndCloseKoil, StopLoop
  <2>2. OwnersDiffer' BY <2>1 DEF LoopsAgree, OwnersDiffer
  <2>3. ASSUME ~lost PROVE OneOwner'
    <3>1. \A g \in Managers : own[g] = 0 BY <1>1, <2>3 DEF LoopsAgree, OneOwner
    <3>2. open = {} BY <2>3, <3>1 DEF LoopsAgree, OneOwner
    <3> QED BY <2>1, <3>1, <3>2 DEF OneOwner
  <2>a. AbandonedAgree' BY <2>1 DEF LoopsAgree, AbandonedAgree
  <2>4. LoopsAgree' BY <2>2, <2>3, <2>a DEF LoopsAgree
  <2> QED BY <2>1, <2>4 DEF AmbientAgrees
<1>2. CASE koil # NoKoil
  <2>1. UNCHANGED <<koil, koilLoop, own, open, abandoned, starts>>
    BY <1>2 DEF OpenAndCloseKoil, ambientVars, loopVars
  <2>2. LoopsAgree' BY <2>1 DEF LoopsAgree, OwnersDiffer, OneOwner, AbandonedAgree
  <2> QED BY <2>1, <2>2 DEF AmbientAgrees
<1> QED BY <1>1, <1>2

\* Entering and exiting fields keeps the type of entered.
LEMMA FieldsType ==
    ASSUME TypeOK, NEW o \in Objects, NEW bad \in Nat,
           EnterFields(o, bad) \/ ExitFields(o, bad)
    PROVE  entered' \in [Objects -> SUBSET Fields]
BY DEF TypeOK, EnterFields, ExitFields

-----------------------------------------------------------------------------
(* The steps                                                               *)

\* A step that enters a block of h.
LEMMA EnterBlock ==
    ASSUME IInv, NEW h \in Managers, OpenKoil(h), Push(h),
           entered' \in [Objects -> SUBSET Fields], UNCHANGED <<held, ghostVars>>
    PROVE  IInv'
<1> USE DEF IInv
<1>1. TypeOK' BY OpenKoilAgrees, PushInside DEF TypeOK, Block, ghostVars
<1>2. LoopsAgree' BY OpenKoilAgrees DEF ghostVars
<1>3. OwnersAgree'
  BY OpenKoilAgrees, PushInside DEF OwnersAgree, ghostVars
<1>4. AmbientAgrees' BY OpenKoilAgrees DEF ghostVars
<1> QED BY <1>1, <1>2, <1>3, <1>4

\* A step that leaves the block of h and ends its loop.
LEMMA LeaveBlock ==
    ASSUME IInv, NEW h \in Managers, Innermost(h), CloseKoil(h),
           blocks' = Tail(blocks), entered' \in [Objects -> SUBSET Fields],
           failed' \in {failed, failed \cup {h}}, UNCHANGED <<held, late, lost>>
    PROVE  IInv'
<1> USE DEF IInv
<1>1. TypeOK' BY CloseKoilAgrees, PopInside DEF TypeOK, Block
<1>2. LoopsAgree' BY CloseKoilAgrees
<1>3. OwnersAgree' BY CloseKoilAgrees, PopInside DEF OwnersAgree
<1>4. AmbientAgrees' BY CloseKoilAgrees
<1> QED BY <1>1, <1>2, <1>3, <1>4

\* A step that fails to enter h.
LEMMA FailToEnter ==
    ASSUME IInv, NEW h \in Managers,
           OpenAndCloseKoil(h),
           entered' \in [Objects -> SUBSET Fields],
           failed' = failed \cup {h}, UNCHANGED <<blocks, held, late, lost>>
    PROVE  IInv'
<1> USE DEF IInv
<1>0. \A g \in Managers : Inside(g)' = Inside(g) BY DEF Inside
<1>1. TypeOK' BY OpenAndCloseKoilAgrees DEF TypeOK
<1>2. LoopsAgree' BY OpenAndCloseKoilAgrees
<1>3. OwnersAgree' BY <1>0, OpenAndCloseKoilAgrees DEF OwnersAgree
<1>4. AmbientAgrees' BY OpenAndCloseKoilAgrees
<1> QED BY <1>1, <1>2, <1>3, <1>4

\* Every step keeps the inductive invariant.
LEMMA NextIInv == IInv /\ [Next]_vars => IInv'
<1> SUFFICES ASSUME IInv, [Next]_vars PROVE IInv' OBVIOUS
<1>0. TypeOK BY DEF IInv
<1>m. Koils \subseteq Managers /\ Objects \subseteq Managers /\ Wrappers \subseteq Managers
  BY DEF Managers
<1>f. FieldCount + 1 \in Nat /\ Fields \cup {1} \subseteq Nat
  BY CountAssumption DEF Fields
<1>e. entered \in [Objects -> SUBSET Fields] BY <1>0 DEF TypeOK
<1>1. ASSUME NEW k \in Koils, EnterKoil(k) PROVE IInv'
  BY <1>1, <1>m, <1>e, EnterBlock DEF EnterKoil
<1>2. ASSUME NEW k \in Koils, ExitKoil(k) PROVE IInv'
  BY <1>2, <1>m, <1>e, LeaveBlock DEF ExitKoil, ghostVars
<1>3. ASSUME NEW o \in Objects, EnterObject(o) PROVE IInv'
  <2>1. entered' \in [Objects -> SUBSET Fields]
    BY <1>0, <1>3, <1>f, FieldsType DEF EnterObject
  <2> QED BY <1>3, <1>m, <2>1, EnterBlock DEF EnterObject
<1>4. ASSUME NEW o \in Objects, EnterObjectFails(o) PROVE IInv'
  <2>1. entered' \in [Objects -> SUBSET Fields]
    BY <1>0, <1>4, <1>f, FieldsType DEF EnterObjectFails
  <2> QED BY <1>4, <1>m, <2>1, FailToEnter DEF EnterObjectFails
<1>5. ASSUME NEW o \in Objects, ExitObject(o) PROVE IInv'
  <2>1. entered' \in [Objects -> SUBSET Fields]
    BY <1>0, <1>5, <1>f, FieldsType DEF ExitObject
  <2> QED BY <1>5, <1>m, <2>1, LeaveBlock DEF ExitObject, ghostVars
<1>6. ASSUME NEW o \in Objects, ExitObjectFails(o) PROVE IInv'
  <2>1. entered' \in [Objects -> SUBSET Fields]
    BY <1>0, <1>6, <1>f, FieldsType DEF ExitObjectFails
  <2> USE <1>6, <1>m DEF ExitObjectFails, IInv, ambientVars, loopVars
  <2>2. TypeOK' BY <2>1, PopInside DEF TypeOK, Block
  <2>3. LoopsAgree' BY DEF LoopsAgree, OwnersDiffer, OneOwner, AbandonedAgree
  <2>4. OwnersAgree' BY PopInside DEF OwnersAgree
  <2>5. AmbientAgrees' BY DEF AmbientAgrees
  <2> QED BY <2>2, <2>3, <2>4, <2>5
<1>7. ASSUME NEW m \in Wrappers, EnterWrapper(m) PROVE IInv'
  BY <1>7, <1>m, <1>e, EnterBlock DEF EnterWrapper
<1>8. ASSUME NEW m \in Wrappers, EnterWrapperFails(m) PROVE IInv'
  BY <1>8, <1>m, <1>e, FailToEnter DEF EnterWrapperFails
<1>9. ASSUME NEW m \in Wrappers, NEW ok \in BOOLEAN, ExitWrapper(m, ok) PROVE IInv'
  BY <1>9, <1>m, <1>e, LeaveBlock DEF ExitWrapper
<1>10. ASSUME NEW f \in Futures, NEW asyncBlock \in BOOLEAN, Submit(f, asyncBlock)
       PROVE  IInv'
  <2> USE <1>10 DEF Submit, IInv, ambientVars, loopVars, ghostVars
  <2>1. Here \in Ambient /\ AfterAsyncBlock(Here) \in Ambient
    BY <1>0 DEF TypeOK, Here, Ambient, AfterAsyncBlock
  <2>2. TypeOK' BY <2>1 DEF TypeOK
  <2>3. LoopsAgree' BY DEF LoopsAgree, OwnersDiffer, OneOwner, AbandonedAgree
  <2>4. OwnersAgree' BY DEF OwnersAgree, Inside
  <2>5. AmbientAgrees' BY DEF AmbientAgrees
  <2> QED BY <2>2, <2>3, <2>4, <2>5
<1>11. ASSUME NEW f \in Futures, Result(f) PROVE IInv'
  <2> USE <1>11 DEF Result, IInv, loopVars
  <2>1. held[f] \in Ambient BY <1>0 DEF TypeOK
  <2>2. TypeOK' BY <1>0, <2>1 DEF TypeOK, Ambient
  <2>3. OwnersDiffer' BY DEF LoopsAgree, OwnersDiffer
  <2>4. ~lost' => OneOwner' BY DEF LoopsAgree, OneOwner
  <2>5. LoopsAgree' BY <2>3, <2>4 DEF LoopsAgree, AbandonedAgree
  <2>6. OwnersAgree' BY DEF OwnersAgree, Inside
  <2>7. AmbientAgrees' BY DEF AmbientAgrees
  <2> QED BY <2>2, <2>5, <2>6, <2>7
<1>13. ASSUME NEW l \in Loops, AbandonedEnds(l) PROVE IInv'
  <2> USE <1>13 DEF AbandonedEnds, IInv, ambientVars, ghostVars
  <2>1. TypeOK' BY <1>0 DEF TypeOK
  <2>2. LoopsAgree' BY DEF LoopsAgree, OwnersDiffer, OneOwner, AbandonedAgree
  <2>3. OwnersAgree' /\ AmbientAgrees' BY DEF OwnersAgree, Inside, AmbientAgrees
  <2> QED BY <2>1, <2>2, <2>3
<1>12. CASE UNCHANGED vars
  BY <1>12 DEF vars, ambientVars, loopVars, ghostVars, IInv, TypeOK, LoopsAgree,
              OwnersDiffer, OneOwner, AbandonedAgree, OwnersAgree, AmbientAgrees, Inside
<1> QED
  BY <1>1, <1>2, <1>3, <1>4, <1>5, <1>6, <1>7, <1>8, <1>9, <1>10, <1>11, <1>12, <1>13
  DEF Next

-----------------------------------------------------------------------------
(* The stack of blocks                                                     *)

\* A disturbance lasts.
LEMMA UndisturbedBefore ==
    ASSUME Undisturbed', failed \subseteq failed', late => late', lost => lost'
    PROVE  Undisturbed
BY DEF Undisturbed

\* Without a disturbance there is one owner, of the one loop.
LEMMA OneLoop ==
    ASSUME IInv, Undisturbed
    PROVE  OneOwner /\ \A g, h \in Managers : own[g] # 0 /\ own[h] # 0 => g = h
BY DEF IInv, LoopsAgree, Undisturbed, OneOwner

\* A block is entered: it starts the loop if it is the outermost one, and borrows
\* what there is otherwise.
LEMMA PushStack ==
    ASSUME IInv, SInv, NEW h \in Managers, ~Inside(h), OpenKoil(h), Push(h),
           UNCHANGED <<held, ghostVars>>
    PROVE  KnownAgree' /\ StackAgrees'
<1>t. TypeOK BY DEF IInv
<1>n. starts \in Nat /\ koilLoop \in Nat /\ \A f \in Futures : held[f].koilLoop \in Nat
  BY <1>t, CountAssumption DEF TypeOK, Loops, Ambient
<1>1. KnownAgree' BY <1>n DEF SInv, KnownAgree, OpenKoil, ambientVars, loopVars
<1>2. ASSUME Undisturbed' PROVE blocks' # <<>> /\ InsideAgrees' /\ HeldAgrees'
  <2>u. Undisturbed BY <1>2, UndisturbedBefore DEF ghostVars
  <2> DEFINE n == Len(blocks)
             m == Len(blocks')
  <2>1. n \in Nat /\ m = n + 1 BY <1>t, PushShape
  <2>2. /\ blocks'[1] = [who |-> h, outer |-> Here]
        /\ \A i \in 1..n : blocks'[i + 1] = blocks[i]
    BY <1>t, PushShape
  <2>3. blocks' # <<>>
    <3>1. blocks' = <<>> => m = 0 OBVIOUS
    <3> HIDE DEF n, m
    <3> QED BY <2>1, <3>1
  <2>4. CASE blocks = <<>>
    <3>1. OutsideAgrees BY <2>u, <2>4 DEF SInv, StackAgrees
    <3>2. n = 0 BY <2>4
    <3>3. /\ own'[h] = starts + 1 /\ open' = {starts + 1}
          /\ koil' = h /\ koilLoop' = starts + 1
      BY <1>t, <3>1 DEF OutsideAgrees, OpenKoil, TypeOK
    <3>4. m = 1 BY <2>1, <3>2
    <3>5. blocks'[Len(blocks')].who = h /\ blocks'[Len(blocks')].outer = NoSubmission
      BY <2>2, <3>1, <3>4 DEF OutsideAgrees, Here, NoSubmission
    <3>6. h # NoKoil BY NoKoilAssumption DEF Managers
    <3>7. starts + 1 # 0 /\ \A i \in 1..1 : ~(i < 1) BY <1>n
    <3>8. InsideAgrees' BY <3>3, <3>4, <3>5, <3>6, <3>7 DEF InsideAgrees
    <3>9. \A f \in Futures : held[f].koilLoop # starts + 1
      BY <1>n DEF SInv, KnownAgree
    <3>10. HeldAgrees' BY <3>3, <3>9 DEF HeldAgrees
    <3> QED BY <2>3, <3>8, <3>10
  <2>5. CASE blocks # <<>>
    <3>1. InsideAgrees /\ HeldAgrees BY <2>u, <2>5 DEF SInv, StackAgrees
    <3>2. UNCHANGED <<koil, koilLoop, own, open, abandoned, starts>>
      BY <3>1 DEF InsideAgrees, OpenKoil, ambientVars, loopVars
    <3>3. Here' = Here BY <3>2 DEF Here
    <3>4. n # 0 BY <1>t, <2>5 DEF TypeOK
    <3>5. /\ own[blocks[n].who] # 0 /\ blocks[n].outer = NoSubmission
          /\ \A i \in 1..n : i < n => blocks[i].outer = Here
      BY <3>1, Zenon DEF InsideAgrees
    <3> HIDE DEF n, m
    <3>6. blocks'[m] = blocks[n] BY <2>1, <2>2, <3>4
    <3>7. ASSUME NEW i \in 1..m, i < m PROVE blocks'[i].outer = Here
      <4>1. CASE i = 1 BY <2>2, <4>1
      <4>2. CASE i # 1
        <5>1. i - 1 \in 1..n /\ i - 1 < n /\ (i - 1) + 1 = i BY <2>1, <3>7, <4>2
        <5>2. blocks'[i] = blocks[i - 1] BY <2>2, <5>1
        <5> QED BY <3>5, <5>1, <5>2
      <4> QED BY <4>1, <4>2
    <3>8. /\ own'[blocks'[m].who] # 0 /\ blocks'[m].outer = NoSubmission
          /\ \A i \in 1..m : i < m => blocks'[i].outer = Here'
      BY <3>2, <3>3, <3>5, <3>6, <3>7
    <3>9. InsideAgrees' BY <3>1, <3>2, <3>8, Zenon DEF InsideAgrees, m
    <3>10. HeldAgrees' BY <3>1, <3>2, <3>3 DEF HeldAgrees
    <3> QED BY <2>3, <3>9, <3>10
  <2> QED BY <2>4, <2>5
<1>3. StackAgrees' BY <1>2 DEF StackAgrees
<1> QED BY <1>1, <1>3

\* A block is left: the outermost one ends the loop, and the ambient variables are
\* what the block found.
LEMMA PopStack ==
    ASSUME IInv, SInv, NEW h \in Managers, Innermost(h), CloseKoil(h),
           blocks' = Tail(blocks), failed \subseteq failed', UNCHANGED <<held, late, lost>>
    PROVE  /\ KnownAgree' /\ StackAgrees'
           /\ Undisturbed' => Here' = Head(blocks).outer
<1>t. TypeOK BY DEF IInv
<1>1. KnownAgree' BY <1>t, CountAssumption
  DEF SInv, KnownAgree, CloseKoil, ambientVars, loopVars, TypeOK
<1>2. ASSUME Undisturbed'
      PROVE  /\ blocks' = <<>> => OutsideAgrees'
             /\ blocks' # <<>> => InsideAgrees'
             /\ HeldAgrees'
             /\ Here' = Head(blocks).outer
  <2>u. Undisturbed BY <1>2, UndisturbedBefore
  <2>o. InsideAgrees /\ HeldAgrees BY <2>u DEF SInv, StackAgrees, Innermost
  <2> DEFINE n == Len(blocks)
             m == Len(blocks')
  <2>1. m \in Nat /\ n = m + 1 BY <1>t, PopShape
  <2>2. Head(blocks) = blocks[1] /\ blocks[1].who = h BY <1>t, PopShape
  <2>3. \A i \in 1..m : blocks'[i] = blocks[i + 1] BY <1>t, PopShape
  <2>4. /\ own[blocks[n].who] # 0 /\ blocks[n].outer = NoSubmission
        /\ \A i \in 1..n : i < n => blocks[i].outer = Here
    BY <2>o, Zenon DEF InsideAgrees
  <2>5. /\ blocks' = <<>> <=> m = 0
        /\ \A i \in 1..n : blocks[i].who \in Managers
    <3>1. blocks \in Seq(Block) /\ blocks' \in Seq(Block) BY <1>t, PopShape
    <3>2. blocks' = <<>> <=> m = 0 BY <3>1, EmptySeq, Zenon
    <3>3. \A i \in 1..n : blocks[i] \in Block BY <3>1
    <3> QED BY <3>2, <3>3, Zenon DEF Block
  <2>6. CASE m = 0
    <3>1. n = 1 BY <2>1, <2>6
    <3>2. own[h] # 0 BY <2>2, <2>4, <3>1
    <3>3. /\ open' = open \ {own[h]} /\ koil' = NoKoil /\ koilLoop' = 0
          /\ \A g \in Managers \ {h} : own'[g] = own[g] /\ own'[h] = 0
      BY <1>t, <3>2 DEF CloseKoil, StopLoop, TypeOK
    <3>4. open' = {}
      <4>1. \A l \in open : l # 0 BY <1>t, CountAssumption DEF TypeOK, Loops
      <4>2. \A l \in open : l = own[h]
        BY <2>u, <3>2, <4>1, OneLoop, Zenon DEF OneOwner
      <4> QED BY <3>3, <4>2
    <3>5. OutsideAgrees' /\ HeldAgrees' BY <3>3, <3>4 DEF OutsideAgrees, HeldAgrees
    <3>6. Here' = Head(blocks).outer
      BY <2>2, <2>4, <3>1, <3>3 DEF Here, NoSubmission
    <3> QED BY <2>5, <2>6, <3>5, <3>6
  <2>7. CASE m # 0
    <3>n. BlocksDiffer <=> \A i, j \in 1..n : blocks[i].who = blocks[j].who => i = j
      BY DEF BlocksDiffer
    <3>i. InsideAgrees' <=>
             /\ koil' # NoKoil /\ koilLoop' \in open'
             /\ own'[blocks'[m].who] # 0 /\ blocks'[m].outer = NoSubmission
             /\ \A i \in 1..m : i < m => blocks'[i].outer = Here'
      BY DEF InsideAgrees
    <3> HIDE DEF n, m
    <3>1. blocks[n].who # h
      <4>1. n \in 1..n /\ 1 \in 1..n /\ n # 1 BY <2>1, <2>7
      <4> QED BY <2>2, <3>n, <4>1 DEF SInv
    <3>2. own[h] = 0
      <4>1. blocks[n].who \in Managers BY <2>1, <2>5
      <4> QED BY <2>u, <2>4, <3>1, <4>1, OneLoop
    <3>3. UNCHANGED <<koil, koilLoop, own, open>>
      BY <3>2 DEF CloseKoil, ambientVars, loopVars
    <3>4. Here' = Here BY <3>3 DEF Here
    <3>5. 1 \in 1..n /\ 1 < n BY <2>1, <2>7
    <3>6. Here' = Head(blocks).outer BY <2>2, <2>4, <3>4, <3>5
    <3>7. blocks'[m] = blocks[n]
      <4>1. m \in 1..m BY <2>1, <2>7
      <4> QED BY <2>1, <2>3, <4>1
    <3>8. ASSUME NEW i \in 1..m, i < m PROVE blocks'[i].outer = Here'
      <4>1. i + 1 \in 1..n /\ i + 1 < n BY <2>1, <3>8
      <4> QED BY <2>3, <2>4, <3>4, <4>1
    <3>9. InsideAgrees' BY <2>o, <2>4, <3>i, <3>3, <3>7, <3>8 DEF InsideAgrees
    <3>10. HeldAgrees' BY <2>o, <3>3, <3>4 DEF HeldAgrees
    <3> QED BY <2>5, <2>7, <3>6, <3>9, <3>10
  <2> QED BY <2>6, <2>7
<1> QED BY <1>1, <1>2 DEF StackAgrees

\* The manager is of one kind.
LEMMA KindsDiffer ==
    /\ \A k \in Koils : k \in Managers /\ k \notin Objects
    /\ \A m \in Wrappers : m \in Managers /\ m \notin Objects
    /\ \A o \in Objects : o \in Managers
BY KindsAssumption DEF Managers

\* A step that enters the block of h.
LEMMA EnterBlockStack ==
    ASSUME IInv, SInv, NEW h \in Managers, ~Inside(h), OpenKoil(h), Push(h),
           UNCHANGED <<held, ghostVars>>
    PROVE  SInv'
<1>1. BlocksDiffer' BY PushInside DEF SInv, IInv
<1> QED BY <1>1, PushStack DEF SInv

\* A step that leaves the block of h.
LEMMA LeaveBlockStack ==
    ASSUME IInv, SInv, NEW h \in Managers, Innermost(h), CloseKoil(h),
           blocks' = Tail(blocks), failed \subseteq failed', UNCHANGED <<held, late, lost>>
    PROVE  SInv'
<1>1. BlocksDiffer' BY PopInside DEF SInv, IInv
<1> QED BY <1>1, PopStack DEF SInv

\* A step in which something of h raises: it disturbs.
LEMMA FailStack ==
    ASSUME NEW h, failed' = failed \cup {h}, BlocksDiffer', KnownAgree'
    PROVE  SInv'
BY DEF SInv, StackAgrees, Undisturbed

\* Every step keeps the invariant of the stack.
LEMMA NextSInv == IInv /\ SInv /\ [Next]_vars => SInv'
<1> SUFFICES ASSUME IInv, SInv, [Next]_vars PROVE SInv' OBVIOUS
<1>t. TypeOK BY DEF IInv
<1>n. /\ starts \in Nat /\ FieldCount \in Nat /\ koilLoop \in Nat
      /\ \A f \in Futures : held[f].koilLoop \in Nat
  BY <1>t, CountAssumption DEF TypeOK, Loops, Ambient
<1>1. ASSUME NEW k \in Koils, EnterKoil(k) PROVE SInv'
  BY <1>1, KindsDiffer, EnterBlockStack DEF EnterKoil
<1>2. ASSUME NEW k \in Koils, ExitKoil(k) PROVE SInv'
  BY <1>2, KindsDiffer, LeaveBlockStack DEF ExitKoil, ghostVars
<1>3. ASSUME NEW o \in Objects, EnterObject(o) PROVE SInv'
  BY <1>3, KindsDiffer, EnterBlockStack DEF EnterObject
<1>4. ASSUME NEW h \in Managers, OpenAndCloseKoil(h), UNCHANGED <<blocks, held>>,
             failed' = failed \cup {h}
      PROVE  SInv'
  <2>1. BlocksDiffer' BY <1>4 DEF SInv, BlocksDiffer
  <2>2. KnownAgree'
    BY <1>n, <1>4 DEF SInv, KnownAgree, OpenAndCloseKoil, ambientVars, loopVars
  <2> QED BY <1>4, <2>1, <2>2, FailStack
<1>5. ASSUME NEW o \in Objects, ExitObject(o) PROVE SInv'
  BY <1>5, KindsDiffer, LeaveBlockStack DEF ExitObject, ghostVars
<1>6. ASSUME NEW o \in Objects, ExitObjectFails(o) PROVE SInv'
  <2>1. BlocksDiffer' BY <1>t, <1>6, KindsDiffer, PopInside DEF ExitObjectFails, SInv
  <2>2. KnownAgree' BY <1>6 DEF ExitObjectFails, SInv, KnownAgree, ambientVars, loopVars
  <2> QED BY <1>6, <2>1, <2>2, FailStack DEF ExitObjectFails
<1>7. ASSUME NEW m \in Wrappers, EnterWrapper(m) PROVE SInv'
  BY <1>7, KindsDiffer, EnterBlockStack DEF EnterWrapper
<1>8. ASSUME \/ \E o \in Objects : EnterObjectFails(o)
             \/ \E m \in Wrappers : EnterWrapperFails(m)
      PROVE  SInv'
  BY <1>4, <1>8, KindsDiffer DEF EnterObjectFails, EnterWrapperFails
<1>9. ASSUME NEW m \in Wrappers, NEW ok \in BOOLEAN, ExitWrapper(m, ok) PROVE SInv'
  BY <1>9, KindsDiffer, LeaveBlockStack DEF ExitWrapper
<1>10. ASSUME NEW f \in Futures, NEW asyncBlock \in BOOLEAN, Submit(f, asyncBlock)
       PROVE  SInv'
  <2>1. UNCHANGED <<koil, koilLoop, own, open, starts, blocks, failed, late, lost>>
    BY <1>10 DEF Submit, ambientVars, loopVars, ghostVars
  <2>2. \A g \in Futures \ {f} : held'[g] = held[g] BY <1>t, <1>10 DEF Submit, TypeOK
  <2>3. held'[f] = Here \/ held'[f] = AfterAsyncBlock(Here)
    BY <1>t, <1>10 DEF Submit, TypeOK
  <2>4. /\ Here.koilLoop = koilLoop
        /\ AfterAsyncBlock(Here).koilLoop = koilLoop /\ AfterAsyncBlock(Here).koil = NoKoil
    BY DEF Here, AfterAsyncBlock
  <2>5. BlocksDiffer' BY <2>1 DEF SInv, BlocksDiffer
  <2>6. KnownAgree'
    <3>1. ASSUME NEW g \in Futures PROVE held'[g].koilLoop <= starts
      BY <2>2, <2>3, <2>4 DEF SInv, KnownAgree
    <3> QED BY <2>1, <3>1 DEF SInv, KnownAgree
  <2>7. HeldAgrees => HeldAgrees'
    <3> SUFFICES ASSUME HeldAgrees, NEW g \in Futures,
                        held'[g].koilLoop \in open, held'[g].koil # NoKoil
                 PROVE  held'[g] = Here
      BY <2>1 DEF HeldAgrees, Here
    <3> QED BY <2>2, <2>3, <2>4 DEF HeldAgrees
  <2>8. StackAgrees'
    BY <2>1, <2>7 DEF SInv, StackAgrees, Undisturbed, OutsideAgrees, InsideAgrees, Here
  <2> QED BY <2>5, <2>6, <2>8 DEF SInv
<1>11. ASSUME NEW f \in Futures, Result(f) PROVE SInv'
  <2>1. UNCHANGED <<own, open, starts, blocks, held, failed>>
    BY <1>11 DEF Result, loopVars
  <2>2. BlocksDiffer' BY <2>1 DEF SInv, BlocksDiffer
  <2>3. KnownAgree' BY <1>11, <2>1 DEF Result, SInv, KnownAgree
  <2>4. ASSUME Undisturbed'
        PROVE  UNCHANGED <<koil, koilLoop>> /\ Undisturbed /\ StackAgrees
    <3>1. Undisturbed BY <1>11, <2>4 DEF Result, Undisturbed
    <3>2. held[f].koilLoop \in open /\ held[f].koil # NoKoil
      BY <1>11, <2>4 DEF Result, Undisturbed
    <3>3. held[f] = Here BY <3>1, <3>2 DEF SInv, StackAgrees, HeldAgrees
    <3> QED BY <1>11, <3>1, <3>3 DEF Result, Here, SInv
  <2>5. StackAgrees'
    BY <2>1, <2>4 DEF StackAgrees, OutsideAgrees, InsideAgrees, HeldAgrees, Here
  <2> QED BY <2>2, <2>3, <2>5 DEF SInv
<1>12. ASSUME UNCHANGED vars \/ \E l \in Loops : AbandonedEnds(l) PROVE SInv'
  BY <1>12 DEF vars, ambientVars, loopVars, ghostVars, AbandonedEnds, SInv, BlocksDiffer,
               KnownAgree, StackAgrees, Undisturbed, OutsideAgrees, InsideAgrees,
               HeldAgrees, Here
<1> QED
  BY <1>1, <1>2, <1>3, <1>5, <1>6, <1>7, <1>8, <1>9, <1>10, <1>11, <1>12
  DEF Next

-----------------------------------------------------------------------------
(* The theorems                                                            *)

\* The inductive invariant holds in every state.
LEMMA InductiveInvariant == Spec => []IInv
<1>1. Init => IInv
  <2> SUFFICES ASSUME Init PROVE IInv OBVIOUS
  <2>1. NoSubmission \in Ambient BY DEF NoSubmission, Ambient
  <2>2. TypeOK
    <3>1. held \in [Futures -> Ambient] BY <2>1 DEF Init
    <3>2. own \in [Managers -> Loops \cup {0}] BY DEF Init
    <3>3. entered \in [Objects -> SUBSET Fields] BY DEF Init
    <3>4. blocks \in Seq([who : Managers, outer : Ambient]) BY DEF Init
    <3>5. starts \in 0..MaxStarts BY CountAssumption DEF Init
    <3> QED BY <3>1, <3>2, <3>3, <3>4, <3>5 DEF Init, TypeOK
  <2>3. LoopsAgree BY DEF Init, LoopsAgree, OwnersDiffer, OneOwner, AbandonedAgree
  <2>4. OwnersAgree /\ AmbientAgrees BY DEF Init, OwnersAgree, AmbientAgrees
  <2> QED BY <2>2, <2>3, <2>4 DEF IInv
<1> QED BY <1>1, NextIInv, PTL DEF Spec

\* The model of the ambient variables and the blocks keeps its types.
THEOREM TypeCorrect == Spec => []TypeOK
<1>1. IInv => TypeOK BY DEF IInv
<1> QED BY <1>1, InductiveInvariant, PTL

\* However deep blocks are nested, wherever they fail and whatever loops were
\* given up on, a thread has no second koil loop and none without an owner unless
\* a coroutine came back without the ambient koil, only a koilable object whose
\* __aexit__ raised keeps a loop after its block, and the ambient loop is not a
\* stopped or abandoned one unless some result() came late.
THEOREM LoopsAreOwned == Spec => []OneOwnedLoop
<1>1. IInv => OneOwnedLoop
  <2> SUFFICES ASSUME IInv PROVE OneOwnedLoop OBVIOUS
  <2>1. ASSUME ~lost, NEW i \in open PROVE open = {i} /\ \E h \in Managers : own[h] = i
    <3>1. \A l \in open : l # 0 BY CountAssumption DEF IInv, TypeOK, Loops
    <3>2. OneOwner BY <2>1 DEF IInv, LoopsAgree
    <3>3. PICK g \in Managers : own[g] = i BY <2>1, <3>2 DEF OneOwner
    <3>4. ASSUME NEW j \in open PROVE j = i
      <4>1. PICK h \in Managers : own[h] = j BY <3>2, <3>4 DEF OneOwner
      <4> QED BY <2>1, <3>1, <3>2, <3>3, <3>4, <4>1 DEF OneOwner
    <3> QED BY <2>1, <3>3, <3>4
  <2>2. \A l \in open : l \notin abandoned BY DEF IInv, LoopsAgree, AbandonedAgree
  <2>3. ~late => koilLoop \in (open \ abandoned) \cup {0}
    BY <2>2 DEF IInv, AmbientAgrees
  <2> QED BY <2>1, <2>2, <2>3
    DEF IInv, LoopsAgree, OwnersDiffer, OwnersAgree, OneOwnedLoop
<1> QED BY <1>1, InductiveInvariant, PTL

\* So does the invariant of the stack.
LEMMA StackInvariant == Spec => []SInv
<1>1. Init => SInv
  <2> SUFFICES ASSUME Init PROVE SInv OBVIOUS
  <2>1. Len(blocks) = 0 /\ 1..0 = {} BY DEF Init
  <2>2. BlocksDiffer BY <2>1 DEF BlocksDiffer
  <2>4. KnownAgree BY DEF Init, KnownAgree, NoSubmission
  <2>5. StackAgrees BY DEF Init, StackAgrees, OutsideAgrees, HeldAgrees, NoSubmission
  <2> QED BY <2>2, <2>4, <2>5 DEF SInv
<1> QED BY <1>1, NextSInv, InductiveInvariant, PTL DEF Spec

\* However deep blocks are nested: inside there is a loop to call, outside there is
\* none and nothing pretends so, as long as nothing disturbed it.
THEOREM AmbientIsTheBlocks == Spec => []AmbientFollowsBlocks
<1>1. ASSUME IInv, SInv PROVE AmbientFollowsBlocks
  <2>1. \A l \in open \cup abandoned : l # 0
    BY <1>1, CountAssumption DEF IInv, TypeOK, Loops
  <2> QED BY <1>1, <2>1
    DEF SInv, StackAgrees, OutsideAgrees, InsideAgrees, AmbientFollowsBlocks, HasLoop
<1> QED BY <1>1, InductiveInvariant, StackInvariant, PTL

\* A block that is left gives back the ambient variables it found.
THEOREM AmbientComesBack == Spec => BlocksRestoreAmbient
<1> DEFINE Restores ==
        blocks # <<>> /\ blocks' = Tail(blocks) /\ Undisturbed' =>
            [koil |-> koil', koilLoop |-> koilLoop'] = Head(blocks).outer
<1>1. IInv /\ SInv /\ [Next]_vars => [Restores]_vars
  <2> SUFFICES ASSUME IInv, SInv, [Next]_vars, blocks # <<>>, blocks' = Tail(blocks),
                      Undisturbed'
               PROVE  Here' = Head(blocks).outer
    BY DEF Here
  <2>t. TypeOK BY DEF IInv
  <2>1. ASSUME NEW h \in Managers, Push(h) PROVE FALSE
    <3> DEFINE n == Len(blocks)
               m == Len(blocks')
    <3>1. n \in Nat /\ m = n + 1 BY <2>t, <2>1, PushShape
    <3>2. m = n - 1 BY <2>t DEF TypeOK
    <3> HIDE DEF n, m
    <3> QED BY <3>1, <3>2
  <2>2. blocks' # blocks
    <3>1. Len(Tail(blocks)) # Len(blocks) BY <2>t DEF TypeOK
    <3> QED BY <3>1
  <2>3. ASSUME NEW h \in Managers, failed' = failed \cup {h} PROVE FALSE
    BY <2>3 DEF Undisturbed
  <2>4. ASSUME NEW k \in Koils, ExitKoil(k) PROVE Here' = Head(blocks).outer
    BY <2>4, KindsDiffer, PopStack DEF ExitKoil, ghostVars
  <2>5. ASSUME NEW o \in Objects, ExitObject(o) PROVE Here' = Head(blocks).outer
    BY <2>5, KindsDiffer, PopStack DEF ExitObject, ghostVars
  <2>6. ASSUME NEW m \in Wrappers, NEW ok \in BOOLEAN, ExitWrapper(m, ok)
        PROVE  Here' = Head(blocks).outer
    BY <2>6, KindsDiffer, PopStack DEF ExitWrapper
  <2>7. ASSUME NEW k \in Koils, EnterKoil(k) PROVE FALSE
    BY <2>1, <2>7, KindsDiffer DEF EnterKoil
  <2>8. ASSUME NEW o \in Objects, EnterObject(o) \/ EnterObjectFails(o) \/ ExitObjectFails(o)
        PROVE  FALSE
    BY <2>1, <2>3, <2>8, KindsDiffer DEF EnterObject, EnterObjectFails, ExitObjectFails
  <2>9. ASSUME NEW m \in Wrappers, EnterWrapper(m) \/ EnterWrapperFails(m) PROVE FALSE
    BY <2>1, <2>3, <2>9, KindsDiffer DEF EnterWrapper, EnterWrapperFails
  <2>10. ASSUME NEW f \in Futures,
                (\E asyncBlock \in BOOLEAN : Submit(f, asyncBlock)) \/ Result(f)
         PROVE  FALSE
    BY <2>2, <2>10 DEF Submit, Result
  <2>11. ASSUME UNCHANGED vars \/ \E l \in Loops : AbandonedEnds(l) PROVE FALSE
    BY <2>2, <2>11 DEF vars, AbandonedEnds
  <2> QED BY <2>4, <2>5, <2>6, <2>7, <2>8, <2>9, <2>10, <2>11 DEF Next
<1> QED BY <1>1, InductiveInvariant, StackInvariant, PTL DEF Spec, BlocksRestoreAmbient
=============================================================================
