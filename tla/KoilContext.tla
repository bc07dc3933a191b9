----------------------------- MODULE KoilContext -----------------------------
(***************************************************************************)
(* The ambient koil of a synchronous thread (koil/context.py) and the with *)
(* blocks that start, borrow and stop it: Koil itself (koil/loop.py), the  *)
(* @koilable objects and koiled_cm wrappers of koil/decorators.py and the  *)
(* compositions of koil/composition/base.py.                               *)
(*                                                                         *)
(* A block starts a loop only if there is no ambient koil, so whoever is   *)
(* first hosts the loop for all blocks inside.  The ambient variables come *)
(* back from the loop too: result() writes the coroutine's whole context   *)
(* into the caller, the ambient koil of the submission included.  A        *)
(* coroutine that used async with Koil() comes back without one.           *)
(*                                                                         *)
(* One thread, blocks left in the reverse order of entering, no manager    *)
(* entered again inside itself.  The end of a loop is one step here (its   *)
(* phases are in KoilLoop) unless __exit__ gives up on a wedged thread:    *)
(* the ambient koil is cleared all the same, and the loop runs on beside   *)
(* whatever is started next until it ends at some later time.              *)
(***************************************************************************)
EXTENDS Naturals, Sequences

CONSTANTS
    Koils,       \* Koil instances used in with blocks
    Objects,     \* instances of @koilable classes, compositions of fields
    Wrappers,    \* koiled_cm wrappers
    Futures,     \* unkoil_task calls
    NoKoil,      \* None
    FieldCount,  \* fields of a composition that have an __aenter__
    MaxStarts    \* bound on the loops started

ASSUME NoKoilAssumption == NoKoil \notin Koils \cup Objects \cup Wrappers
ASSUME KindsAssumption ==
    Koils \cap Objects = {} /\ Koils \cap Wrappers = {} /\ Objects \cap Wrappers = {}
ASSUME CountAssumption == FieldCount \in Nat /\ MaxStarts \in Nat

VARIABLES
    koil,        \* global_koil
    koilLoop,    \* global_koil_loop, 0 for None
    own,         \* _loop of the Koil that each manager is or keeps
    open,        \* the loops that run and that nobody gave up on
    abandoned,   \* the loops that still run after __exit__ gave up on them
    starts,      \* the number of loops started
    blocks,      \* the blocks the thread is in, innermost first
    entered,     \* the fields of each composition that are entered
    held,        \* the ambient variables the coroutine of each future ends with
    failed,      \* ghost: managers whose __aenter__ or __aexit__ raised
    late,        \* ghost: some result() came after its loop was closed
    lost         \* ghost: some result() took the ambient koil away

ambientVars == <<koil, koilLoop>>
loopVars    == <<own, open, abandoned, starts>>
ghostVars   == <<failed, late, lost>>
vars        == <<ambientVars, loopVars, blocks, entered, held, ghostVars>>

\* Every manager has at most one Koil, so it is called by the manager's name.
Managers == Koils \cup Objects \cup Wrappers
Loops    == 1..MaxStarts
Fields   == 1..FieldCount
Ambient  == [koil : Managers \cup {NoKoil}, koilLoop : Loops \cup {0}]
NoSubmission == [koil |-> NoKoil, koilLoop |-> 0]

TypeOK ==
    /\ koil \in Managers \cup {NoKoil}
    /\ koilLoop \in Loops \cup {0}
    /\ own \in [Managers -> Loops \cup {0}]
    /\ open \in SUBSET Loops
    /\ abandoned \in SUBSET Loops
    /\ starts \in 0..MaxStarts
    /\ blocks \in Seq([who : Managers, outer : Ambient])
    /\ entered \in [Objects -> SUBSET Fields]
    /\ held \in [Futures -> Ambient]
    /\ failed \in SUBSET Managers
    /\ late \in BOOLEAN
    /\ lost \in BOOLEAN

Init ==
    /\ koil = NoKoil
    /\ koilLoop = 0
    /\ own = [h \in Managers |-> 0]
    /\ open = {}
    /\ abandoned = {}
    /\ starts = 0
    /\ blocks = <<>>
    /\ entered = [o \in Objects |-> {}]
    /\ held = [f \in Futures |-> NoSubmission]
    /\ failed = {}
    /\ late = FALSE
    /\ lost = FALSE

Inside(h) == \E i \in 1..Len(blocks) : blocks[i].who = h

\* get_koiled_loop_or_raise: without this unkoil raises.
HasLoop == koilLoop \in open \cup abandoned

-----------------------------------------------------------------------------
(* Pieces the blocks share                                                 *)

Here    == [koil |-> koil, koilLoop |-> koilLoop]
Push(h) == blocks' = <<[who |-> h, outer |-> Here]>> \o blocks
Innermost(h) == blocks # <<>> /\ Head(blocks).who = h

\* Fault: a nested Koil starts a loop of its own.
OpenKoilAlways(h) ==
    /\ starts < MaxStarts
    /\ starts' = starts + 1
    /\ own' = [own EXCEPT ![h] = starts + 1]
    /\ open' = open \cup {starts + 1}
    /\ koil' = h
    /\ koilLoop' = starts + 1
    /\ UNCHANGED abandoned

\* Koil.__enter__: start a loop and become the ambient koil, or borrow the one
\* there is.
OpenKoil(h) ==
    IF koil = NoKoil
      THEN /\ starts < MaxStarts
           /\ starts' = starts + 1
           /\ own' = [own EXCEPT ![h] = starts + 1]
           /\ open' = open \cup {starts + 1}
           /\ koil' = h
           /\ koilLoop' = starts + 1
           /\ UNCHANGED abandoned
      ELSE UNCHANGED <<ambientVars, loopVars>>

\* The two bounded joins of Koil.__exit__: the loop l is closed, or its thread is
\* still alive and left to itself.
StopLoop(l) ==
    /\ open' = open \ {l}
    /\ abandoned' \in {abandoned, abandoned \cup {l}}

\* Fault: the ambient loop stays behind, only the koil is cleared.
CloseKoilHalfway(h) ==
    IF own[h] # 0
      THEN /\ StopLoop(own[h])
           /\ own' = [own EXCEPT ![h] = 0]
           /\ koil' = NoKoil
           /\ UNCHANGED <<starts, koilLoop>>
      ELSE UNCHANGED <<ambientVars, loopVars>>

\* Koil.__exit__: whoever started a loop stops it and clears the ambient koil,
\* whether the loop ended or not.
CloseKoil(h) ==
    IF own[h] # 0
      THEN /\ StopLoop(own[h])
           /\ own' = [own EXCEPT ![h] = 0]
           /\ koil' = NoKoil
           /\ koilLoop' = 0
           /\ UNCHANGED starts
      ELSE UNCHANGED <<ambientVars, loopVars>>

\* Koil.__enter__ and, because __aenter__ raised, Koil.__exit__ again, if the
\* Koil was started.
OpenAndCloseKoil(h) ==
    IF koil = NoKoil
      THEN /\ starts < MaxStarts
           /\ starts' = starts + 1
           /\ own' = [own EXCEPT ![h] = 0]
           /\ StopLoop(starts + 1)
           /\ koilLoop' = 0
           /\ UNCHANGED koil
      ELSE UNCHANGED <<ambientVars, loopVars>>

\* Fault: one field too many.
EnterFieldsBeyond(o, bad) ==
    entered' = [entered EXCEPT ![o] = @ \cup 1..bad]

\* Composition.__aenter__: the fields one by one; the first that raises leaves
\* the ones before it entered.  "bad" is one past the end if none does.
EnterFields(o, bad) ==
    entered' = [entered EXCEPT ![o] = @ \cup {i \in Fields : i < bad}]

\* Composition.__aexit__: the same way, and in the same order.
ExitFields(o, bad) ==
    entered' = [entered EXCEPT ![o] = @ \ {i \in Fields : i < bad}]

-----------------------------------------------------------------------------
(* with Koil()                                                             *)

EnterKoil(k) ==
    /\ ~Inside(k)
    /\ OpenKoil(k)
    /\ Push(k)
    /\ UNCHANGED <<entered, held, ghostVars>>

ExitKoil(k) ==
    /\ Innermost(k)
    /\ CloseKoil(k)
    /\ blocks' = Tail(blocks)
    /\ UNCHANGED <<entered, held, ghostVars>>

-----------------------------------------------------------------------------
(* with obj, an instance of a @koilable class                              *)

\* koiled_enter, and __aenter__ comes to its end.
EnterObject(o) ==
    /\ ~Inside(o)
    /\ koil = NoKoil \/ HasLoop
    /\ OpenKoil(o)
    /\ Push(o)
    /\ EnterFields(o, FieldCount + 1)
    /\ UNCHANGED <<held, ghostVars>>

\* __aenter__ raises at one of the fields, or unkoil refuses to call it: a Koil
\* started for it is stopped again and there is no block to leave.
EnterObjectFails(o) ==
    /\ ~Inside(o)
    /\ OpenAndCloseKoil(o)
    /\ \E bad \in Fields \cup {1} :
          /\ koil = NoKoil \/ HasLoop \/ bad = 1
          /\ EnterFields(o, bad)
    /\ failed' = failed \cup {o}
    /\ UNCHANGED <<blocks, held, late, lost>>

\* koiled_exit: first __aexit__, then the Koil of the object if it has one.
ExitObject(o) ==
    /\ Innermost(o)
    /\ HasLoop
    /\ ExitFields(o, FieldCount + 1)
    /\ CloseKoil(o)
    /\ blocks' = Tail(blocks)
    /\ UNCHANGED <<held, ghostVars>>

\* __aexit__ raises, or unkoil refuses: koiled_exit ends there and the Koil is
\* not stopped.
ExitObjectFails(o) ==
    /\ Innermost(o)
    /\ \E bad \in Fields \cup {1} :
          /\ HasLoop \/ bad = 1
          /\ ExitFields(o, bad)
    /\ blocks' = Tail(blocks)
    /\ failed' = failed \cup {o}
    /\ UNCHANGED <<ambientVars, loopVars, held, late, lost>>

-----------------------------------------------------------------------------
(* with koiled_cm(acm)                                                     *)

EnterWrapper(m) ==
    /\ ~Inside(m)
    /\ koil = NoKoil \/ HasLoop
    /\ OpenKoil(m)
    /\ Push(m)
    /\ UNCHANGED <<entered, held, ghostVars>>

EnterWrapperFails(m) ==
    /\ ~Inside(m)
    /\ OpenAndCloseKoil(m)
    /\ failed' = failed \cup {m}
    /\ UNCHANGED <<blocks, entered, held, late, lost>>

\* Fault: the Koil is stopped only when __aexit__ came to its end.
ExitWrapperLeaks(m, ok) ==
    /\ Innermost(m)
    /\ ok => HasLoop
    /\ IF ok THEN CloseKoil(m) ELSE UNCHANGED <<ambientVars, loopVars>>
    /\ blocks' = Tail(blocks)
    /\ failed' = IF ok THEN failed ELSE failed \cup {m}
    /\ UNCHANGED <<entered, held, late, lost>>

\* __aexit__ ends or raises; the Koil is stopped in the finally.
ExitWrapper(m, ok) ==
    /\ Innermost(m)
    /\ ok => HasLoop
    /\ CloseKoil(m)
    /\ blocks' = Tail(blocks)
    /\ failed' = IF ok THEN failed ELSE failed \cup {m}
    /\ UNCHANGED <<entered, held, late, lost>>

-----------------------------------------------------------------------------
(* Futures that carry the ambient variables                                *)

\* The context of a coroutine that ran to the end of async with Koil(): that
\* __aenter__ sets the loop it runs on, and __aexit__ clears the koil.
AfterAsyncBlock(ctx) == [ctx EXCEPT !.koil = NoKoil]

\* unkoil_task: the coroutine gets a copy of the caller's context, and may enter
\* and leave a Koil of its own.
Submit(f, asyncBlock) ==
    /\ held[f] = NoSubmission
    /\ HasLoop
    /\ held' = [held EXCEPT ![f] = IF asyncBlock THEN AfterAsyncBlock(Here) ELSE Here]
    /\ UNCHANGED <<ambientVars, loopVars, blocks, entered, ghostVars>>

\* result() of a coroutine that returned, now or before its loop was closed:
\* its context is written into the caller.
Result(f) ==
    /\ held[f] # NoSubmission
    /\ koil' = held[f].koil
    /\ koilLoop' = held[f].koilLoop
    /\ late' = (late \/ held[f].koilLoop \notin open)
    /\ lost' = (lost \/ held[f].koil = NoKoil)
    /\ UNCHANGED <<loopVars, blocks, entered, held, failed>>

-----------------------------------------------------------------------------
\* The thread of an abandoned loop gets through its shutdown after all.
AbandonedEnds(l) ==
    /\ l \in abandoned
    /\ abandoned' = abandoned \ {l}
    /\ UNCHANGED <<ambientVars, own, open, starts, blocks, entered, held, ghostVars>>

-----------------------------------------------------------------------------
Next ==
    \/ \E k \in Koils : EnterKoil(k) \/ ExitKoil(k)
    \/ \E o \in Objects :
          EnterObject(o) \/ EnterObjectFails(o) \/ ExitObject(o) \/ ExitObjectFails(o)
    \/ \E m \in Wrappers :
          \/ EnterWrapper(m)
          \/ EnterWrapperFails(m)
          \/ \E ok \in BOOLEAN : ExitWrapper(m, ok)
    \/ \E f \in Futures :
          \/ \E asyncBlock \in BOOLEAN : Submit(f, asyncBlock)
          \/ Result(f)
    \/ \E l \in Loops : AbandonedEnds(l)

Spec == Init /\ [][Next]_vars

-----------------------------------------------------------------------------
(* Properties                                                              *)

\* However blocks are nested, fail and are left, and whatever loops __exit__ gave
\* up on meanwhile: the thread has no second koil loop, nor one that nobody will
\* stop, unless a coroutine came back without the ambient koil; a loop belongs
\* to a block the thread is in, or to a koilable object whose __aexit__ raised;
\* and the ambient loop is never one that was stopped or abandoned, unless some
\* result() came late (Koil.__enter__, Koil.__exit__, koiled_exit and the
\* finally of koiled_cm).
OneOwnedLoop ==
    /\ ~lost => \A l \in open : open = {l} /\ \E h \in Managers : own[h] = l
    /\ \A h \in Managers : own[h] # 0 =>
          own[h] \in open \ abandoned /\ (Inside(h) \/ h \in failed \cap Objects)
    /\ ~late => koilLoop \in (open \ abandoned) \cup {0}

\* Nothing raised, and no result() came late or without the ambient koil.
Undisturbed == failed = {} /\ ~late /\ ~lost

\* Inside a block there is a loop to call, outside there is none and no ambient
\* koil that pretends so, as long as nothing disturbed it (Koil.__enter__ and
\* Koil.__exit__).
AmbientFollowsBlocks ==
    Undisturbed =>
        /\ HasLoop <=> blocks # <<>>
        /\ koil = NoKoil <=> blocks = <<>>
        /\ koilLoop = 0 <=> blocks = <<>>

\* Leaving a block gives the thread the ambient koil and loop it had before it,
\* under the same condition.
BlocksRestoreAmbient ==
    [][blocks # <<>> /\ blocks' = Tail(blocks) /\ Undisturbed' =>
         [koil |-> koil', koilLoop |-> koilLoop'] = Head(blocks).outer]_vars

\* Structured teardown: outside all blocks no loop thread is left but those that
\* __exit__ gave up on.
NoLoopOutsideBlocks == blocks = <<>> => open = {}

\* All blocks inside the same Koil share its loop thread: there is no other.
BlocksShareLoop == \A i, j \in open : i = j

\* global_koil is the koil that is active in the current context: its loop can
\* be called.
AmbientKoilIsActive == koil # NoKoil => HasLoop
=============================================================================
