------------------------------ MODULE QtBridge ------------------------------
(***************************************************************************)
(* Calls from the koil loop into Qt (koil/qt.py): qt_to_async awaits a     *)
(* QtFuture that a slot resolves or rejects, qt_gen_to_async_gen iterates  *)
(* a QtGenerator that a slot feeds, stops or throws into.                  *)
(*                                                                         *)
(* The slot runs on the Qt main thread and may answer at once, later, more *)
(* than once or never.  Every answer is posted to the loop with            *)
(* call_soon_threadsafe and put into a box there: the asyncio future of a  *)
(* QtFuture, which takes one answer, or the queue of a QtGenerator.  The   *)
(* awaiting task may time out, be cancelled or, for a generator, stop      *)
(* iterating in the meantime, and closing the window of a QtKoil ends the  *)
(* loop from the Qt thread (KoilLoop).                                     *)
(***************************************************************************)
EXTENDS KoilLoop, Naturals, Sequences, SequencesExt

CONSTANTS
    QtFutures,    \* calls of qt_to_async
    QtGenerators, \* calls of qt_gen_to_async_gen
    Timed,        \* the calls with a timeout
    MaxSays       \* bound: answers given to a call

ASSUME KindsAssumption == QtFutures \cap QtGenerators = {}
ASSUME TimedAssumption == Timed \subseteq QtFutures \cup QtGenerators
ASSUME MaxSaysAssumption == MaxSays \in Nat

VARIABLES
    awaiter,      \* the coroutine in acall
    slot,         \* the slot on the Qt thread
    flagged,      \* resolved or rejected is set
    iscancelled,  \* set_cancelled came to its end
    said,         \* ghost: the answers posted, in order
    posted,       \* those the loop has not run yet
    box,          \* what the asyncio future or the queue holds
    withdrawn,    \* the asyncio future is cancelled
    got           \* the answers the coroutine took

slotVars == <<slot, flagged, said>>
boxVars  == <<posted, box>>
endVars  == <<awaiter, iscancelled, withdrawn, got>>
vars     == <<endVars, slotVars, boxVars, loopVars>>

Calls == QtFutures \cup QtGenerators

\* An answer and its number: a value, an exception, the end of a generator.
Answers == [kind : {"value", "error", "stop"}, n : 1..MaxSays]
Over    == {"returned", "raised", "timeout", "cancelled", "closed"}

TypeOK ==
    /\ LoopTypeOK
    /\ awaiter \in [Calls -> Over \cup {"idle", "awaiting", "yielded"}]
    /\ slot \in [Calls -> {"none", "called", "running", "left"}]
    /\ flagged \in [Calls -> BOOLEAN]
    /\ iscancelled \in [Calls -> BOOLEAN]
    /\ said \in [Calls -> Seq(Answers)]
    /\ posted \in [Calls -> Seq(Answers)]
    /\ box \in [Calls -> Seq(Answers)]
    /\ withdrawn \in [Calls -> BOOLEAN]
    /\ got \in [Calls -> Seq(Answers)]

Init ==
    /\ LoopInit
    /\ awaiter = [c \in Calls |-> "idle"]
    /\ slot = [c \in Calls |-> "none"]
    /\ flagged = [c \in Calls |-> FALSE]
    /\ iscancelled = [c \in Calls |-> FALSE]
    /\ said = [c \in Calls |-> <<>>]
    /\ posted = [c \in Calls |-> <<>>]
    /\ box = [c \in Calls |-> <<>>]
    /\ withdrawn = [c \in Calls |-> FALSE]
    /\ got = [c \in Calls |-> <<>>]

-----------------------------------------------------------------------------
(* The Qt thread                                                           *)

\* It runs one slot at a time and none while __exit__ joins the loop thread.
QtFree ==
    /\ exit \notin {"joining", "rejoining"}
    /\ \A c \in Calls : slot[c] # "running"

\* on_called: the queued _called signal is delivered.
OnCalled(c) ==
    /\ QtFree
    /\ slot[c] = "called"
    /\ slot' = [slot EXCEPT ![c] = "running"]
    /\ UNCHANGED <<flagged, said, endVars, boxVars, loopVars>>

\* resolve and reject, next, throw and stop.  On a closed loop the posting
\* raises in the slot, and the flag of a QtFuture is set all the same.
Post(c, kind) ==
    /\ Len(said[c]) < MaxSays
    /\ kind = "stop" => c \in QtGenerators
    /\ flagged' = [flagged EXCEPT ![c] = @ \/ c \in QtFutures]
    /\ LET answer == [kind |-> kind, n |-> Len(said[c]) + 1] IN
       IF LoopAlive
         THEN /\ said' = [said EXCEPT ![c] = Append(@, answer)]
              /\ posted' = [posted EXCEPT ![c] = Append(@, answer)]
         ELSE UNCHANGED <<said, posted>>

\* An answer from the slot itself, or after it from anything on the Qt thread.
Say(c, kind) ==
    /\ slot[c] = "running" \/ (slot[c] = "left" /\ QtFree)
    /\ Post(c, kind)
    /\ UNCHANGED <<slot, endVars, box, loopVars>>

SlotReturns(c) ==
    /\ slot[c] = "running"
    /\ slot' = [slot EXCEPT ![c] = "left"]
    /\ UNCHANGED <<flagged, said, endVars, boxVars, loopVars>>

\* on_called rejects the call, or throws into it, when the slot raises, also
\* after the slot has answered.
SlotRaises(c) ==
    /\ slot[c] = "running"
    /\ slot' = [slot EXCEPT ![c] = "left"]
    /\ Post(c, "error")
    /\ UNCHANGED <<endVars, box, loopVars>>

\* closeEvent or destroyed of the window while the QtKoil runs: __exit__.
CloseWindow ==
    /\ QtFree
    /\ ExitCall
    /\ UNCHANGED <<endVars, slotVars, boxVars>>

ExitWaits ==
    /\ JoinReturns \/ JoinTimesOut \/ Abandon
    /\ UNCHANGED <<endVars, slotVars, boxVars>>

-----------------------------------------------------------------------------
(* The loop                                                                *)

\* acall: create the QtFuture or QtGenerator, emit _called and await.
Acall(c) ==
    /\ loop = "running"
    /\ awaiter[c] = "idle"
    /\ awaiter' = [awaiter EXCEPT ![c] = "awaiting"]
    /\ slot' = [slot EXCEPT ![c] = "called"]
    /\ UNCHANGED <<flagged, iscancelled, withdrawn, said, got, boxVars, loopVars>>

\* Fault: a generator keeps one answer, like a future.
DepositOne(c) ==
    /\ LoopAlive
    /\ posted[c] # <<>>
    /\ posted' = [posted EXCEPT ![c] = Tail(@)]
    /\ box' = [box EXCEPT ![c] = IF withdrawn[c] THEN @ ELSE <<Head(posted[c])>>]
    /\ UNCHANGED <<endVars, slotVars, loopVars>>

\* Fault: what comes before the coroutine awaits again is not queued.
DepositIfAwaited(c) ==
    /\ LoopAlive
    /\ posted[c] # <<>>
    /\ posted' = [posted EXCEPT ![c] = Tail(@)]
    /\ box' = [box EXCEPT ![c] =
                 IF awaiter[c] = "awaiting" THEN Append(@, Head(posted[c])) ELSE @]
    /\ UNCHANGED <<endVars, slotVars, loopVars>>

\* A posted callback runs: _set_future_result and _set_future_exception ignore
\* a future that is done or cancelled, put_nowait always queues.
Deposit(c) ==
    /\ LoopAlive
    /\ posted[c] # <<>>
    /\ posted' = [posted EXCEPT ![c] = Tail(@)]
    /\ box' = [box EXCEPT ![c] =
                 IF c \in QtFutures /\ (withdrawn[c] \/ got[c] # <<>> \/ @ # <<>>)
                   THEN @
                   ELSE Append(@, Head(posted[c]))]
    /\ UNCHANGED <<endVars, slotVars, loopVars>>

\* Fault: the kind of the answer is taken for the state of the coroutine.
AfterAnswerRaw(c, kind) == kind

\* Where an answer takes the coroutine.
AfterAnswer(c, kind) ==
    CASE kind = "error"                         -> "raised"
      [] kind = "value" /\ c \in QtGenerators   -> "yielded"
      [] OTHER                                  -> "returned"

\* The await comes back with the answer.
Take(c) ==
    /\ LoopAlive
    /\ awaiter[c] = "awaiting"
    /\ box[c] # <<>>
    /\ awaiter' = [awaiter EXCEPT ![c] = AfterAnswer(c, Head(box[c]).kind)]
    /\ got' = [got EXCEPT ![c] = Append(@, Head(box[c]))]
    /\ box' = [box EXCEPT ![c] = Tail(@)]
    /\ UNCHANGED <<iscancelled, withdrawn, slotVars, posted, loopVars>>

\* The consumer asks for the next value ...
Anext(c) ==
    /\ LoopAlive
    /\ awaiter[c] = "yielded"
    /\ awaiter' = [awaiter EXCEPT ![c] = "awaiting"]
    /\ UNCHANGED <<iscancelled, withdrawn, got, slotVars, boxVars, loopVars>>

\* ... or leaves the generator at its yield: the Qt side is not told.
Close(c) ==
    /\ LoopAlive
    /\ awaiter[c] = "yielded"
    /\ awaiter' = [awaiter EXCEPT ![c] = "closed"]
    /\ UNCHANGED <<iscancelled, withdrawn, got, slotVars, boxVars, loopVars>>

\* Fault: wait_for does not reach the asyncio future.
TimesOutShielded(c) ==
    /\ LoopAlive
    /\ c \in Timed
    /\ awaiter[c] = "awaiting"
    /\ awaiter' = [awaiter EXCEPT ![c] = "timeout"]
    /\ UNCHANGED <<withdrawn, iscancelled, got, slotVars, boxVars, loopVars>>

\* wait_for gives up: TimeoutError.  It cancels the asyncio future, if that is
\* not done, and calls no set_cancelled.
TimesOut(c) ==
    /\ LoopAlive
    /\ c \in Timed
    /\ awaiter[c] = "awaiting"
    /\ awaiter' = [awaiter EXCEPT ![c] = "timeout"]
    /\ withdrawn' = [withdrawn EXCEPT ![c] = c \in QtFutures /\ box[c] = <<>>]
    /\ UNCHANGED <<iscancelled, got, slotVars, boxVars, loopVars>>

\* CancelledError in acall of these calls: set_cancelled and the cancelled
\* signals.  An emit that raises (not in "heard") takes the place of the
\* CancelledError; that of a QtFuture comes before the flag is set.
CancelAwaits(cs, heard) ==
    /\ awaiter' = [c \in Calls |->
          IF c \in cs THEN (IF c \in heard THEN "cancelled" ELSE "raised") ELSE awaiter[c]]
    /\ iscancelled' = [c \in Calls |->
          iscancelled[c] \/ (c \in cs /\ (c \in heard \/ c \in QtGenerators))]
    /\ withdrawn' = [c \in Calls |->
          withdrawn[c] \/ (c \in cs \cap QtFutures /\ box[c] = <<>>)]
    /\ UNCHANGED <<got, slotVars, boxVars>>

Awaiting == {c \in Calls : awaiter[c] = "awaiting"}

Cancel(c) ==
    /\ LoopAlive
    /\ awaiter[c] = "awaiting"
    /\ \E heard \in SUBSET {c} : CancelAwaits({c}, heard)
    /\ UNCHANGED loopVars

\* The shutdown cancels every task that awaits.
Drain ==
    /\ StopRuns
    /\ \E heard \in SUBSET Awaiting : CancelAwaits(Awaiting, heard)

LoopEnds ==
    /\ GatherDone \/ CloseLoop
    /\ UNCHANGED <<endVars, slotVars, boxVars>>

-----------------------------------------------------------------------------
Kinds == {"value", "error", "stop"}

Next ==
    \/ \E c \in Calls :
          \/ OnCalled(c)
          \/ \E kind \in Kinds : Say(c, kind)
          \/ SlotReturns(c)
          \/ SlotRaises(c)
          \/ Acall(c)
          \/ Deposit(c)
          \/ Take(c)
          \/ Anext(c)
          \/ Close(c)
          \/ TimesOut(c)
          \/ Cancel(c)
    \/ CloseWindow
    \/ ExitWaits
    \/ Drain
    \/ LoopEnds

Spec == Init /\ [][Next]_vars

\* The loop runs what is posted and resumes what is ready.  Nothing is assumed
\* of the Qt thread.
FairSpec ==
    /\ Spec
    /\ \A c \in Calls : WF_vars(Deposit(c)) /\ WF_vars(Take(c))

-----------------------------------------------------------------------------
(* Properties                                                              *)

\* The coroutine receives what the Qt side said, once, in that order and with
\* nothing left out: of a QtFuture the first answer only, of a QtGenerator all
\* up to its end, also when several were posted before the loop took the first
\* or the slot raised after it answered (QtFuture.resolve, QtGenerator.next).
ReceivedAsSaid ==
    \A c \in Calls :
        /\ IsPrefix(got[c], said[c])
        /\ c \in QtFutures => Len(got[c]) <= 1
        /\ \A i \in DOMAIN got[c] : got[c][i].kind # "value" => i = Len(got[c])
        /\ awaiter[c] = "returned" =>
              got[c] # <<>> /\ (c \in QtGenerators => Last(got[c]).kind = "stop")

\* Whatever ended the call, a slot that still holds the QtFuture can tell that
\* nobody waits for its answer: done or is_cancelled says so.
QtCanTell ==
    \A c \in QtFutures : awaiter[c] \in Over =>
        flagged[c] \/ iscancelled[c] \/ withdrawn[c]

\* An answer gets to the coroutine that awaits it, unless it stopped waiting or
\* the loop went away.
AnswersArrive ==
    \A c \in Calls :
        awaiter[c] = "awaiting" /\ Len(said[c]) > Len(got[c])
            ~> awaiter[c] # "awaiting" \/ loop = "closed"
=============================================================================
