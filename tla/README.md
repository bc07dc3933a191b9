# koil in TLA+

koil lets synchronous threads call async code and async code call blocking
functions. A `Koil` hosts an asyncio event loop in a background thread. Every
bridge crosses between that loop and some other thread, and carries a
cancellation, a deadline, an error or a ContextVar with it. This project models
those crossings, checks them with TLC on small instances and proves the safety
properties with TLAPS for every number of calls.

Line numbers are those of the modelled commit; `PROJECT.json` maps each
definition to the lines it translates.

## 1. The system

| Component | Source | State | Operations |
|---|---|---|---|
| Event loop thread and `Koil` exit | `koil/loop.py` | the loop, its thread, the tasks being cancelled | `__enter__`, `__exit__`, `__aenter__`, `__aexit__`, `run_threaded_event_loop`, `get_threaded_loop` |
| `KoilFuture` and its task | `koil/utils.py` | the concurrent future, `own_cancel_event`, the ambient cancel event, `_cancel_requested`; in the task: the race, the losers, `acknowledged` | `run_async_sharing_context`, `passed_with_context`, `cancel`, `cancelled`, `done`, `result` |
| Sync-to-async entry points | `koil/bridge.py` | none of their own | `unkoil`, `unkoil_task`, `unkoil_gen`, the `_with_timeout` variants |
| Threads run from async code | `koil/bridge.py` | default executor, one cancel event per call, the copied context | `run_threaded`, `run_threaded_bridged`, `sleep`, `check_cancelled` |
| Threaded iteration | `koil/bridge.py` | as above, plus the synchronous generator; one `run_threaded` call per step and one for the close | `iterate_threaded`, `iterate_threaded_bridged` |
| Async generators | `koil/utils.py`, `koil/bridge.py` | one step at a time on the loop, the shared context | `iterate_async_sharing_context`, `unkoil_gen`, `aclose_async_gen_threadsafe` |
| Ambient variables | `koil/context.py`, `koil/loop.py` | `global_koil`, `global_koil_loop`, `current_cancel_event` | set on enter, cleared on exit, copied back by `result()` |
| koilable objects | `koil/decorators.py` | who started the Koil an object uses | `koiled_enter`, `koiled_exit`, the async pair |
| Composition | `koil/composition/base.py` | which fields have been entered | sequential enter and exit |
| Qt bridge | `koil/qt.py` | `QtFuture`, `QtGenerator`, signals | `resolve`, `reject`, `next`, `throw`, `stop`, `qt_to_async`, `qt_gen_to_async_gen`, `async_to_qt`, `async_gen_to_qt`, closing the window |
| Traceback pruning | `koil/tracebacks.py` | none | pure function on tracebacks |

How they interact. `unkoil` posts a coroutine to the loop and waits; the loop
answers through a concurrent future. `run_threaded` queues a function on the
default executor and the executor answers through an asyncio future. A worker
of `run_threaded` that calls `unkoil` hands its cancel event to the submission
as the *ambient* event, so that cancelling the outer call cancels the inner
coroutine. `KoilThreadSafeEvent.set` never sets: it posts the setting to the
loop, so between the two any step of any other thread may come. `__exit__`
posts a stop to the same loop, behind everything posted so far and before
whatever another thread posts next.

What is hard about it:

- several things complete before the waiting task runs again (result, cancel,
  deadline), and one of them has to decide outcome *and* signal;
- what lost the race is awaited one after another, and each await is a point
  where coroutines end, fail, or get cancelled again by the shutdown;
- callers give up at any moment (deadline, Ctrl+C), and must leave nothing
  running unattended;
- submissions race with the snapshot of tasks the shutdown cancels;
- cancellation travels through a thread, a nested `unkoil` and another thread,
  and none of the user code on the way has to cooperate;
- threads of the pool are held while their function waits for the loop;
- the frame of a generator, synchronous or not, can be driven by one party at a
  time, and step, close and shutdown all want to drive it;
- a slot on the Qt thread answers at once, late, twice or never, and the loop
  sees its answers only later;
- a context comes back from the loop whole, the ambient koil included.

`PROJECT.json` lists these as hazards, each at its line with the properties
that cover it.

## 2. Modules

| Module | Models | Size of state |
|---|---|---|
| `KoilLoop` | `run_threaded_event_loop` and `Koil.__exit__` | phase of the loop thread, phase of the exiting thread |
| `Settlement` | the abstract promise of a call across the bridge, in either direction | 3 variables |
| `KoilFuture` | `run_async_sharing_context`, `iterate_async_sharing_context`, `passed_with_context`, `_KoilFutureBase`, `unkoil`, `unkoil_task` and their variants; extends `KoilLoop` and gives its phases their effect on the tasks; implements `Settlement` | 17 variables and the two phases |
| `RunThreaded` | `_run_threaded`, `run_threaded`, `run_threaded_bridged`, `sleep`, `check_cancelled` and the nested `unkoil` seen from a worker; implements `Settlement` | 6 functions of the call |
| `UnkoilGen` | `unkoil_gen`, `unkoil_gen_with_timeout`, `aclose_async_gen_threadsafe`; extends `KoilLoop` | 14 variables and the two phases |
| `IterateThreaded` | `_iterate_threaded` and its two entry points; composed with an instance of `RunThreaded`, whose actions are its calls | 7 variables beside those of the calls |
| `QtBridge` | `QtFuture`, `QtGenerator`, `qt_to_async`, `qt_gen_to_async_gen` and the close of the window; extends `KoilLoop` | 9 functions of the call and the two phases |
| `KoilContext` | the ambient variables of a synchronous thread; `Koil.__enter__`/`__exit__`, `koilable`, `koiled_cm`, `Composition`, and the copy of the context by `result()` | 12 variables |
| `KoilFutureProofs`, `RunThreadedProofs`, `UnkoilGenProofs`, `IterateThreadedProofs`, `QtBridgeProofs`, `KoilContextProofs` | the theorems about the module each extends | |
| `KoilFutureRefinement` | the proof that `KoilFuture` implements `Settlement`; that of `RunThreaded` is in `RunThreadedProofs` | |
| `MCKoilFuture`, `MCRunThreaded`, `MCQtBridge`, `MCKoilContext` | instances for TLC; `UnkoilGen` and `IterateThreaded` need none | |

Operators whose comment starts with "Fault" are plausible wrong versions of the
definition that follows them. They are used only to confirm that the properties
notice them; no specification refers to them.

### KoilLoop

`loop` runs through `running`, `draining` (run_forever has returned, the tasks
are cancelled and gathered), `finalizing` (`shutdown_asyncgens`) and `closed`.
`exit` is the thread in `__exit__`: first join, second join, and then either
joined or the daemon thread abandoned. The phases are kept apart because the
loop still runs callbacks while it drains and finalizes.

### KoilFuture

For each submission `f`:

| Variable | Code |
|---|---|
| `call`, `answer` | where the caller is: not submitted, refused, holding the future, in `result()` unbounded (`waiting`) or bounded, in `_timeout_expired` before its `cancel()` (`expired`) or in its grace, in the handler of Ctrl+C (`interrupted`), gone; and how `result()` ended |
| `asking` | who is inside `cancel()`, past its `done()` test: the holder of the future, or `result()` itself |
| `requested`, `own` | `_cancel_requested` and `own_cancel_event` (clear, setting posted, set) |
| `ambient`, `torn` | the cancel event of each enclosing `run_threaded` call; `torn` is a ghost that remembers which of these calls were really cancelled |
| `task` | `passed_with_context`: posted, created, racing in `asyncio.wait`, in the tidying loop, awaiting the cancelled coroutine (`unwinding`), ended, copied into the concurrent future (`resolved`) |
| `work` | the coroutine `future_t`: running, asked to cancel, or ended by returning, raising, raising `TimeoutError`, or `CancelledError` |
| `waiting`, `finished`, `todo`, `ack` | pending waiters, what `asyncio.wait` returned, what is left of `unfinished`, `acknowledged` |
| `out`, `emitted` | outcome of the task and terminal Qt signal |
| `nexts` | ghost: whether the stream emitted a value, and whether one came after its terminal signal |
| `tasks` | what the shutdown gathers |

One action per atomic stretch of code: a stretch on the loop ends at an
`await`, one on a thread ends where another thread can see the difference.
`Submit` is everything up to `run_coroutine_threadsafe`. `cancel()` is
check-then-act on another thread than the one that resolves the future, so it is
two steps, `CancelTest` and `CancelSet`, with the loop free to run in between;
the holder takes them as `Cancel` and `CancelEnds`, and `result()` as
`ResultCancels` and `ResultCancelled` after `Expire` or `Interrupt`. `WaitReturns` is the return of
`asyncio.wait` and the setup of the tidying loop; `TidyWaiter`, `TidyWork`,
`UnwindEnds` and `GraceExpires` are the tidying loop, in any order because
`unfinished` is a set; `Finish` is everything after it. A `TimeoutError` ends
the wait for the coroutine the way the grace does, and any other error leaves
the task from the middle of the loop, as in the code. `Finish(f, FALSE)` is a
signal whose emit raises. `IterateAsync` submits a generator (a member of
`Streams`): its coroutine is the loop that drives it, and `Yields` is one value
going out through `next.emit`, which may happen as long as that coroutine lives.
`Drain` cancels all tasks at once; what that does to a
task depends on where it is (`AfterShutdownCancel`).

### RunThreaded

For each call: the coroutine in `_run_threaded` (`awaiter`), the function on the
pool (`worker`), the cancel event, the number of cancellations received (ghost),
and whether the worker changed a ContextVar and the caller sees it. `Parent`
says which call's worker makes which nested call. `Nest` and `Unnest` are the
`unkoil` around a nested call, `CancelNested` its race against the ambient event
as `KoilFuture` has it. The functions are the user's: they may write, sleep,
check, nest, return, raise or do nothing for ever.

### Settlement, and how the two directions implement it

`Settlement` knows of a call its future (`idle`, `pending`, or the outcome), its
body on the other side, and whether somebody asked it to stop. It promises that
a call is settled once, never over a body that runs on untold, with a value only
if the body returned, with an error only if the body raised, the call was asked
to stop or its signal failed to be emitted, and with a cancellation or a timeout
only if asked for or raised by the body itself.

`KoilFuture` maps the concurrent future to `fut` (a task that has ended is still
`pending` until its outcome is copied), the coroutine to `body`, and takes a call
as asked to stop when `cancel()`, the cancellation of its worker, its deadline or
`__exit__` wants it gone. The race, the tidying loop and the grace are stutters.
`RunThreaded` maps the awaiting coroutine to `fut`, the function to `body`, and
asks with the cancellation of the call. In both, one event may concern several
calls, which is why `Ask` takes a set. `KeepsPromise` is the refinement.

### UnkoilGen

One thread, one async generator. The race inside a step is `KoilFuture`'s; here
only who stopped the step and how its future settles is kept. What is new is the
`frame` of the async generator and who drives it: a step, the `aclose()` of the
finally block, or the one of `shutdown_asyncgens`. Whoever comes second gets a
`RuntimeError`, as in CPython.

| Variable | Code |
|---|---|
| `consumer`, `ending`, `got` | the thread in `unkoil_gen`: before the first `next()`, in `result()`, at the yield, in one of the two waits of the finally block, out; how it ended; the values received |
| `fut`, `asked`, `sent`, `step`, `stopped` | the future of the last step, its `cancel()`, whether it carries a `send()` value, its coroutine and what cancelled that |
| `frame`, `produced` | the async generator |
| `aclose` | the task of `aclose_async_gen_threadsafe` |
| `ambient`, `tasks` | the cancelled worker the consumer may run in; what the shutdown gathers |
| `gaveup` | ghost: which wait of the finally block ran out, was interrupted or was not made |

`Leave` is the way into the finally block from everywhere, `PostAclose` its last
part. `CloseOnLoop` is the branch for the loop's own thread.

### IterateThreaded

The other way round: a coroutine drives a synchronous generator. Every `asend`
and the close are one call of `_run_threaded`, so the module instantiates
`RunThreaded` with the calls numbered and adds where the async generator is
(`iter`, `ending`, `got`, `now`, `closing`) and the `frame` of the synchronous
one. `CallEnds` composes the return of a call with `Resume`, the code after the
`await`, in one step: on the loop nothing comes between them.

### QtBridge

The slot on the Qt thread (`slot`), the flags it can read (`flagged`,
`iscancelled`, `withdrawn` for the asyncio future), what it `said` and what of it
is still `posted` to the loop, the `box` (the asyncio future, which takes one
answer, or the queue), and the awaiting coroutine with what it `got`. The Qt
thread runs one slot at a time, and none while it is blocked in the joins of
`__exit__`, which closing the window calls. An emit that raises during a
cancellation is modelled, because `set_cancelled` of a `QtFuture` emits before
it sets its flag. `async_to_qt` and `async_gen_to_qt` are submissions with
signals, which `KoilFuture` has.

### KoilContext

One synchronous thread that enters and leaves blocks: `with Koil()`, `with obj`
for a `@koilable` object, `with koiled_cm(acm)`. Each action is a whole
`__enter__` or `__exit__`, because nothing else runs on the thread meanwhile.

| Variable | Code |
|---|---|
| `koil`, `koilLoop` | `global_koil` and `global_koil_loop` |
| `own` | `_loop` of the Koil a manager is or keeps. A koilable object keeps its Koil after the exit, but with `_loop` None, which makes its `__exit__` do nothing; so "no Koil" and "a Koil without loop" are the same here |
| `open`, `abandoned`, `starts` | loops that run; loops that still run after `__exit__` gave up on their thread; loops started so far. A Koil that is entered again gets a new loop |
| `blocks` | the stack of blocks with the ambient variables outside of each |
| `entered` | the fields of each composition that are entered |
| `held` | the context the coroutine of each `unkoil_task` ends with: that of the submission, or, if it ran an `async with Koil()`, the same without the koil |
| `failed`, `late`, `lost` | ghosts: whose `__aenter__`/`__aexit__` raised; whether a `result()` was called after its loop was closed; whether one took the ambient koil away |

`StopLoop` is the pair of joins of `__exit__`: the loop is closed, or its thread
is abandoned. Either way the ambient variables are cleared, so the next Koil
starts a loop beside an abandoned one. `AbandonedEnds` is the end of its thread
at some later time.

Every enter and exit of async managers has a failing variant; in a composition
the failure is at a chosen field, and the fields before it stay entered (or are
exited). `unkoil` is refused when the ambient loop is closed, which happens
after findings 3 and 4. The Koil a caller may pass to `koiled_cm` is the wrapper's own
in this model.

## 3. What the runs check

All properties are commented where they are defined.

| Run | Instance | Result |
|---|---|---|
| `future_safety` | three futures: a stream of a plain thread, with deadline and signals and the shutdown; or two submissions of one `run_threaded` worker | holds: no orphaned coroutine, no leaked waiter, the outcome decided in the order coroutine, deadline, cancel events, signal and outcome agree, no value behind the terminal signal, no submission cancelled or refused because of a sibling, whoever gave up has signalled, done is final, what was submitted before `__exit__` is settled when the loop closes, and `Settlement` is implemented |
| `future_progress` | one submission, with a deadline or without (`OneSubmission` keeps it to one of the two futures); of the loop and the coroutine each property assumes what it names | holds: bounded `result()` and `__exit__` come back even if the loop takes no further step; if it goes on, a deadline settles its future unless a cancel came first; if coroutines end when cancelled, a cancel unwinds and the shutdown closes |
| `late_submission` | one submission | violated, see finding 1 |
| `threaded` | a chain of three nested calls on two threads | holds: outliving workers are signalled, queued ones withdrawn, contexts come back only on return, the cancel gets through although the nested worker never looks, every call ends if the functions do unless the pool stays exhausted by workers waiting for nested calls, and `Settlement` is implemented |
| `gen` | two values, every step with a deadline, every way of leaving, shutdown included | holds: values in order and none lost before the last step, the generator closed when the consumer is out or, if a wait ran out, by the loop later; leaving is bounded |
| `iterate` | four steps and a close on two threads, each cancelled once or twice | holds: never two threads in the frame, values in order, the frame left open only where the code cannot close it |
| `iterate_cancel` | one step | violated, see finding 5 |
| `qt` | a `QtFuture` or a `QtGenerator`, up to three answers | holds: answers arrive once, in order and without gaps, the slot can tell when nobody waits, an answer gets to the coroutine that awaits it |
| `context_safety` | a Koil, two compositions of two fields, a wrapper, a future, three loops | holds with any `__exit__` abandoning its thread: every other loop has an owner and there is one at most, the ambient loop is never a stopped or abandoned one, ambient variables follow the blocks and are restored, each until what findings 2 to 4 describe happens |
| `leaked_loop` | one koilable object | violated, see finding 2 |
| `late_result` | one Koil, one future | violated, see finding 3 |
| `lost_koil` | two Koils, one future | violated, see finding 4 |

### Findings

1. **Late submissions hang.** `all_tasks` is a snapshot (`loop.py:97`). A
   submission made after `__exit__` posted the stop is still accepted, becomes a
   task while the loop drains or finalizes, and is left behind when it closes.
   Its future never resolves. `utils.py:187-188` relies on the contrary.
2. **A raising `__aexit__` leaks the loop.** `koiled_exit` (`decorators.py:140`)
   stops the object's Koil only after `__aexit__` returned. If it raises, the
   thread runs on and `global_koil` stays set, outside of any block.
   `koiled_cm` has a `finally` and does not.
3. **A late `result()` revives a dead Koil.** `result()` writes back the whole
   context (`utils.py:359-360`). Called after the exit it makes the closed loop
   ambient again; then `with Koil()` takes it for an outer Koil and starts
   nothing, and every `unkoil` in it raises.
4. **`async with Koil()` takes the ambient koil away.** `__aenter__` sets only
   `global_koil_loop`, `__aexit__` clears `global_koil` (`loop.py:243`, `255`).
   Inside a coroutine called with `unkoil` that happens in the coroutine's
   context, and `result()` copies it to the caller, who is still inside its own
   `with Koil()`. The next block there starts a second loop thread, and its exit
   clears the loop of the outer block. `README.md:169` promises one shared loop
   thread.
5. **`iterate_threaded` swallows a cancellation.** A task cancelled during a step
   waits for the worker; if the generator returns within the grace, the
   `KoilStopIteration` of the step takes the place of the `CancelledError`
   (`bridge.py:775`) and the `async for` ends as if nothing had happened, contrary
   to `bridge.py:695-696`.

Observations that are in the models but have no run of their own:

- A cleanup that raises hides the timeout. After a deadline the coroutine is
  cancelled and awaited (`utils.py:503`), and only `TimeoutError` and
  `CancelledError` are caught there. Any other exception of its cleanup leaves
  the tidying loop: the future resolves with it instead of `KoilTimeoutError`
  (`utils.py:403-406`), no signal is emitted and the remaining waiters stay
  pending. `OutcomeIsGenuine` and `NoLeakedWaiter` name it as their exception.
- Nested calls can exhaust the pool. `run_threaded` uses the loop's default
  executor (`bridge.py:627`). Workers that wait in `unkoil` for a nested
  `run_threaded` hold their threads; once they hold all, the nested functions
  stay queued for ever, although `README.md:30` of koil says "without
  deadlocking". `PoolExhausted` is that state, the instance of `threaded` reaches
  it, and `CallsEndUnlessExhausted` shows that calls hang in no other way while
  the functions end.
- A refused `aclose()` is not always benign. `aclose_async_gen_threadsafe` drops
  the `RuntimeError` of a frame that a cancelled step still drives, because that
  path "is already closing the generator" (`utils.py:122-124`). A step that
  swallows its cancellation and yields does not: the generator stays suspended
  until the loop shuts down. `CleanupRuns` shows that it is the only such case,
  but for generators that ignore `GeneratorExit` and a second Ctrl+C before
  `aclose()` was submitted.
- A composition can be left half entered. The fields are entered and exited one
  after the other (`composition/base.py:64`, `78`). A field that raises leaves
  the ones before it entered, or the ones after it not exited, where
  `composition/base.py:50` says "They will all be entered and exited together".
- Cancelled again during the grace, a `run_threaded` call ends with
  `CancelledError` while the worker runs on (`bridge.py:639`). It is still
  signalled, which `OutlivingWorkerIsSignalled` shows.
- `cancel()` that passed its `done()` test before the future was resolved sets
  `_cancel_requested` afterwards and returns `True` (`utils.py:234-239`): a future
  that has a value can say `cancelled()`. `DoneIsFinal` allows this and nothing
  else.
- After `__exit__` abandoned a thread, a result submitted to it may still be
  collected; it makes the abandoned loop ambient again, as in finding 3.
- A value given to `send()` of an `unkoil_gen` is passed to `__anext__`, which
  takes none (`bridge.py:264`): the step fails with `TypeError`, where
  `bridge.py:223-224` says the value is forwarded.
- The first step of `unkoil_gen` lets `StopAsyncIteration` out
  (`bridge.py:252-257`), the later ones end the iteration. `EndingIsHonest` of
  `UnkoilGen` names it.
- `QtFuture.set_cancelled` emits before it sets `iscancelled`; an emit that
  raises leaves `done` false. `QtCanTell` holds because `is_cancelled` looks at
  the asyncio future, which the cancellation has reached before.

### Bounds

The bounds are the sizes of the constant sets, the named constants below, four
state constraints, and `cancels <= 2`, which the actions keep by themselves:
after the second cancellation the call is over.

- One submission is enough for everything `passed_with_context`, `result()` and
  the shutdown do to each other: submissions share nothing but the ambient event
  and the loop. `result()` may be called any number of times and `cancel()` at
  any point, so a single future meets all orders of caller, loop, coroutine and
  shutdown. In `future_safety` the constraint `AloneOrTogether` explores two
  parts. `Alone` is one timed and signalled stream of a plain thread, with the
  shutdown; it emits values or is waited for in `result()`, not both, since
  neither can tell the other. `Together` are two submissions of one worker,
  without the shutdown, without the holder's `result()` and without coroutines
  that raise, which all act on one future at a time; what the siblings share is
  the ambient event, and both ways of giving up (`cancel()` and Ctrl+C in an
  `unkoil`) stay. The theorems have no such restriction.
- `future_progress` offers a future with a deadline and one without, and
  `OneSubmission` lets one of them be submitted: a deadline settles a future by
  itself and would hide a cancel or a shutdown that is not heard. Nobody is
  obliged to submit, so the constraint cuts off no fair continuation.
- A chain of three calls on two threads gives nesting, cancellation through
  several threads, queueing, and a pool that runs out. `OneWriter` lets only one
  of the calls write a ContextVar: no call waits for a write. The theorems about `RunThreaded` hold for any calls and any
  pool. Threads take queued functions in any order, which includes the executor's.
- `MaxValues = 2` in `UnkoilGen` gives a first step, which the code treats apart,
  a later one, and a step that ends the generator. `Timed = TRUE` allows a
  deadline and does not force one, so it includes `unkoil_gen`.
- `MaxCalls = 5` in `IterateThreaded` gives up to four steps and a close: first
  step, repeated steps, and a call made after an earlier one was given up, if
  the code made one.
- `MaxSays = 3` lets a slot answer, answer again and raise afterwards; `OneCall`
  checks the future and the generator one at a time, since two calls share only
  the two threads.
- Four managers give every pair of kinds in every nesting, and two objects that
  lend their Koil to each other. Three loops (`MaxStarts`) let a Koil end,
  another start and end, and the first start again with a future of the first
  loop still held, and let two be open at once after the ambient koil was lost.

Deadlock checking is off in every run: the system may stop, for instance when
every call has ended and `__exit__` has returned. That nobody waits for ever is
stated by the liveness properties instead.

### Fairness

| Assumption | Justification |
|---|---|
| `WaitFairness`: a thread in `result(timeout)`, in the grace, or in a join goes on | every one of those waits has a timeout |
| `LoopFairness` (`KoilFuture`): the loop serves its queue and timers | asyncio does as long as no coroutine blocks the loop; `BoundedResultReturns` and `ExitReturns` do without |
| `Cooperation`: a cancelled coroutine ends | not guaranteed by koil, asked of its users; `CancelledCoroutineUnwinds` and `ShutdownCloses` assume it |
| `LoopFairness` (`RunThreaded`): the loop as above; a free thread takes a queued function | the executor's idle threads block on its queue |
| `FairSpec` of `UnkoilGen`: the two waits of the finally block go on | both have timeouts (`KOIL_CANCEL_TIMEOUT`, `ACLOSE_TIMEOUT`) |
| `LoopFairness`, `Cooperation` (`UnkoilGen`): the loop serves its queue; a cancelled step and a cleanup end | as above; only `CleanupRuns` assumes them |
| `FairSpec` of `QtBridge`: posted callbacks run, a coroutine whose answer is there is resumed | asyncio; nothing is assumed of the Qt thread |
| `WorkerFairness`: the functions end | only for `CallsEndUnlessExhausted`. Strong, because a function may go through sleeps and nested calls before it returns |

`FairSpec` of `KoilFuture` is `WaitFairness` alone, and `FairSpec` of
`RunThreaded` its `LoopFairness`. A property that needs more has it as its
premise.

Nothing is assumed of callers: none has to submit, cancel, wait or exit.

## 4. What is proved

Every invariant and every action property that a passing run checks is also a
theorem, and so are the two refinements and `ExitSettlesSubmissions`. The runs
show them on one instance, with the whole state space in sight; the theorems hold
for all values of the constants, from the assumptions the modules state on them:
the kinds of calls and of managers are disjoint, subsets are subsets, `None` is
no manager, bounds are natural numbers. Nothing is assumed about how many calls,
threads, values, answers, blocks or fields there are.

Hardly any of these properties is inductive by itself: each speaks of something
that has ended, and what made it end lies several steps back. Each proof module
therefore starts with an inductive invariant `IInv`, written as a conjunction of
named parts, and takes the actions one by one, first for the types and then for
the rest. TLC can evaluate an `IInv` on the instance of a run, which is a cheap way
to find the parts that are missing.

### KoilFuture

`KoilFutureProofs`: `TypeCorrect`, `CoroutinesAreNotOrphaned`, `WaitersDoNotLeak`,
`OutcomesAreGenuine`, `SignalsTellOutcomes`, `CancellationIsIsolated`,
`SignalsEndStreams`, `GivenUpIsAlwaysSignalled`, the action property
`DoneStaysFinal`, and `ExitSettles`, with the shutdown at any point. `IInv` is
`TypeOK`, `Claims` (outcome, signals, waiters and isolation) and `Coupling`, which
says what each phase knows about the others:

- `CallsAgree`: a call that was not accepted has no task; a caller in its grace
  or gone has left the future done or signalled;
- `EventsAgree`: an own event is posted only on request, an ambient one only by
  the cancellation of its scope. This is what isolates siblings;
- `WaitersAgree`: a waiter that fired or won was entitled to, and in the tidying
  loop whatever is pending is still in `todo`;
- `WorkAgrees`: before the race there is no coroutine; a coroutine that won has
  ended; past its place in the tidying loop it has ended, let its grace pass, or
  is being gathered;
- `EndsAgree`: no outcome and no signal before the end, and no value behind the
  signal while there is none; nothing is gathered before the stop.

`NoOrphanedCoroutine` and `GivenUpIsSignalled` follow from `Coupling`, `DoneIsFinal`
from the actions and `TypeOK`: of the steps of `cancel()` only the second can meet
a done future, and only if `asking` says that the first came before.
`OutcomeIsGenuine` rests on `WaitersAgree`, which also keeps the set `asyncio.wait`
returned empty until the race is over: so a cancellation has a cancel event in
that set, or the shutdown behind it. `ExitSettlesSubmissions` is a nested temporal
formula: what was accepted before `__exit__` is settled whenever the loop is
closed. Its proof is an invariant for one submission (`Gathered`), which holds
from its acceptance before `__exit__` on because `PlacesAgree` puts it ahead of
the stop: the drain takes it up, and is over only when it is done.

`KoilFutureRefinement`: `ImplementsSettlement`, that is `Spec => KeepsPromise`. The
mapping needs one more fact (`MappingAgrees`): what ended has an outcome. A deadline
that fired stays asked for because a race has no winner before it is over, which
is in `WaitersAgree`. Then each action is shown to open, begin, end, ask for or settle in
`Settlement`, or to change nothing there; the lemmas `OpensOne`, `BeginsOne`,
`EndsOne`, `SettlesOne`, `Asks` and `OnlyAsks` say once what has to be shown for
each. The interesting step is `Finish` with the copy to the concurrent future:
its outcome is one that `Settlement` allows because `OutcomeIsGenuine` is part of
the invariant.

### RunThreaded

`RunThreadedProofs`: `TypeCorrect`, `OutlivingWorkersAreSignalled`,
`OneCancelIsAcknowledged`, `ContextsComeBackOnReturn` and `ImplementsSettlement`,
for any nesting and any pool. `PhasesAgree` relates a call to its worker (there is
a worker exactly from the call on, a call in its grace has its event posted or
set, one that returned has a worker that did), `EventsAgree` says that no event of
a worker that goes on is set without a cancellation. A cancellation may reach
several calls at once, which `Ask` of `Settlement` allows.

### UnkoilGen

`UnkoilGenProofs`: `TypeCorrect`, `LeftIsClosed` and `EndingsAreHonest`, with and
without deadlines. The control part of the invariant follows the frame of the
generator: a step that runs is what drives it (`StepAgrees`), a future is settled
over an ended step unless the deadline or the shutdown did not wait for it
(`FutureAgrees`), `aclose()` unwinds the frame, has finished it, or was refused by a
step that outlived its deadline (`AcloseAgrees`), and a consumer that went the
normal way through the finally block has no pending step left
(`ConsumerAgrees`). From these alone follows `ClosedWhenLeft`. `CountAgrees` adds the
numbers: while the consumer waits it is exactly one value behind if its step
ended with one, and level otherwise.

### IterateThreaded

`IterateThreadedProofs`: `TypeCorrect`, `OneThreadAtATime` and `EndingsAreHonest`.
The calls are made one after another, and all but the last have returned
(`CallsInOrder`); the frame shows what the worker of the last call did with it
(`FrameAgrees`). So no second thread can be in the frame, because whoever still
runs in it belongs to the last call, after which there is no other. `ValuesAgree`
counts the one value that a cancelled or abandoned step may lose.

### QtBridge

`QtBridgeProofs`: `TypeCorrect`, `AnswersAsSaid` and `EndsAreVisible`, for any number
of answers. The invariant places four sequences against each other: what was
taken, then what the box holds, is the first part of what was said, and what is
still posted is the last part (`InOrder`); for a generator nothing is missing in
between, for a future the box takes one answer, the first, unless it was withdrawn
before (`AnswersAgree`). Lemmas on sequences (`SaidLast`, `PostedFirst`,
`BoxFirst`) carry this through posting, deposit and take. `FlagsAgree` gives
`QtCanTell`: an answered future is flagged, so a future found done by a timeout or
a cancellation is visible although it is not withdrawn.

### KoilContext

`KoilContextProofs`: `TypeCorrect`, `LoopsAreOwned`, `AmbientIsTheBlocks`
and the action property `AmbientComesBack`, for any nesting.
The invariant of the loops has three parts. `OwnersDiffer` always holds: managers
own different open loops, none of them with a number yet to be given. `OneOwner`
holds until a `result()` took the ambient koil away: the open loops are exactly
those of the managers, at most one manager has one, and there is none without an
ambient koil. `AbandonedAgree` keeps the abandoned loops apart from the open ones
and from those yet to be started: giving up on a thread moves its loop from one
set to the other, and nothing else has to change. A late `result()` may set a wrong ambient koil, but that still keeps
a second loop from being started; only a context without a koil (finding 4) does
not. `OwnersAgree` adds that who owns a loop is in its block or is an object that
failed, `AmbientAgrees` that the ambient loop is open unless a `result()` came late.

On top of it `SInv` speaks about the whole stack: no manager is in it twice, the
outermost block found no koil and owns the loop, and every other block found what
is still ambient (`InsideAgrees`). That is why leaving any block but the outermost
changes nothing, and leaving that one ends the only loop. Futures enter through
`HeldAgrees` and `KnownAgree`: a context of a loop that is still open is the present
one, and no context knows of a loop not yet started, so that a new loop is never
mistaken for an old one.

### Only model-checked

All liveness properties (`BoundedResultReturns`, `ExitReturns`, `DeadlineSettles`,
`CancelledCoroutineUnwinds`, `ShutdownCloses`, `CancelReachesNested`,
`CallsEndUnlessExhausted`, `LeavingReturns`, `CleanupRuns`, `AnswersArrive`): fairness and ENABLED are out of
the prover's reach. The five runs that expect a violation are counterexamples,
with nothing to prove.

## 5. Not modelled

- `SystemExit` and `KeyboardInterrupt` raised *inside* coroutines, which end the
  loop itself; an interrupt that lands in `result()` outside its `try`;
  a second Ctrl+C inside the handler of the first.
- How long anything takes: a timeout may fire whenever its wait is on.
- The slices of 0.1 s in which `result()` and `sleep` poll. They bound how
  late a change is seen, not whether it is.
- Values, messages, logging and warnings; ContextVars beyond "changed or not".
- What a coroutine itself sees of the ambient variables: only the values it ends
  with are kept. An `__aenter__` of a koilable object that uses
  `async with Koil()` is left out; it loses the koil as in finding 4.
- The `sync_in_async` check of `Koil.__enter__`, and the argument checks of the
  entry points: they raise before anything happens.
- Blocks left in another order than `with` does, and a manager entered again
  inside itself.
- In the Qt bridge: the context copies around slots and emits, the failures of
  `QtKoil.__enter__`, and `Koil.running`, which only that module reads.
- Traceback pruning: a pure function on frames that nothing else depends on.
- Error classes, protocols and deprecated aliases have no behaviour; the pytest
  support is a fixture around third-party code.

## 6. Plan

All parts with state are modelled, and what the runs check of safety is proved.
What is left:

1. theorems for what holds where a finding shows that the documented property
   does not: which loops remain outside all blocks, which submissions are left
   behind by the shutdown, and when a cancelled iteration ends normally;
2. the safety half of the progress arguments as invariants, for instance that a
   future with a fired deadline is never back in its race.
