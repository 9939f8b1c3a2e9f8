# A TLA+ verification of engiCs

engiCs is a C++23 game-engine core: a work-stealing thread pool, an event loop
with timers, signals, a window message loop and a Vulkan rendering layer. This
directory holds TLA+ modules that model it, TLC configurations that check them
on small instances, and TLAPS proofs about them. `PROJECT.json` maps every
definition to the lines it models.

## 1. Inventory

Paths are below `src/ecs/` unless they say otherwise.

| component | state | operations | what is hard | what makes it correct |
|---|---|---|---|---|
| work-stealing deque `concurrency/container/deque.*` | `top`, `bottom`, a ring of pointers | owner: Push, Pop; thieves: Steal; Empty | lock-free, release/acquire only, ring reuse | every pushed pointer comes out once; LIFO for the owner, FIFO for thieves |
| worker loop `concurrency/run_loop/worker_loop.*`, `task.h` | a deque per worker, the global queue, `m_shutdown`, a condition variable per worker, `spinCount` | PostTask, Run, Shutdown | overflow, theft, sleeping and waking, shutdown against sleep | a posted task is run once; sleepers miss nothing; Shutdown ends Run |
| event loop and Timer `concurrency/run_loop/event_loop.*` | the io_context's handlers, the work guard; per timer `m_impl`, `m_cb` | PostTask, Run, RunOnce, Shutdown; SetCallback, Start, Stop, destruction | Start and Stop against a handler on its way, re-arming, destruction | tasks run in order; a stopped timer is silent; a repeating one is not; a dead one is left alone |
| thread pool `concurrency/threadpool/*` | a worker loop and its threads, an event loop and its thread, a round-robin counter | constructor, PostTask by PostConfig, MakeTimer, destructor | routing, ownership of a task on every path, order of destruction | a task goes to one loop; the destructor joins every thread |
| emitter and signal `core/utils/emitter.h`, `single.h` | an atomic pointer to an immutable list, the next id | Add, Remove, Emit, Clear, move | compare-exchange retries, calls during removal | a removed listener stays removed; every added one can be called |
| message loop `platform/message_loop/*` | a task queue, schedulers by type and by message | Run, PostTask, dispatch, On, PostQuit | tasks against window messages | every message reaches each of its schedulers once |
| memory and values `core/memory/*`, `core/utils/sso_any.h` | arena chunks; a buffer or a heap pointer with a vtable | allocate, Reset, move; emplace, move, destroy | alignment at a chunk's end, moved-from states | allocations do not overlap; every value is destroyed once |
| vendored queue `concurrency/container/moodycamel/*` | sub-queues by thread, their blocks and block index, a table of producers, a free list | enqueue, try_dequeue, thread exit, destructor | lock-free counters that are taken back, tables that grow while others insert, block reuse | every element comes out once, from a cell that holds it; one writer per sub-queue |
| callback promise `concurrency/future/function_proxy.h` | a receiver and a registration | connect, start, co_await | callback against stop and exception | one completion per operation |
| win32 events and window `platform/win32/*` | the window handle, a table of native messages | conversion of events in both directions, PoolEvent, WindowProc | values that do not fit a word, fields that are not set, dispatches that nest | an event comes out as it went in |
| rhi `rhi/render_pass.*`, `rhi/vulkan/*` | builder lists; device, queues, pools; swap chain, images, views, image index | build; queue selection; Resize, Present; tables | steps that fail half-way, builders that are used again, results that are not initialised | a built pass is consistent; the queue chosen fits; images are those of the chain |
| application `game/app/*` | the window, the loop, its listeners | constructor, Run, Quit, the handler of Close | a message box that pumps messages | the window goes only with the loop |
| logging, errors, strings, console, processor info, tests | little | | | |

Interactions. A thread pool owns one worker loop and one event loop, and posts
to either. A worker loop owns one deque per worker; `PostTask` pushes to the
deque of the calling worker and otherwise to the global queue. Tasks of either
loop may post to both. A timer lives outside its event loop, holds a pointer to
it, and the loop's handlers hold a pointer to the timer. `Destroy` of a task is
the duty of whoever ran it, or of the template `PostTask` when posting failed.
Both the worker loop's global queue and the message loop's task queue are the
vendored queue. The application owns the message loop and its window; a message
goes from the window procedure through the message loop to a handler and to
listeners, and these may post, register or quit. A swap chain and its command
buffers are made by a context.

The list of hazards, each at its line and with the properties that would catch
it, is in `PROJECT.json`.

## 2. Plan

Order: what runs every task first, then what surrounds it.

1. `TaskDeque` (abstract) and `WorkStealDeque`: done, with proofs.
2. `WorkerLoop`: done, with proofs. It stands on `TaskDeque`'s promise, until a
   deque breaks it.
3. `EventLoop`, with `Timer`: done, with proofs.
4. `Threadpool`, which composes 2 and 3: done, with proofs on top of those of 2.
5. `Listeners`, for `Emitter` and `Signal`: done, with proofs.
6. `FreeList`, `ProducerTable` and `ConcurrentQueue`, which composes them: done,
   with proofs for the table, the counters, the block index, the free list and
   the readers.
7. `EventConverter` and `MessageLoop`, which stands on it: done, with proofs.
8. `VulkanDefs`, `VkContext`, `VkSwapChain`, `RenderPassBuilder`, and `Rhi`,
   which composes them: done, with proofs for the swap chain, the builder and the
   choice of queues.

Left: a worker loop over the vendored queue step by step, instead of the bag that
it stands for.

## 3. The modules

### TaskDeque, WorkStealDeque

`WorkStealDeque` makes every access to `top`, `bottom` and the ring a step:
`PushBegin/PushSlot/PushBottom`, `PopBegin/PopEmpty/PopTake/PopLast/PopWin/
PopLose/PopRestore`, `StealTop/StealBottom/StealSlot/StealWin/StealFail`. The
record `owner` and the records `thief[p]` hold the locals of the calls in
progress. The owner's stores go through `pending`, a store buffer of `Depth`
entries that drains at any time; the compare-exchanges wait for it to be empty.
`Depth = 0` is a sequentially consistent memory. This is the memory of x86-64,
the target of the build; weaker reorderings of other machines are not modelled.

`raceLost` and `overtook` are history variables for the two ways in which the
deque breaks:

- `raceLost`: a Pop lost the race for the last element. The failed
  `compare_exchange_strong` has overwritten `t`, and `bottom.store(t + 1)`
  leaves `bottom` one past `top` (run `deque_lost_race`).
- `overtook`: a Pop loaded `top` while its store to `bottom` was still in the
  store buffer. Nothing in the code orders the two (there is no seq_cst fence).

`takes` is one too: the set of receipts, by whom a task was taken, at which index,
and whether that call was given a task the same actor already had.

Everything else about the deque is stated, checked and proved on the condition
that neither has happened, so the properties say that these two are all that is
wrong with it. `TaskDeque` is the atomic double-ended queue a caller would
like; `Promise` maps the ring to it, and `Break` is its step when the condition
ends. A user can avoid `raceLost` by restoring `bottom` to the old `t + 1`.

### WorkerLoop

Per worker, `pc` follows `Run`: `top` (the loop condition), `local`, `global`,
`steal` (with `victim`, the position in the scan), `park` (the wait predicate),
`block` (between the predicate and the wait), `waiting`, `run`, `exited`. A
local deque is a sequence with `TaskDeque`'s atomic operations; a steal may
also fail while there is something to steal. `Break(w)` ends that promise for
the deque of `w`, at a Consume, which is where both defects of `WorkStealDeque`
strike. From then on (`w` is in `broken`) the deque may say that it is full,
empty or not empty whatever is in it, and may hand its owner or a thief a stale
slot: in `TakeAgain` the worker runs what is not its task, or no task at all,
and is `astray`, of which nothing is known any more. The global queue is a set:
the vendored queue keeps no order between producers. `enqueue` may fail, as it
may when it cannot allocate. `m_shutdown` is a plain `bool` that several threads
use; the model takes the outcome every build of this loop can produce, a read
of the old or the new value at each round. `size_approx()` is read as exact.
A worker's own number as the `threadId` argument of `PostTask` has no effect in
the code, and none in the model.

### EventLoop

The io_context is a FIFO sequence `ready` of task and wait handlers with its
`stopped` flag and the work guard. `waits[t]` are the waits of timer `t` that
are pending; `Expire` and `Cancelled` move them to `ready` as successes or as
aborted. `Start` and the handler's own re-arming are two asio calls each, so
they interleave. Calls come from `Clients` and, inside a task or callback, from
the loop's own thread. What would end the process or be undefined is an outcome
`failed`, after which nothing happens: a constructor or SetCallback that reads
uninitialised members, the assertion `m_cb`, an exception out of a `noexcept`
function, a handler that uses a destroyed timer, a callback replaced while it
runs. A steady_timer used by two threads at once is modelled by the
interleaving of the calls, not by races inside asio.

### Threadpool

`Threadpool` extends `WorkerLoop`, whose variables, actions and invariants it
has as its own, instantiates `EventLoop` (as `Async`, without timers) and adds
what lies between them. `phase` is where the
owner is: `spawn`, `latch`, `open`, `notify`, `joinLoop`, `joinWorkers`, `gone`,
or `unwinding` when a thread could not be started. `Route` is `PostTask` by its
PostConfig: `PostAny` posts to the event loop exactly when the worker loop has
taken the task, as the code does. Nothing is claimed of a pool whose worker went
astray (`failed` is `stale`). Main never leaves `unwinding`: the threads that
were started are joined, and nobody ends them. `Draw` is the round-robin counter, an `int`
whose increment wraps; signed overflow is undefined, and wrapping is what the
builds do. The destructor is the order of the members: event loop thread, event
loop, workers, worker loop. A task that is started or finished after the other
loop destroyed it, or a post to an event loop that is gone, is an outcome
`failed`.

### Listeners

`Emitter` and `Signal` have one algorithm: a shared pointer to an immutable list
that writers replace by compare-exchange. Each load, copy and exchange is a
step of a thread (`AddBegin`, `AddBuild`, `AddSwap`, `AddRetry`, and so on for
Remove; `EmitBegin`, `EmitCall`). Two things go wrong in it, and history
variables mark them so that the properties hold of the rest: `retried` are the
callbacks whose exchange has failed once, for which the list then holds the
function that the first attempt moved from (`Nobody`), and `disorder` says that
the ids of the list have been out of order, since they are drawn before the
exchange; the binary search of the Emitter's Remove does not survive that.

### FreeList, ProducerTable, ConcurrentQueue

The vendored queue in the three parts that it has: the lock-free stack of free
blocks with its reference counts, the hash table of producers that grows under
insertion and inherits the producers of ended threads, and the sub-queues with
their four counters and their block index. `ConcurrentQueue` instantiates the
other two over its own variables. Each access to shared memory is a step, with
the joins that the module's comment lists. `Plans` bounds what each thread does:
the whole product is out of reach, so each plan aims at one mechanism.

### EventConverter, MessageLoop

`EventConverter` is `toNative` and `fromNative` for each event, as operators on
pairs of 16-bit words, with the junk that a buffer holds where a converter sets
nothing. `MessageLoop` is `Run` with its tasks, `Post`, `On`, `SetHandler`,
`dispatch` and `schedule_dispatch`, the Windows message queue as far as the code
uses it, and the application's handler of Close. `frames` is the stack of
dispatches: the message box pumps messages, so one opens inside another.
`broken` says that a container was changed under a dispatch that walks it, which
the code does not prevent; nothing is claimed from there on. Tasks, handlers and
listeners may post, register and quit (`Act`).

### VulkanDefs, VkContext, VkSwapChain, RenderPassBuilder, Rhi

`VulkanDefs` are the tables of `defs.cpp` and `FormatSize`, as sets of pairs;
`MCRhi` evaluates them on every enumerator. `VkContext` is the choice of a
device, its queues and pools, and of the queue for a command buffer, with the
two reads of values that the code does not set as free choices: the flags that
`FromVulkan` ors into (`real` remembers which of a queue's flags are no junk),
and the null device that is asked for surface support, which may also end the
process. Command buffers may be asked for at any time, also of a context whose
Initialize failed with some of its pools made. `VkSwapChain` is Initialize, Resize
and Present, at any time and however often, with a driver that may refuse any
step. `chain` is the handle that the code holds, `made` the last native chain: the
handle is the result parameter of the creation, so a refusal leaves it as it was,
null or `Wild`. `slips` counts the calls that may have left a native chain behind.
What ends the process is the state `aborted`.
`RenderPassBuilder` is the builder; its references carry the attachment that the
caller meant, so that a stale index shows. `Rhi` lets a client make any calls in
any order.

## 4. The runs

| run | instance | result |
|---|---|---|
| `work_steal_deque` | 1 owner, 2 thieves, ring of 2, store buffer of 2, 3 tasks, `top` to 4 | passes, about 1 million states |
| `deque_lost_race` | 1 owner, 1 thief, no store buffer | `AtMostOnce` fails |
| `worker_loop` | 2 workers, 3 tasks, deques of 1, one of which may break, `MaxSpin` 2 | passes, 560 thousand states |
| `worker_lost_wakeup` | 2 workers, 1 task | `PostedTasksStart` fails |
| `worker_shutdown_hang` | 2 workers, 1 task | `ShutdownEndsAll` fails |
| `event_loop` | 1 client, 1 timer, 2 tasks, 2 calls of Start | passes, 84 thousand states |
| `timer_destroyed_early` | 1 client, 1 timer, 1 Start | `HandlersTouchLiveTimers` fails |
| `threadpool` | 1 worker, 2 tasks, an `int` of -3..2, every kind of config | passes, 278 thousand states |
| `listeners` | 2 threads, 3 callbacks, 1 emission, 1 Clear | passes, 564 thousand states |
| `concurrent_queue` | 3 threads, blocks of 2 cells, 6 plans | passes, 670 thousand states |
| `message_loop` | 1 window, 7 events, 2 inputs, 2 contents of a buffer, 5 calls, 2 tasks | passes, 742 thousand states |
| `rhi` | 2 devices, 3 chains, 3 attachments, 2 subpasses, 8 calls | passes, 2 million states |

Why the bounds suffice. Three tasks over a ring of two fill it, wrap it and
reuse slots; two thieves race each other and the owner; a store buffer of two
holds Push's two stores, or the store of a Pop and that of the next Push.
With four tasks and `top` up to 5 the same properties hold over 14 million
states. In the worker loop a deque of one overflows, is stolen from and is the
last element all at once; three tasks fill a deque, the global queue and a
worker; two rounds of spinning are enough to see the counter reset in between.
The deque of one worker (`Breakable`) may break, which reaches the other worker by
theft; progress is asked of one task (`Watched`), since nothing tells tasks apart
and the others compete with it. In the pool there is one worker, and a deque
without thieves does not break.
In the event loop two calls of Start can overlap with each other and with a
re-arming; two tasks have an order. `MaxTasks`, `MaxTop` and `MaxStarts` are
bounds of the model alone.

In the thread pool one worker, the event loop's thread and the owner are three
parties that post; a counter of two bits and a sign wraps within two posts; two
tasks are one that runs twice and one that is late. Two listener threads and one
emission cover add against add, add against remove, either against a Clear and
all of them under a walk; the third callback is what a retry displaces. In the
queue a block of two cells is filled and emptied by three elements, an index of
two entries wraps and grows with seven, two threads share a slot of the table
and a table of two entries grows with the second producer. In the message loop
five calls suffice for a dispatch inside a message box inside a dispatch and for
a post, a registration and a quit among them. A wheel that turns up or down only
is among the events, for its message is no type's. Three native chains are a
first one, one of a Resize or a second Initialize that succeeds, and one of a
Create that fails half-way, with refusals in between; a builder is used twice
within eight calls. `MaxCalls`, `MaxChains`, `MaxAttachments`, `MaxRefs`,
`MaxSubpasses`, `MaxDependencies`, `MaxEmits`, `MaxClears`, `MaxHeap`,
`MaxHeaders`, `MaxTables`, `MaxProducers` and `Plans` are bounds of the models
alone.

What the passing runs show. The deque neither loses nor doubles a task and
implements `TaskDeque` until one of its two defects strikes; even with the
store buffer, two thieves never get the same task. As long as no deque has broken,
the worker loop keeps every task in one place, also through overflow, theft and
the last element of a deque, and starts the tasks of awake workers; once one has,
a task may run twice, be lost or be none. Whether or not one has, a worker going to
sleep leaves nothing in its own deque if that one is whole, and after Shutdown a
worker starts at most one more task and, unless it sleeps or runs what a broken
deque gave it, ends. Idle workers do go to sleep. The
event loop keeps tasks in order; Stop in time silences a timer; re-arming
survives concurrent Starts; Run ends after Shutdown. The pool shares a task
between its loops only for the config -1, its bound tokens name one thread until
the counter wraps, its constructor returns, with every thread ready, if every
thread could be started (otherwise Main hangs in the joins of those that were,
which no run denies), and its destructor is safe and returns when nothing is about and no worker
sleeps. A listener that was added is listed until it is removed, an emission
reaches every one that stayed, and a removed one is silent where the ids are in
order. The vendored queue backs every claim with an element, reads what was put,
keeps blocks in one place and frees each once; a thread alone with an element
gets one. A posted event that is taken from the queue is dispatched to its own
type, if that type has a handler or listeners, as the event that it was but for
what `ComesOutAs` excepts: a first key press that may come out as a repeat, seven
keys that come out crossed, and the second axis of a wheel. A wheel that turns up
or down only reaches nobody: it becomes WM_MOUSEWHEEL
(`event_converter.cpp:375`), and the type MouseWheel lists WM_MOUSEHWHEEL alone
(`:383-385`). The window goes only with the loop, and a loop that was told to quit
ends. Command buffers get a pool of their queue's family; the queue does all the
work of their type, and no other that does has fewer flags, apart from the queues
whose own flags hold junk, which may pass for anything. Images and views are those
of the native chain made last, which is alive whatever failed since, although the
handle may be lost; references of a built pass hit the attachments that were
meant.

What the violation runs show is in the findings of `PROJECT.json`: the lost
race, the missing notification of `PostTask`, the wait predicate that ignores
`m_shutdown` (every destructor of a pool with idle workers hangs), and the timer
destroyed by the test of the pool while its handler is still running.

Every property has a mutant: an operator marked "Mutant" or "A plausible slip"
above the definition it distorts. With the mutant in place of the definition TLC finds the property
violated.

## 5. Fairness

`WorkerLoop`: weak fairness of each worker's `Run` and of `Notify` - threads
are scheduled and tasks end. `WakeSpuriously` has none: nothing promises
spurious wake-ups. `EventLoop`: weak fairness of the loop's thread and of the
second half of every `Start`; strong fairness of `Expire`, since asio looks at
all expired timers whenever it looks, though handlers come in between. No call
by a user is ever assumed. `Threadpool`: weak fairness of the owner once it is
inside the constructor or the destructor, of each thread's start, of each worker
and of the event loop's thread; nobody has to post or to destroy the pool.
`MessageLoop`: weak fairness of the loop's own thread only; users need not click
and other threads need not post, and a message box that waits is dismissed by the
quit flag. The deque, the listeners, the vendored queue and the backend have
safety properties only; `AloneGetsOne` is an action property.

## 6. The proofs

| theorem | statement | argument |
|---|---|---|
| `DequeTypes` | `Spec => []TypeOK` | inductive as it stands, with the store buffer's entries typed |
| `DequeAtMostOnce` | `Spec => []AtMostOnceUntilBroken` | `IInv`: types, and `Sound` while nothing is broken |
| `DequeKeepsTasks` | `Spec => []NothingLostUntilBroken` | `KeptInv`, task by task, on top of `IInv` |
| `DequeCollides` | `Spec => []OnlyOwnerAndThiefCollide` | `PlaceInv`: a place for every task |
| `DequeImplements` | `Spec => ImplementsTaskDeque` | `Span`: what is live, from `top` to the owner's end; each call maps to its atomic one |
| `LoopTypes` | `Spec => []TypeOK` | inductive; `OtherType` bounds the scan |
| `LoopSleepers` | `Spec => []SleepersHoldNothing` | inductive with the types |
| `LoopOneTaskAfterShutdown` | `Spec => []OneTaskAfterShutdown` | `LateInv` |
| `LoopOnePlace` | `Spec => []OnePlace` | `PlaceInv`, with `RunInv`; `AstrayInv` |
| `PoolHasLoop` | `PoolSpec => Spec`: the pool's worker loop is a `WorkerLoop` | step by step |
| `PoolReady` | `PoolSpec => []ReadyWhenOpen` | `StartInv`: the latch counts `Waiting` |
| `PoolShares`, `PoolTokens` | the same of `OnlyAnyIsShared`, `BoundTokensName` | `TaskInv`: `EsInv`, `ConfInv`, `FreedInv` |
| `PoolCloses` | the same of `IdlePoolsCloseSafely` | `IdleInv` |
| `EventLoopStops` | `Spec => []StopIsHeeded` | `Types`, `QuietInv` |
| `EventLoopSafe` | `Spec => []SafeWhenQuiet` | `DeadInv`, `FailInv` with them |
| `EventLoopOrder` | `Spec => []TasksInOrder` | `FateInv` with it |
| `ListenersTypes` | `Spec => []TypeOK` | inductive as it stands |
| `ListenersAdded` | `Spec => []AddedIsListed` | `IdsInv`, `ListInv`, `CallInv`, `ApartInv` |
| `ListenersReached` | `Spec => []EmitReachesAll` | `EmitInv` with them |
| `ListenersSilent` | `Spec => []RemovedStaySilent` | `SilentInv`, with `FoundIfThere` about the binary search |
| `RoundTrip` | an event through `toNative` and `fromNative`, for every buffer | by the kind of event |
| `LoopArrives` | `Spec => ArrivesAsPosted` | `Inv`, `TakenByPosted`, `HasMessage`, with `RoundTrip` |
| `LoopQuits` | `Spec => []WindowGoneMeansQuit` | `AskInv`, `NoneInv`, `RetInv`, `GoneInv` |
| `QueueOneWriter` | `Spec => []OneWriter` | `TableInv`: `SoundInv`, `ValueInv`, `LacksInv`, `MineInv` |
| `QueueClaims` | `Spec => []ClaimsAreBacked` | `ClaimInv` with it |
| `QueueAloneGetsOne` | `Spec => AloneGetsOne` | `AloneInv` with both |
| `QueueBlocks` | `Spec => []BlocksInv`, the invariant of the next three | `FreeShape`, `LabelInv`, `PutBlocks`, `IndexInv`, `PlaceInv`, `Reading`, `Freed`, on top of `TableInv` and `ClaimInv` |
| `QueueOnePlace` | `Spec => []OnePlace` | `PlaceInv` |
| `QueueReads` | `Spec => []ReadsWhatWasPut` | `Reading`, with `EntryForFinds` about the index |
| `QueueDestructor` | `Spec => []DestructorFreesOnce` | `Freed`, with `LeftNamed` about the walk |
| `RhiImages` | `Spec => []ImagesMatchChain` | `ChainInv` |
| `RhiRefs` | `Spec => []RefsHit` | `BuilderInv`: `BuilderTypes`, `NamesInv`, `SubsInv`, `DepsInv` |
| `RhiQueues` | `Spec => []QueuesServe` | `ContextInv`, with `BestOf` along the queues |

They hold for every value of the constants that satisfies the assumption of the
module: `DequeAssumption`, `WorkerAssumption`, `EventLoopAssumption`,
`PoolAssumption`, `ListenersAssumption`, `LoopAssumption` (the message loop),
`QueueAssumption` (the vendored queue), `ChainAssumption` (the swap chain) and
`ContextAssumption` (the families of each device are sets of flags).
The argument of each:

Deque. `AtMostOnceUntilBroken` is not inductive: which slots hold
which task, what the store buffer still owes to memory and what each call has
read so far decide whether the next step is safe. `Sound` says it in parts:
`OwnerInv` (what the owner's call knows), `MemoryInv` (memory plus the pending
stores is the owner's view), `BoundInv` (the ring is never overfull),
`PublishInv` (a slot is in memory before the bottom that covers it), `LiveInv`
(live slots hold distinct tasks that nobody was handed), `ThiefInv` (a thief
whose exchange can still succeed has read the right slot). Nothing is lost
because the tasks of `Live` and the task of a Push in progress leave those
places only into a `take`. For the refinement `Live` is a `Span` of the owner's
view of the ring, so that each call's decisive step adds or drops one end of
it: the store of `bottom` in Push and in a Pop that keeps clear of `top`, the
exchange in the others. `Sound` says nothing once a Pop has overtaken its own
store: thieves then go by a `bottom` that the owner has left. What still holds is
that every task has one place, the index it was pushed to (`PlaceInv` says that
such an assignment exists). In each slot of the ring places only rise
(`RisingInv`), no `bottom` lets thieves read a slot before its place is written
(`VisibleInv`), and from `top` on the owner finds in each slot the task of that
place, which it was not given before (`OwnerPlaces`). Two thieves that exchange
`top` take different places, so different tasks (`TakePlaces`).

Worker loop. For `OnePlace`,
`DequeLoses` and `AppendKeepsPlace` say what Pop, Steal and Push do to the
queues as a whole; a task about to be started is queued, so nobody runs it
(`PlaceInv`). No worker is astray before a deque breaks (`AstrayInv`). That the
deque keeps its promise is an assumption of `OnePlace` and no result:
`DequeImplements` proves it of `deque.cpp` up to the two defects.
`OneTaskAfterShutdown` needs to know where a worker with a late task can be.

Thread pool. `ThreadpoolProofs` holds the proofs of the worker loop first and
then those of the pool, which extends it and so has its variables. `PoolHasLoop`
carries `LoopTypes` and `LoopPlace` over, and with them that a worker changes no
task but one that was posted or runs (`RunChanges`). `ConfInv` says which configs let a task into which loop, so what both have was posted with -1.
For `PoolCloses` only a task can post once the destructor has begun
(`PostersAreTasks`), and if none is about none ever will be.

Event loop. A quiet timer (`QuietInv`) and one that was destroyed without haste
(`DeadInv`) are mute: no wait is pending and no handler that would call back is
queued or running; for the destroyed one nobody is between the two halves of a
Start either. Each call on one timer has to leave that alone for every other.
`TasksInOrder` says where in the queue each task that is still due stands: at the
back those posted last, in the order of their posting, with the handlers of
timers in between. `OrderKept` is the step that moves the queue up; a task that is
new (`FateInv`) was not posted before, so none is posted twice.

Listeners. `AddedIsListed` needs what a snapshot says about the list that it
was made from: `CallInv` ties the list a call has built to the version it has
seen, and a version is never used twice, so an exchange that succeeds replaces
exactly the list that was copied. `IdsInv` keeps ids apart, `ApartInv` keeps two
calls off one callback. `EmitInv` says that what an emission owes is in the rest
of its walk or already called. `SilentInv` is about removal: as long as no id was
out of order, a callback that was removed is not listed, and what an emission has
left to walk holds nobody who was removed before it began. For this the search of
Remove has to meet the id that it looks for. It halves a stretch of the list, and
`SearchMeets` shows that the id never leaves the stretch, by an induction over its
length that is spelled out as a least-element argument (`NatBySteps`).

Message loop. `RoundTrip` is arithmetic on words, one case per kind of event.
`Mail` says that what is queued was made by `toNative`, `TakenByPosted` that the
queue gets shorter only by `Posted`, or when the window takes it along, and
`HasMessage` that the message of an event is one that its type lists, but for the
upright wheel; no two types share one. `MadeInv` ties each dispatch to the message
that it was made of. `RetInv` says that a box
that was agreed to has posted the quit before the window goes, however many
boxes lie above it.

Vendored queue. A thread's producer is found by a search that stops at the first
slot that was never used, so `SoundInv` says that every key is reached from its
thread's own slot before such a slot. `ValueInv` says that a thread's entries name
the producer that it has, `LacksInv` which tables have no entry of it: the later
ones while it searches, all once its search failed, the ones it was removed from
while it exits. A producer is then either somebody's or inactive (`MineInv`), and
never both. The capacity of a new table is a recursive function's value, shown
positive by an induction over the natural numbers that is spelled out as a
least-element argument (`LeastNat`, `NatBySteps`). In a sub-queue `optimistic`
counts all claims: those that took an index, those counted out again, and those in
between (`ClaimsAdd`). That alone does not back a claim, since a thread that is
about to check has compared old values. `Backed` adds how many claims are ahead of
it: either its number exceeds all of theirs by what it knows to be overcommitted,
or there is room for it and for all of them. A dequeue that is alone meets no
claim of another, so the counters that it read stand until its check
(`StillFinds`).

Its blocks take `BlocksInv`, three layers that lean on each other: `dequeued`, the
references and the index are each right only as long as the other two are. The
proofs of the first are in `ConcurrentQueueProofs`, of the other two in
`ConcurrentQueueBlocksProofs`.

- The index (`IndexInv`). An entry has no number of its own, only a key that is
  overwritten when the index wraps, and an index that was doubled lives on in the
  old headers that readers still hold. The invariant says that there is a numbering
  of the entries, the last ones begun (`Numbered`), such that each header, old or
  new, lists them in the order of their numbers modulo its own size (`Fits`), the
  newest one all of them (`Newest`). It survives the beginning of an entry, its
  giving back, the doubling, and nothing else touches it (`IndexedBegins`,
  `IndexedGivesBack`, `IndexedDoubles`). From it follows what the search by
  `(key - base) / BlockSize` needs: from the tail of any header that has the entry it
  comes to that entry (`EntryForFinds`).
- The places (`PlaceInv`). There is one kind for each block and one order of the
  free list such that indexes, threads, list and references agree: `refs` of a node
  is the number of threads that read it, and one more while the list has it or is
  about to (`CountAt`); a node that is to be put on the list but is still read is
  left to its last reader. With a reference held the `next` that was read stands,
  so an exchange that finds the old head again finds the old list behind it: no
  ABA. The properties speak of cardinalities; that they are 1 is `PlacesOne`, and
  that the walk from the head meets exactly the blocks of the kind "listed" is
  `ListedKinds`.
- The readers (`Reading`). In a block that an index names, `dequeued` and the
  indexes that are not moved yet add up to `BlockSize` (`CountOK`), what was put
  and not moved is in its cell (`CellsOK`), and a block of which nothing is left has
  a thread that is about to unlink it (`GoesOK`), one only (`UnlinkOne`). So as long
  as somebody is to move an element its block is named (`CoverInv`), and what a
  reader has seen of the index still leads there (`EntryRead`), whatever enqueues
  and unlinkings come in between.

The destructor runs when no call is under way; then only what was put and not
taken is unmoved, so the walk from `headIndex` to `tailIndex` and the last block
make up what the indexes name (`LeftNamed`).

Rendering. `ChainInv` relates chain, images and views to the chains left behind: a
chain whose handle was lost has been counted among them.
`RefsHit` speaks of indexes in finished passes; `NamesInv` says where a name of
the pass in the making points, `SubsInv` and `DepsInv` that the parts already
given are within what has been added, and that the step that ends a pass resets
all of them. In `ContextInv` the pools are those of the first queues, however far
Initialize came. `QueuesServe` is about the walk of `GetQueueIndex` along the queues:
`BestOf` says what is known of the queues up to a place, that none of them has the
flags, or that one does and none has fewer others; `BetterIsBest` takes one
more, an induction along the queues does the rest.

Every safety invariant and action property that a passing run checks is stated by a
theorem. Only model-checked: liveness, which is out of the prover's reach; the
tables of `VulkanDefs`, which are finite and evaluated in full.

## 7. Not modelled

Components.

- Arena, `Any`, type traits (`core/memory`, `core/utils/sso_any.h`): containers of
  one owner. What can go wrong is layout and lifetime of C++ objects, which a
  model would assume and not check. For a reader: the deleter of `MakeCommonPtr`
  frees without running a destructor.
- Callback promise (`concurrency/future`): coroutines and senders over a vendored
  library, which nothing in the repository instantiates.
- Logging, errors, exceptions, strings, console, processor info: tables and
  wrappers of libraries and of the operating system, without state of their own.
- The senders of the pool and `timeout` do not compile once they are
  instantiated (`ex.value()` of an `expected<void, ...>` goes to `system_error`),
  nor does `Signal::Remove` (it assigns to elements of a vector of const). There
  is no behaviour to model.
- Vulkan's resources, shaders, pipelines, instance and surface: single calls that
  pass arguments on and keep one handle. The renderer is a stub.
- Riften's deque and the bulk operations of the vendored queue: nothing in the
  repository uses them.
- Tokens of the vendored queue: each worker constructs a `ProducerToken` and a
  `ConsumerToken` (`worker_loop.h:29-30`, `worker_loop.cpp:12`), and no call passes
  them on. So an explicit producer is on the list for each worker, but nobody
  enqueues into it and every dequeue passes over it as empty; the models leave
  these producers out.
- Moves of timers, of the deque and of a `Signal`: they happen, if at all, before
  threads start.

Detail of modelled parts.

- The vendored queue is interleaved by sequentially consistent steps, its
  counters do not wrap at 64 bits, `size_approx` reads a sub-queue in one step and
  the first index is always allocated. Which loads of shared words are joined in one
  step is listed at the head of `ConcurrentQueue` and `ProducerTable`. In
  `WorkerLoop` it is an atomic bag, although a `try_dequeue` under contention may
  come back empty: the liveness of tasks in the global queue holds on that
  condition, the safety properties do not need it. A worker that comes back empty
  would spin once more or, at the end of its spinning, look at `size_approx`.
- `VkRenderPass::DeviceCreate` drops the dependencies of a built pass, so nothing
  is said of their effect. `GetImage` ignores its argument.
- Values of single calls that look wrong without any sequence of steps are in the
  tables as the code has them, and no safety property speaks of them:
  `eIndirectBuffer` becomes `eIndexBuffer`, `eResolveDestination` a transfer
  source, and `FromVulkan` has no case for the format that the swap chain prefers.
  `VkPipeline::DeviceCreate`, which returns an error whatever the driver says, is
  not modelled.
- Loss at the end: nothing destroys the native chain of a swap chain (its
  destructor is empty); `ImagesMatchChain` counts those that are lost before, by a
  second Initialize, a Create that fails half-way and a refusal that spoils the
  handle.
- A second `Initialize` of a context, which would append its queues and pools to
  those of the first, and a swap chain of a context that is not ready. Nothing in
  the repository calls either Initialize yet.
- What lies between a call's steps where the process ends anyway: queries of the
  driver that throw out of `noexcept` functions and a null device it does not
  take are the outcome `aborted` (`VkContext`, `VkSwapChain`).
- In the message loop: the WM_CHAR that `TranslateMessage` posts after a
  WM_KEYDOWN; callbacks that throw, which end the process, since
  `schedule_dispatch` is `noexcept`; and `Destroy` of the window, which the
  application never calls.
- In `EventLoop.Shutdown`, `work.reset()` and `stop()` are one step. Nothing waits
  for the first alone.
- In the pool, the failure of the very first thread to start: nothing runs yet,
  and the constructor throws.
- `App::CreateRenderWindow` (which returns no value), and calls after a `failed` or
  `broken` outcome of a loop: there is no behaviour to claim anything about.
