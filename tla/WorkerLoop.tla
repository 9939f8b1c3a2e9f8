----------------------------- MODULE WorkerLoop -----------------------------
(***************************************************************************)
(* ecs/concurrency/run_loop/worker_loop.{h,cpp}: N worker threads run the  *)
(* tasks that are posted to them.  Each worker owns a local deque, all     *)
(* share a global queue; a worker looks in its own deque, in the global    *)
(* queue and in the other deques, spins for a while and then waits on its  *)
(* own condition variable.                                                 *)
(*                                                                         *)
(* A local deque is what TaskDeque promises, one atomic step per call,     *)
(* until it breaks that promise, as WorkStealDeque shows that deque.cpp    *)
(* may: from then on it may hand out what is in a stale slot, and be full  *)
(* or empty at any time.  The global queue is the vendored                 *)
(* moodycamel::ConcurrentQueue: a bag, since it keeps no order between     *)
(* producers.  Here try_dequeue finds a task if there is one; under        *)
(* contention the real one may come back without (see ConcurrentQueue).    *)
(***************************************************************************)
EXTENDS Integers, Sequences

CONSTANTS N,             \* worker threads, numbered from 0
          Tasks,         \* tasks that may be posted, each one once
          NoTask,        \* what a null Task* stands for
          LocalCapacity, \* LocalTaskQueueSize
          MaxSpin,       \* MaxSpinTimes
          Breakable,     \* bounds the workers whose deque may break
          Watched        \* the tasks whose progress is asked for: one will do, as
                         \* nothing tells tasks apart

ASSUME WorkerAssumption == /\ N \in Nat \ {0}
                           /\ LocalCapacity \in Nat \ {0}
                           /\ MaxSpin \in Nat \ {0}
                           /\ NoTask \notin Tasks

Workers == 0..(N-1)

VARIABLES local,         \* each worker's deque, its top first
          global,        \* the global queue
          broken,        \* the workers whose deque no longer keeps TaskDeque's promise
          shutdown,      \* m_shutdown
          notifying,     \* the worker Shutdown notifies next; N when it is done
          pc,            \* where each worker is in Run
          victim,        \* the deque it steals from next; N outside steal()
          spin,          \* spinCount, which counts no further than MaxSpin
          running,       \* the task it runs
          fate,          \* history: what has become of each task
          late           \* history: tasks a worker started after Shutdown

queues == <<local, global, broken>>
thread == <<pc, victim, spin, running>>
vars == <<queues, shutdown, notifying, thread, fate, late>>

Init == /\ local = [w \in Workers |-> <<>>]
        /\ global = {} /\ broken = {}
        /\ shutdown = FALSE
        /\ notifying = N
        /\ pc = [w \in Workers |-> "top"]
        /\ victim = [w \in Workers |-> N]
        /\ spin = [w \in Workers |-> 0]
        /\ running = [w \in Workers |-> NoTask]
        /\ fate = [k \in Tasks |-> "new"]
        /\ late = [w \in Workers |-> 0]

GoTo(w, label) == pc' = [pc EXCEPT ![w] = label]

-----------------------------------------------------------------------------
(* PostTask.                                                               *)

\* enqueue fails only when it cannot allocate a block; the caller then gets
\* QueueFull and destroys the task without running it.
Enqueue(k) ==
    \/ /\ global' = global \cup {k}
       /\ fate' = [fate EXCEPT ![k] = "posted"]
    \/ /\ UNCHANGED global
       /\ fate' = [fate EXCEPT ![k] = "rejected"]

\* A thread that runs no worker has index -1: straight to the global queue.
PostOutside(k) ==
    /\ fate[k] = "new"
    /\ Enqueue(k)
    /\ UNCHANGED <<local, broken, shutdown, notifying, thread, late>>

\* Mutant: the task goes to the deque of the thread that was asked for.
PostInsideAnywhere(w, k) ==
    /\ pc[w] = "run"
    /\ fate[k] = "new"
    /\ \E v \in Workers : /\ Len(local[v]) < LocalCapacity
                          /\ local' = [local EXCEPT ![v] = Append(@, k)]
    /\ fate' = [fate EXCEPT ![k] = "posted"]
    /\ UNCHANGED <<global, broken, shutdown, notifying, thread, late>>

\* The task that w runs posts k: to w's own deque, or when that is full to
\* the global queue.  No condition variable is notified.
PostInside(w, k) ==
    /\ pc[w] = "run"
    /\ fate[k] = "new"
    /\ \/ /\ Len(local[w]) < LocalCapacity
          /\ local' = [local EXCEPT ![w] = Append(@, k)]
          /\ fate' = [fate EXCEPT ![k] = "posted"]
          /\ UNCHANGED global
       \/ /\ Len(local[w]) >= LocalCapacity \/ w \in broken
          /\ Enqueue(k)
          /\ UNCHANGED local
    /\ UNCHANGED <<broken, shutdown, notifying, thread, late>>

Post == \E k \in Tasks : PostOutside(k) \/ \E w \in Workers : PostInside(w, k)

-----------------------------------------------------------------------------
(* Run(threadId).                                                          *)

\* runTask(k) up to the call of the task.
Start(w, k) ==
    /\ running' = [running EXCEPT ![w] = k]
    /\ fate' = [fate EXCEPT ![k] = "running"]
    /\ spin' = [spin EXCEPT ![w] = 0]
    /\ late' = [late EXCEPT ![w] = IF shutdown THEN @ + 1 ELSE @]
    /\ GoTo(w, "run")

\* Mutant: a worker empties its own deque before it leaves.
LoopTopDraining(w) ==
    /\ pc[w] = "top"
    /\ GoTo(w, IF shutdown /\ local[w] = <<>> THEN "exited" ELSE "local")
    /\ UNCHANGED <<queues, shutdown, notifying, victim, spin, running, fate, late>>

\* Mutant: spinCount is declared inside the loop.
LoopTopResetting(w) ==
    /\ pc[w] = "top"
    /\ GoTo(w, IF shutdown THEN "exited" ELSE "local")
    /\ spin' = [spin EXCEPT ![w] = 0]
    /\ UNCHANGED <<queues, shutdown, notifying, victim, running, fate, late>>

\* while (!m_shutdown)
LoopTop(w) ==
    /\ pc[w] = "top"
    /\ GoTo(w, IF shutdown THEN "exited" ELSE "local")
    /\ UNCHANGED <<queues, shutdown, notifying, victim, spin, running, fate, late>>

\* A Consume that finds something may break the deque, if there is a thief: one that
\* takes the last element first leaves bottom past top (deque.cpp:79-86), and while
\* Pop's store of bottom is on its way (:64-66) another may take what Pop takes.
Break(w) ==
    /\ pc[w] = "local" /\ local[w] # <<>>
    /\ N > 1 /\ w \in Breakable \ broken
    /\ broken' = broken \cup {w}
    /\ UNCHANGED <<local, global, shutdown, notifying, thread, fate, late>>

\* A broken deque hands out a stale slot, to its owner or to a thief: a task that
\* was handed out before, perhaps destroyed, or none.  The worker runs that, and
\* nothing is known of it any more.
TakeAgain(w) ==
    /\ \/ pc[w] = "local" /\ w \in broken
       \/ pc[w] = "steal" /\ victim[w] \in broken
    /\ late' = [late EXCEPT ![w] = IF shutdown THEN @ + 1 ELSE @]
    /\ GoTo(w, "astray")
    /\ UNCHANGED <<queues, shutdown, notifying, victim, spin, running, fate>>

\* currentPack.Consume()
TakeLocal(w) ==
    /\ pc[w] = "local"
    /\ \/ /\ local[w] # <<>>
          /\ Start(w, local[w][Len(local[w])])
          /\ local' = [local EXCEPT ![w] = SubSeq(@, 1, Len(@) - 1)]
       \/ /\ local[w] = <<>> \/ w \in broken
          /\ GoTo(w, "global")
          /\ UNCHANGED <<local, running, fate, spin, late>>
    /\ UNCHANGED <<global, broken, shutdown, notifying, victim>>

\* The deque after number v in m_threads' order; a worker passes over its own.
Other(w, v) == IF v = w THEN v + 1 ELSE v

\* m_globalTaskQueue.try_dequeue(task)
TakeGlobal(w) ==
    /\ pc[w] = "global"
    /\ \/ /\ \E k \in global : Start(w, k) /\ global' = global \ {k}
          /\ UNCHANGED victim
       \/ /\ global = {}
          /\ GoTo(w, "steal")
          /\ victim' = [victim EXCEPT ![w] = Other(w, 0)]
          /\ UNCHANGED <<global, running, fate, spin, late>>
    /\ UNCHANGED <<local, broken, shutdown, notifying>>

\* Mutant: the stolen task stays in its deque.
TakeStolenPeeking(w) ==
    /\ pc[w] = "steal" /\ victim[w] < N
    /\ local[victim[w]] # <<>>
    /\ Start(w, Head(local[victim[w]]))
    /\ victim' = [victim EXCEPT ![w] = N]
    /\ UNCHANGED <<queues, shutdown, notifying>>

\* One round of the loop over m_threads in steal().
TakeStolen(w) ==
    /\ pc[w] = "steal" /\ victim[w] < N
    /\ local[victim[w]] # <<>>
    /\ Start(w, Head(local[victim[w]]))
    /\ local' = [local EXCEPT ![victim[w]] = Tail(@)]
    /\ victim' = [victim EXCEPT ![w] = N]
    /\ UNCHANGED <<global, broken, shutdown, notifying>>

\* Mutant: the loop over the deques has no end.
NextVictimUnbounded(w) ==
    /\ pc[w] = "steal"
    /\ victim' = [victim EXCEPT ![w] = Other(w, @ + 1)]
    /\ UNCHANGED <<queues, shutdown, notifying, pc, spin, running, fate, late>>

\* Mutant: the scan starts over at the first deque.
NextVictimRound(w) ==
    /\ pc[w] = "steal" /\ victim[w] < N
    /\ victim' = [victim EXCEPT ![w] = Other(w, (@ + 1) % N)]
    /\ UNCHANGED <<queues, shutdown, notifying, pc, spin, running, fate, late>>

\* An empty deque, or a Steal that lost its exchange.
NextVictim(w) ==
    /\ pc[w] = "steal" /\ victim[w] < N
    /\ victim' = [victim EXCEPT ![w] = Other(w, @ + 1)]
    /\ UNCHANGED <<queues, shutdown, notifying, pc, spin, running, fate, late>>

\* spinCount++, and a yield or a pause until there were enough of them.
Spin(w) ==
    /\ pc[w] = "steal" /\ victim[w] = N
    /\ spin' = [spin EXCEPT ![w] = IF @ < MaxSpin THEN @ + 1 ELSE @]
    /\ GoTo(w, IF spin'[w] < MaxSpin THEN "top" ELSE "park")
    /\ UNCHANGED <<queues, shutdown, notifying, victim, running, fate, late>>

\* The predicate of localCv.wait, under the worker's own mutex; a broken deque
\* answers either way.
WorkInSight(w) == ~(local[w] = <<>> /\ global = {})

CheckPredicate(w) ==
    /\ pc[w] = "park"
    /\ \/ GoTo(w, IF WorkInSight(w) THEN "top" ELSE "block")
       \/ w \in broken /\ GoTo(w, IF WorkInSight(w) THEN "block" ELSE "top")
    /\ UNCHANGED <<queues, shutdown, notifying, victim, spin, running, fate, late>>

\* Only now does the worker wait: Shutdown notifies without the mutex, and a
\* notification between the predicate and this step finds nobody waiting.
Block(w) ==
    /\ pc[w] = "block"
    /\ GoTo(w, "waiting")
    /\ UNCHANGED <<queues, shutdown, notifying, victim, spin, running, fate, late>>

\* condition_variable::wait may return without a notification.
WakeSpuriously(w) ==
    /\ pc[w] = "waiting"
    /\ GoTo(w, "park")
    /\ UNCHANGED <<queues, shutdown, notifying, victim, spin, running, fate, late>>

\* (*t)() returns, t->Destroy().
TaskReturns(w) ==
    /\ pc[w] = "run"
    /\ fate' = [fate EXCEPT ![running[w]] = "done"]
    /\ running' = [running EXCEPT ![w] = NoTask]
    /\ GoTo(w, "top")
    /\ UNCHANGED <<queues, shutdown, notifying, victim, spin, late>>

\* Mutant: what a task throws ends the thread.
TaskThrowsOut(w) ==
    /\ pc[w] = "run"
    /\ fate' = [fate EXCEPT ![running[w]] = "leaked"]
    /\ running' = [running EXCEPT ![w] = NoTask]
    /\ GoTo(w, "exited")
    /\ UNCHANGED <<queues, shutdown, notifying, victim, spin, late>>

\* (*t)() throws: the exception is logged and Destroy is not called.
TaskThrows(w) ==
    /\ pc[w] = "run"
    /\ fate' = [fate EXCEPT ![running[w]] = "leaked"]
    /\ running' = [running EXCEPT ![w] = NoTask]
    /\ GoTo(w, "top")
    /\ UNCHANGED <<queues, shutdown, notifying, victim, spin, late>>

\* What the thread of w does whether or not anything else happens.
Run(w) == \/ LoopTop(w)
          \/ TakeLocal(w) \/ TakeGlobal(w) \/ TakeStolen(w) \/ NextVictim(w)
          \/ Break(w) \/ TakeAgain(w)
          \/ Spin(w) \/ CheckPredicate(w) \/ Block(w)
          \/ TaskReturns(w) \/ TaskThrows(w)

-----------------------------------------------------------------------------
(* Shutdown.                                                               *)

\* if (std::exchange(m_shutdown, true)) return;
Shutdown ==
    /\ ~shutdown
    /\ shutdown' = TRUE
    /\ notifying' = 0
    /\ UNCHANGED <<queues, thread, fate, late>>

\* t.cv.notify_one(), for one worker after the other.
Notify ==
    /\ notifying < N
    /\ notifying' = notifying + 1
    /\ pc' = [pc EXCEPT ![notifying] = IF @ = "waiting" THEN "park" ELSE @]
    /\ UNCHANGED <<queues, shutdown, victim, spin, running, fate, late>>

-----------------------------------------------------------------------------
Next == \/ Post \/ Shutdown \/ Notify
        \/ \E w \in Workers : Run(w) \/ WakeSpuriously(w)

Spec == Init /\ [][Next]_vars

(***************************************************************************)
(* The operating system runs every thread that can run, Shutdown's caller  *)
(* gets through its loop, and every task returns or throws.  Nobody has to *)
(* post, to shut down, or to wake up without a notification.               *)
(***************************************************************************)
Fairness == WF_vars(Notify) /\ \A w \in Workers : WF_vars(Run(w))

FairSpec == Spec /\ Fairness

-----------------------------------------------------------------------------
(* Properties.                                                             *)

Fates == {"new", "rejected", "posted", "running", "done", "leaked"}

TypeOK ==
    /\ local \in [Workers -> Seq(Tasks)]
    /\ global \in SUBSET Tasks
    /\ broken \in SUBSET Workers
    /\ shutdown \in BOOLEAN
    /\ notifying \in 0..N
    /\ pc \in [Workers -> {"top", "local", "global", "steal", "park",
                           "block", "waiting", "run", "astray", "exited"}]
    /\ victim \in [Workers -> 0..N]
    /\ spin \in [Workers -> 0..MaxSpin]
    /\ running \in [Workers -> Tasks \cup {NoTask}]
    /\ fate \in [Tasks -> Fates]
    /\ late \in [Workers -> Nat]

Queued(k) == \/ k \in global
             \/ \E w \in Workers : \E i \in 1..Len(local[w]) : local[w][i] = k

QueuedIffPosted == \A k \in Tasks : fate[k] = "posted" <=> Queued(k)

QueuedOnce ==
    \A w \in Workers : \A i \in 1..Len(local[w]) :
        /\ local[w][i] \notin global
        /\ \A v \in Workers : \A j \in 1..Len(local[v]) :
              local[w][i] = local[v][j] => w = v /\ i = j

RunByOne ==
    /\ \A k \in Tasks : fate[k] = "running" <=> \E w \in Workers : running[w] = k
    /\ \A w, v \in Workers : running[w] = running[v] /\ running[w] # NoTask => w = v

(***************************************************************************)
(* As long as every deque keeps its promise: a task that was posted and    *)
(* not yet started is in exactly one queue, once, a started task has       *)
(* exactly one worker, and no worker is handed a task that another had,    *)
(* whichever way it went: overflow from a full deque, theft, the owner's   *)
(* own Consume.  Once a deque has broken, a worker may run a task again.   *)
(***************************************************************************)
OnePlace == broken = {} => /\ QueuedIffPosted /\ QueuedOnce /\ RunByOne
                           /\ \A w \in Workers : pc[w] # "astray"

(***************************************************************************)
(* A worker that has looked in its own deque and goes on to sleep leaves   *)
(* nothing behind there, whatever is posted meanwhile: the only tasks that *)
(* can depend on somebody waking up are in the global queue.  A broken     *)
(* deque may hide what is in it.                                           *)
(***************************************************************************)
SleepersHoldNothing ==
    \A w \in Workers \ broken :
        pc[w] \in {"global", "steal", "park", "block", "waiting"} => local[w] = <<>>

\* Once m_shutdown is set a worker still starts the task it is looking for,
\* and no other, even if its deques are broken.
OneTaskAfterShutdown == \A w \in Workers : late[w] <= 1

Started(k) == fate[k] \in {"running", "done", "leaked"}
Parked(w) == pc[w] \in {"park", "block", "waiting"}

(***************************************************************************)
(* A task posted by a worker is started, by that worker or by a thief,     *)
(* although nobody is notified, unless the loop is shut down or a deque    *)
(* breaks.                                                                 *)
(***************************************************************************)
LocalTasksStart ==
    \A k \in Watched : (\E w \in Workers : \E i \in 1..Len(local[w]) : local[w][i] = k)
                        ~> Started(k) \/ shutdown \/ broken # {}

(***************************************************************************)
(* A task in the global queue is started unless the loop is shut down, the *)
(* task finds every worker asleep, or a deque breaks.                      *)
(***************************************************************************)
GlobalTasksStartIfAwake ==
    \A k \in Watched : k \in global
                        ~> \/ Started(k) \/ shutdown \/ broken # {}
                           \/ \A w \in Workers : pc[w] = "waiting"

\* Shutdown ends every worker that is not waiting on its condition variable, or that
\* was handed a stale slot: a broken deque does not keep the others from leaving.
ShutdownEndsTheAwake ==
    shutdown ~> \A w \in Workers : pc[w] \in {"exited", "astray", "waiting", "park", "block"}

\* With nothing left to do, and no deque broken, the workers stop spinning.
IdleWorkersSleep ==
    <>[](broken = {} /\ \A k \in Tasks : fate[k] \notin {"posted", "running"})
        => <>[](\A w \in Workers : Parked(w) \/ pc[w] = "exited")

\* The comment at worker_loop.h:32: the condition variable is there "to wake
\* up the thread when new task is posted to global queue or local queue".
PostedTasksStart ==
    \A k \in Tasks : fate[k] = "posted" ~> Started(k) \/ shutdown

\* What a caller that joins the workers after Shutdown waits for.
ShutdownEndsAll == shutdown ~> \A w \in Workers : pc[w] = "exited"
=============================================================================
