----------------------------- MODULE Threadpool -----------------------------
(***************************************************************************)
(* ecs/concurrency/threadpool/threadpool.{h,cpp}: a WorkerLoop with its N  *)
(* threads, whose module this one extends, and an EventLoop with a thread  *)
(* of its own.  The pool adds what lies between them: the start of the     *)
(* threads behind a latch, the routing of a task by its PostConfig, the    *)
(* round-robin counter of GetAnyThreadToken, and the destruction of the    *)
(* members in the reverse of their order.                                  *)
(*                                                                         *)
(* The event loop has no timers here; EventLoop has them.                  *)
(***************************************************************************)
EXTENDS WorkerLoop

CONSTANTS Main,          \* the thread that owns the pool; N is m_threadNums
          MaxInt,        \* the largest int; the smallest is -MaxInt - 1
          Configs        \* the PostConfigs that callers choose

ASSUME PoolAssumption == /\ MaxInt \in Nat \ {0} /\ Main \notin Int
                         /\ Configs \subseteq Int \ {N + 2}

EsThread == N            \* CurrentThreadToken() of the event loop's thread
Threads == 0..N
NotPosted == N + 2       \* in place of a PostConfig

VARIABLES  \* those of the event loop, and the pool's own
    ready, work, stopped, esPc, once, current, esFate, posted, ran,
    starting, hasty, starts,  \* of timers: nothing happens to them here
    failed,   \* how the process went down: "no", or the reason
    phase,    \* what Main does: construction, use, destruction
    spawned,  \* threads the constructor has started
    latch,    \* the latch's counter
    poolThread,  \* each thread, before it enters its loop and after it left it
    token,    \* each thread's tCurrentThreadToken
    counter,  \* the static counter in GetAnyThreadToken
    conf,     \* history: the PostConfig each task was posted with
    bound,    \* history: whether a task's token was drawn from the counter
    busy      \* history: there was a task about when ~Threadpool began

\* Main and the workers, which no task of the event loop is run by.
Clients == {Main} \cup Workers

Async == INSTANCE EventLoop WITH
             Loop <- EsThread, Timers <- {}, Nothing <- NoTask, MaxStarts <- 0,
             pc <- esPc, fate <- esFate, waits <- <<>>, life <- <<>>,
             callback <- <<>>, quiet <- <<>>, keeps <- <<>>

computeVars == vars  \* of WorkerLoop
asyncVars == <<ready, work, stopped, esPc, once, current, esFate, posted, ran,
               starting, hasty, starts>>
loops == <<computeVars, asyncVars, failed>>
start == <<spawned, latch, poolThread, token>>
routing == <<counter, conf, bound>>
poolVars == <<loops, phase, start, routing, busy>>

PoolInit == /\ Init /\ Async!Init
            /\ phase = "spawn" /\ spawned = 0 /\ latch = N + 1
            /\ poolThread = [i \in Threads |-> "none"]
            /\ token = [i \in Threads |-> -1]
            /\ counter \in 0..MaxInt  \* other pools have used it, too
            /\ conf = [k \in Tasks |-> NotPosted]
            /\ bound = [k \in Tasks |-> "no"]
            /\ busy = FALSE

Die(why) == failed' = why /\ UNCHANGED <<computeVars, asyncVars>>

-----------------------------------------------------------------------------
(* The constructor.                                                        *)

\* The workers' threads, then the event loop's.
Spawn ==
    /\ failed = "no" /\ phase = "spawn"
    /\ poolThread' = [poolThread EXCEPT ![spawned] = "started"]
    /\ spawned' = spawned + 1
    /\ phase' = IF spawned = N THEN "latch" ELSE phase
    /\ UNCHANGED <<loops, latch, token, routing, busy>>

\* A thread cannot be started: the constructor throws, its latch is gone and
\* the members are destroyed, which joins the workers that did start.  Nobody
\* shuts their loop down, so this is where Main stays.  (If there is none yet,
\* Main gets the exception and there is no pool; that is left out.)
SpawnFails ==
    /\ failed = "no" /\ phase = "spawn" /\ spawned > 0
    /\ phase' = "unwinding"
    /\ UNCHANGED <<loops, start, routing, busy>>

\* m_threadInit(i), for the workers only.
InitThread(i) ==
    /\ failed = "no" /\ poolThread[i] = "started" /\ i # EsThread
    /\ \/ /\ phase # "unwinding"
          /\ poolThread' = [poolThread EXCEPT ![i] = "initialised"]
          /\ UNCHANGED loops
       \/ phase = "unwinding" /\ Die("unwound") /\ UNCHANGED poolThread
    /\ UNCHANGED <<phase, spawned, latch, token, routing, busy>>

\* Mutant: the event loop's thread leaves the latch alone.
CountDownWorkers(i) ==
    /\ failed = "no"
    /\ poolThread[i] = IF i = EsThread THEN "started" ELSE "initialised"
    /\ token' = [token EXCEPT ![i] = i]
    /\ latch' = IF i = EsThread THEN latch ELSE latch - 1
    /\ poolThread' = [poolThread EXCEPT ![i] = "loop"]
    /\ UNCHANGED <<loops, phase, spawned, routing, busy>>

\* The token is set, the latch counted down, and the loop entered.
CountDown(i) ==
    /\ failed = "no"
    /\ poolThread[i] = IF i = EsThread THEN "started" ELSE "initialised"
    /\ \/ /\ phase # "unwinding"
          /\ token' = [token EXCEPT ![i] = i]
          /\ latch' = latch - 1
          /\ poolThread' = [poolThread EXCEPT ![i] = "loop"]
          /\ UNCHANGED loops
       \/ phase = "unwinding" /\ Die("unwound") /\ UNCHANGED <<token, latch, poolThread>>
    /\ UNCHANGED <<phase, spawned, routing, busy>>

\* Mutant: the latch counts the workers only.
OpenBeforeLoop ==
    /\ failed = "no" /\ phase = "latch" /\ latch <= 1
    /\ phase' = "open"
    /\ UNCHANGED <<loops, start, routing, busy>>

\* latch.wait()
Open ==
    /\ failed = "no" /\ phase = "latch" /\ latch = 0
    /\ phase' = "open"
    /\ UNCHANGED <<loops, start, routing, busy>>

-----------------------------------------------------------------------------
(* GetAnyThreadToken and PostTask.                                         *)

\* enum ThreadType; a PostConfig of -1 is AnyThread.
AnyType == -1
AsyncType == -2
ComputeType == -3

\* The remainder of C++, which has the sign of a.
Rem(a, b) == IF a >= 0 THEN a % b ELSE -((-a) % b)

\* Mutant: one thread too many.
AnyThreadTokenPast(type) ==
    CASE type = AnyType -> Rem(counter, N + 2)
      [] type = ComputeType -> Rem(counter, N)
      [] type = AsyncType -> EsThread
      [] OTHER -> -1

\* The value of GetAnyThreadToken(type) ...
AnyThreadToken(type) ==
    CASE type = AnyType -> Rem(counter, N + 1)
      [] type = ComputeType -> Rem(counter, N)
      [] type = AsyncType -> EsThread
      [] OTHER -> -1

\* ... and ret++, which wraps around.
Draw(type) == counter' = IF type \notin {AnyType, ComputeType} THEN counter
                         ELSE IF counter = MaxInt THEN -MaxInt - 1 ELSE counter + 1

\* Main while it has the pool, and the task that a thread of the pool runs.
MayPost(p) == /\ failed = "no"
              /\ \/ p = Main /\ phase = "open"
                 \/ p \in Workers /\ pc[p] = "run"
                 \/ p = EsThread /\ esPc = "task"

PostCompute(p, k) ==
    IF p \in Workers THEN PostInside(p, k) ELSE PostOutside(k)

\* The event loop is gone when Main joins the workers.
PostAsync(p, k) ==
    IF phase \in {"joinWorkers", "gone"} THEN Die("gone")
    ELSE Async!PostTask(p, k) /\ UNCHANGED computeVars

\* if (ret) - the worker loop took the task - the event loop gets it, too.
PostAny(p, k) ==
    /\ PostCompute(p, k)
    /\ IF fate'[k] # "posted" THEN UNCHANGED <<asyncVars, failed>>
       ELSE IF phase \in {"joinWorkers", "gone"} THEN failed' = "gone" /\ UNCHANGED asyncVars
       ELSE Async!PostTask(p, k)

\* Mutant: no break after case ThreadType::Compute.
RouteFallingThrough(p, k, c) ==
    \/ c \in {AnyType, ComputeType} /\ PostAny(p, k)
    \/ c \in Workers /\ PostCompute(p, k) /\ UNCHANGED <<asyncVars, failed>>
    \/ (c = EsThread \/ c = AsyncType) /\ PostAsync(p, k)
    \/ (c > N \/ c < ComputeType) /\ UNCHANGED loops

\* PostTask(task, config): a token past N is InvalidThreadToken, another
\* group InvalidThreadType.  The worker loop makes nothing of the number of
\* the thread it is asked for.
Route(p, k, c) ==
    \/ c = AnyType /\ PostAny(p, k)
    \/ c \in Workers /\ PostCompute(p, k) /\ UNCHANGED <<asyncVars, failed>>
    \/ c = ComputeType /\ PostCompute(p, k) /\ UNCHANGED <<asyncVars, failed>>
    \/ (c = EsThread \/ c = AsyncType) /\ PostAsync(p, k)
    \/ (c > N \/ c < ComputeType) /\ UNCHANGED loops

\* PostTask with a config of the caller's choice.
PostTask(p, k, c) ==
    /\ MayPost(p) /\ conf[k] = NotPosted
    /\ Route(p, k, c)
    /\ IF c = ComputeType THEN Draw(ComputeType) ELSE UNCHANGED counter
    /\ conf' = [conf EXCEPT ![k] = c]
    /\ UNCHANGED <<phase, start, bound, busy>>

\* PostTask(task, PostConfig::thread(GetAnyThreadToken(type))).
PostBound(p, k, type) ==
    /\ MayPost(p) /\ conf[k] = NotPosted
    /\ LET c == AnyThreadToken(type) IN
       /\ Route(p, k, c)
       /\ conf' = [conf EXCEPT ![k] = c]
    /\ Draw(type)
    /\ bound' = [bound EXCEPT ![k] = IF counter < 0 THEN "wrapped" ELSE "yes"]
    /\ UNCHANGED <<phase, start, busy>>

-----------------------------------------------------------------------------
(* The pool's threads in their loops.                                      *)

Destroyed(k) == fate[k] = "done" \/ esFate[k] = "done"

\* A worker's step; to start or to finish a task that the event loop has
\* destroyed is a use after free, and what a broken deque hands out may be none.
WorkerRuns(w) ==
    /\ failed = "no" /\ poolThread[w] = "loop"
    /\ Run(w)
    /\ failed' = IF pc'[w] = "astray" THEN "stale"
                 ELSE IF \E k \in Tasks : fate'[k] # fate[k] /\ Destroyed(k)
                 THEN "freed" ELSE failed
    /\ UNCHANGED <<asyncVars, phase, start, routing, busy>>

WorkerWakes(w) ==
    /\ failed = "no"
    /\ WakeSpuriously(w)
    /\ UNCHANGED <<asyncVars, failed, phase, start, routing, busy>>

\* Whether the event loop's members are still there.
LoopIsFreed == phase \in {"joinWorkers", "gone"}

\* The event loop's thread.
EsRuns ==
    /\ failed = "no" /\ poolThread[EsThread] = "loop"
    /\ \/ ~LoopIsFreed /\ Async!RunBegin /\ ~once' /\ UNCHANGED <<computeVars, poolThread>>
       \/ /\ ~LoopIsFreed /\ Async!HandleTask
          /\ ~Destroyed(current'.task)
          /\ UNCHANGED <<computeVars, poolThread>>
       \/ /\ ~LoopIsFreed /\ Async!TaskReturns
          /\ ~Destroyed(current.task)
          /\ UNCHANGED <<computeVars, poolThread>>
       \/ /\ \/ /\ esPc = "wait" /\ ~stopped /\ ready # <<>>
                /\ Destroyed(Head(ready).task)
             \/ esPc = "task" /\ Destroyed(current.task)
          /\ failed' = "freed"
          /\ UNCHANGED <<computeVars, asyncVars, poolThread>>
       \/ /\ ~LoopIsFreed
          /\ \/ Async!Leave
             \/ stopped /\ esPc = "outside" /\ UNCHANGED <<asyncVars, failed>>
          /\ poolThread' = [poolThread EXCEPT ![EsThread] = "done"]
          /\ UNCHANGED computeVars
       \/ LoopIsFreed /\ Die("gone") /\ UNCHANGED poolThread
    /\ UNCHANGED <<phase, spawned, latch, token, routing, busy>>

\* A task of the event loop throws.
EsThrows ==
    /\ Async!Throws
    /\ UNCHANGED <<computeVars, phase, start, routing, busy>>

-----------------------------------------------------------------------------
(* The destructor.                                                         *)

SomeTaskAbout == \E k \in Tasks : \/ fate[k] \in {"posted", "running"}
                                  \/ esFate[k] \in {"posted", "running"}

\* m_workerLoop.Shutdown() ...
Close ==
    /\ failed = "no" /\ phase = "open"
    /\ Shutdown
    /\ phase' = "notify"
    /\ busy' = SomeTaskAbout
    /\ UNCHANGED <<asyncVars, failed, start, routing>>

NotifyWorkers ==
    /\ failed = "no" /\ phase = "notify"
    /\ Notify
    /\ UNCHANGED <<asyncVars, failed, phase, start, routing, busy>>

\* Mutant: the event loop's own destructor is left to stop it.
StopLoopMissing ==
    /\ failed = "no" /\ phase = "notify" /\ notifying = N
    /\ phase' = "joinLoop"
    /\ UNCHANGED <<loops, start, routing, busy>>

\* ... and m_es.Shutdown().
StopLoop ==
    /\ failed = "no" /\ phase = "notify" /\ notifying = N
    /\ Async!Shutdown(Main)
    /\ phase' = "joinLoop"
    /\ UNCHANGED <<computeVars, start, routing, busy>>

\* Mutant: m_esThread is declared before m_es.
JoinLoopLate ==
    /\ failed = "no" /\ phase = "joinLoop"
    /\ phase' = "joinWorkers"
    /\ UNCHANGED <<loops, start, routing, busy>>

\* ~jthread of m_esThread, and then ~EventLoop.
JoinLoop ==
    /\ failed = "no" /\ phase = "joinLoop"
    /\ poolThread[EsThread] = "done"
    /\ phase' = "joinWorkers"
    /\ UNCHANGED <<loops, start, routing, busy>>

\* ~jthread of each worker, and then ~WorkerLoop.
JoinWorkers ==
    /\ failed = "no" /\ phase = "joinWorkers"
    /\ \A w \in Workers : pc[w] = "exited"
    /\ phase' = "gone"
    /\ UNCHANGED <<loops, start, routing, busy>>

MainRuns == Spawn \/ Open \/ NotifyWorkers \/ StopLoop \/ JoinLoop \/ JoinWorkers

Posts == \E p \in Threads \cup {Main}, k \in Tasks :
            \/ \E c \in Configs : PostTask(p, k, c)
            \/ \E type \in {AnyType, AsyncType, ComputeType} : PostBound(p, k, type)

PoolNext == \/ MainRuns \/ SpawnFails \/ Close \/ Posts
            \/ \E i \in Threads : InitThread(i) \/ CountDown(i)
            \/ \E w \in Workers : WorkerRuns(w) \/ WorkerWakes(w)
            \/ EsRuns \/ EsThrows

PoolSpec == PoolInit /\ [][PoolNext]_poolVars

(***************************************************************************)
(* Every thread is scheduled, tasks end, and a constructor or destructor   *)
(* that has begun goes on.  Nobody has to post or to destroy the pool.     *)
(***************************************************************************)
PoolFairness == /\ WF_poolVars(MainRuns) /\ WF_poolVars(EsRuns)
                /\ \A i \in Threads : WF_poolVars(InitThread(i) \/ CountDown(i))
                /\ \A w \in Workers : WF_poolVars(WorkerRuns(w))

PoolFairSpec == PoolSpec /\ PoolFairness

-----------------------------------------------------------------------------
(* Properties.                                                             *)

WorkersHold(k) == fate[k] \in {"posted", "running", "done", "leaked"}
LoopHolds(k) == esFate[k] # "new"

(***************************************************************************)
(* The two loops share a task, and with it the duty to destroy it, only    *)
(* when it was posted with the config -1: AnyThread, which is what         *)
(* PostTask assumes when it is given none.  No other task is ever run by   *)
(* both, whoever posts it, nor used after it was destroyed.                *)
(***************************************************************************)
OnlyAnyIsShared ==
    /\ \A k \in Tasks : WorkersHold(k) /\ LoopHolds(k) => conf[k] = AnyType
    /\ failed = "freed" => \E k \in Tasks : conf[k] = AnyType

(***************************************************************************)
(* Until the counter has wrapped around, a token it yields is that of a    *)
(* thread of the pool, and one loop, not two, takes a task posted with it. *)
(* Afterwards it may be negative, and names a group or no group at all.    *)
(***************************************************************************)
BoundTokensName ==
    \A k \in Tasks : bound[k] = "yes" =>
        /\ conf[k] \in Threads
        /\ WorkersHold(k) => ~LoopHolds(k)

\* The constructor returns no earlier than every thread has its token and
\* every worker has run its initialisation.
ReadyWhenOpen ==
    phase \notin {"spawn", "unwinding", "latch"} =>
        \A i \in Threads : token[i] = i /\ poolThread[i] \in {"loop", "done"}

(***************************************************************************)
(* Nobody uses the destroyed event loop unless a task was queued or        *)
(* running in one of the two loops when the destructor began: such a task  *)
(* may reach a worker late and post to the event loop, whose members go    *)
(* before the workers are joined.                                          *)
(***************************************************************************)
IdlePoolsCloseSafely == failed = "gone" => busy

(***************************************************************************)
(* The constructor returns if every thread can be started.  One that       *)
(* cannot leaves Main in the destructors, for good: see SpawnFails.        *)
(***************************************************************************)
ConstructorReturns == [](phase # "unwinding") => <>(phase = "open")

(***************************************************************************)
(* The destructor returns unless a worker sleeps (see ShutdownEndsAll in   *)
(* WorkerLoop) or the process goes down: neither of the loops waits for    *)
(* the other, and late tasks do not keep it from ending.                   *)
(***************************************************************************)
DestructorReturns ==
    phase = "notify" ~> \/ phase = "gone" \/ failed # "no"
                        \/ \E w \in Workers : pc[w] \in {"park", "block", "waiting"}
=============================================================================
