------------------------------ MODULE EventLoop ------------------------------
(***************************************************************************)
(* ecs/concurrency/run_loop/event_loop.{h,cpp}: EventLoop, a thread that   *)
(* runs posted tasks one after the other, and Timer, whose callback the    *)
(* same thread runs.  Both stand on boost::asio, which is not part of the  *)
(* repository and is modelled by what its documentation promises:          *)
(*   - io_context keeps a FIFO queue of handlers; run() executes them until *)
(*     stop(), or until nothing is left and the work guard is gone;        *)
(*   - expires_after() and cancel() complete every wait still pending with *)
(*     operation_aborted.  A wait whose time has come is already queued as *)
(*     a success, and nothing takes it back.                               *)
(*                                                                         *)
(* The timer's calls come from other threads (Clients) and from tasks and  *)
(* callbacks on the loop's own thread.                                     *)
(***************************************************************************)
EXTENDS Integers, Sequences

CONSTANTS Clients,      \* threads other than the loop's
          Loop,         \* the thread that calls Run or RunOnce
          Timers, Tasks,
          Nothing,      \* no handler, no call
          MaxStarts     \* bound: calls of Timer::Start

ASSUME EventLoopAssumption == /\ Loop \notin Clients
                              /\ MaxStarts \in Nat

Actors == Clients \cup {Loop}

VARIABLES ready,     \* the io_context's queue of handlers
          work,      \* the work guard m_work is held
          stopped,   \* the io_context is stopped
          pc,        \* where the loop's thread is
          once,      \* it is in RunOnce
          current,   \* the handler it executes
          waits,     \* each timer's pending waits, as their m_repeat # 0
          life,      \* each Timer: "none", "alive" or "destroyed"
          callback,  \* its m_cb
          starting,  \* each actor's Start between its two asio calls
          fate,      \* history: what has become of each task
          posted,    \* history: the order in which tasks were posted
          ran,       \* history: the order in which they were run
          quiet,     \* history: timers that were stopped in time
          keeps,     \* history: timers meant to go on firing
          hasty,     \* history: a timer was destroyed with a handler on its way
          starts,    \* history: calls of Start
          failed     \* how the process went down: "no", or the reason

context == <<ready, work, stopped>>
thread == <<pc, once, current>>
timer == <<waits, life, callback>>
taskHistory == <<fate, posted, ran>>
timerHistory == <<quiet, keeps, hasty, starts>>
vars == <<context, thread, timer, starting, taskHistory, timerHistory, failed>>

TaskHandler(k) == [kind |-> "task", task |-> k]
WaitHandler(t, repeat, ok) ==
    [kind |-> "wait", timer |-> t, repeat |-> repeat, ok |-> ok]

Init == /\ ready = <<>> /\ work = TRUE /\ stopped = FALSE
        /\ pc = "outside" /\ once = FALSE /\ current = Nothing
        /\ waits = [t \in Timers |-> <<>>]
        /\ life = [t \in Timers |-> "none"]
        /\ callback = [t \in Timers |-> "null"]
        /\ starting = [a \in Actors |-> Nothing]
        /\ fate = [k \in Tasks |-> "new"]
        /\ posted = <<>> /\ ran = <<>>
        /\ quiet = [t \in Timers |-> FALSE]
        /\ keeps = [t \in Timers |-> FALSE]
        /\ hasty = FALSE
        /\ starts = 0
        /\ failed = "no"

\* Undefined behaviour, a failed assertion or std::terminate: nothing more
\* happens.
Fail(why) == /\ failed' = why
             /\ UNCHANGED <<context, thread, timer, starting, taskHistory,
                            quiet, keeps, starts>>

\* An actor in a position to call: a client between two calls, or the loop's
\* thread inside a task or a callback.
CanCall(a) == /\ failed = "no"
              /\ starting[a] = Nothing
              /\ a = Loop => pc \in {"task", "callback"}

\* The loop's thread has come to label, and its own Start, if it has called
\* one there, has returned.
At(label) == failed = "no" /\ pc = label /\ starting[Loop] = Nothing

\* The callback of t runs.
Firing(t) == pc = "callback" /\ current.timer = t

\* A handler of t is queued as a success or executes, or a Start of t is
\* half way: what no cancel() can stop.
InFlight(t) ==
    \/ \E i \in 1..Len(ready) : /\ ready[i].kind = "wait"
                                /\ ready[i].timer = t /\ ready[i].ok
    \/ pc \in {"callback", "rearm", "rewait"} /\ current.timer = t
    \/ \E a \in Actors : starting[a] # Nothing /\ starting[a].timer = t

-----------------------------------------------------------------------------
(* EventLoop::PostTask and Shutdown.                                       *)

\* Mutant: a loop that does not run takes no task, and says Succeeded.
PostTaskIfRunning(a, k) ==
    /\ CanCall(a)
    /\ fate[k] = "new"
    /\ ready' = IF pc = "outside" THEN ready ELSE Append(ready, TaskHandler(k))
    /\ posted' = Append(posted, k)
    /\ fate' = [fate EXCEPT ![k] = "posted"]
    /\ UNCHANGED <<work, stopped, thread, timer, starting, ran, timerHistory, failed>>

\* Mutant: asio::dispatch for asio::post, which the loop's thread does not queue.
PostTaskDispatched(a, k) ==
    /\ CanCall(a)
    /\ fate[k] = "new"
    /\ IF a = Loop THEN ran' = Append(ran, k) /\ UNCHANGED ready
                   ELSE ready' = Append(ready, TaskHandler(k)) /\ UNCHANGED ran
    /\ posted' = Append(posted, k)
    /\ fate' = [fate EXCEPT ![k] = IF a = Loop THEN "done" ELSE "posted"]
    /\ UNCHANGED <<work, stopped, thread, timer, starting, timerHistory, failed>>

\* Always Succeeded, on a stopped loop too.
PostTask(a, k) ==
    /\ CanCall(a)
    /\ fate[k] = "new"
    /\ ready' = Append(ready, TaskHandler(k))
    /\ posted' = Append(posted, k)
    /\ fate' = [fate EXCEPT ![k] = "posted"]
    /\ UNCHANGED <<work, stopped, thread, timer, starting, ran, timerHistory, failed>>

\* Mutant: only the work guard is released.
ShutdownGraceful(a) ==
    /\ CanCall(a)
    /\ ~stopped
    /\ work' = FALSE
    /\ UNCHANGED <<ready, stopped, thread, timer, starting, taskHistory,
                   timerHistory, failed>>

\* work.reset() and stop() are one step: between them nothing is possible that is
\* not possible before or after them.
Shutdown(a) ==
    /\ CanCall(a)
    /\ ~stopped
    /\ work' = FALSE
    /\ stopped' = TRUE
    /\ UNCHANGED <<ready, thread, timer, starting, taskHistory, timerHistory, failed>>

-----------------------------------------------------------------------------
(* Timer.                                                                  *)

\* Every wait of t that is still pending is queued as aborted.
Cancelled(t) ==
    ready \o [i \in 1..Len(waits[t]) |-> WaitHandler(t, waits[t][i], FALSE)]

\* The constructor exchanges m_impl, which nothing initialised, and deletes
\* what was there unless it happens to be null.  m_cb is not initialised.
MakeTimer(c, t) ==
    /\ CanCall(c)
    /\ life[t] = "none"
    /\ \/ /\ life' = [life EXCEPT ![t] = "alive"]
          /\ callback' \in {[callback EXCEPT ![t] = cb] : cb \in {"null", "garbage"}}
          /\ UNCHANGED <<context, thread, waits, starting, taskHistory,
                         timerHistory, failed>>
       \/ Fail("uninitialised") /\ UNCHANGED hasty

\* SetCallback: the old task, unless m_cb is null, is destroyed - also while
\* it runs.
SetCallback(a, t) ==
    /\ CanCall(a)
    /\ life[t] = "alive"
    /\ \/ /\ callback[t] = "garbage"
          /\ Fail("uninitialised") /\ UNCHANGED hasty
       \/ /\ callback[t] # "garbage" /\ Firing(t)
          /\ Fail("replaced") /\ UNCHANGED hasty
       \/ /\ callback[t] # "garbage" /\ ~Firing(t)
          /\ callback' = [callback EXCEPT ![t] = "set"]
          /\ UNCHANGED <<context, thread, waits, life, starting, taskHistory,
                         timerHistory, failed>>

\* m_timer.expires_after(delay)
StartBegin(a, t, repeat) ==
    /\ CanCall(a)
    /\ life[t] = "alive"
    /\ starts < MaxStarts
    /\ starts' = starts + 1
    /\ ready' = Cancelled(t)
    /\ waits' = [waits EXCEPT ![t] = <<>>]
    /\ starting' = [starting EXCEPT ![a] = [timer |-> t, repeat |-> repeat]]
    /\ UNCHANGED <<work, stopped, thread, life, callback, taskHistory, quiet,
                   keeps, hasty, failed>>

\* m_timer.async_wait(TimerCallback{this, repeat})
StartWait(a) ==
    /\ failed = "no"
    /\ starting[a] # Nothing
    /\ LET t == starting[a].timer IN
       \/ /\ life[t] = "destroyed"
          /\ Fail("misused") /\ UNCHANGED hasty
       \/ /\ life[t] = "alive"
          /\ waits' = [waits EXCEPT ![t] = Append(@, starting[a].repeat)]
          /\ starting' = [starting EXCEPT ![a] = Nothing]
          /\ quiet' = [quiet EXCEPT ![t] = FALSE]
          /\ keeps' = [keeps EXCEPT ![t] = starting[a].repeat]
          /\ UNCHANGED <<context, thread, life, callback, taskHistory, hasty,
                         starts, failed>>

\* Mutant: Stop only forgets the expiry.
StopNothing(a, t) ==
    /\ CanCall(a)
    /\ life[t] = "alive"
    /\ quiet' = [quiet EXCEPT ![t] = ~InFlight(t)]
    /\ keeps' = [keeps EXCEPT ![t] = FALSE]
    /\ UNCHANGED <<context, thread, timer, starting, taskHistory, hasty, starts,
                   failed>>

\* Stop and Timer::Shutdown: m_timer.cancel()
Stop(a, t) ==
    /\ CanCall(a)
    /\ life[t] = "alive"
    /\ ready' = Cancelled(t)
    /\ waits' = [waits EXCEPT ![t] = <<>>]
    /\ quiet' = [quiet EXCEPT ![t] = ~InFlight(t)]
    /\ keeps' = [keeps EXCEPT ![t] = FALSE]
    /\ UNCHANGED <<work, stopped, thread, life, callback, starting, taskHistory,
                   hasty, starts, failed>>

\* ~Timer: Shutdown, ResetImpl, ResetCallback - of a running callback, too.
DestroyTimer(a, t) ==
    /\ CanCall(a)
    /\ life[t] = "alive"
    /\ \/ /\ callback[t] = "garbage"
          /\ Fail("uninitialised") /\ UNCHANGED hasty
       \/ /\ callback[t] # "garbage" /\ Firing(t)
          /\ Fail("dangling") /\ hasty' = TRUE
       \/ /\ callback[t] # "garbage" /\ ~Firing(t)
          /\ ready' = Cancelled(t)
          /\ waits' = [waits EXCEPT ![t] = <<>>]
          /\ life' = [life EXCEPT ![t] = "destroyed"]
          /\ callback' = [callback EXCEPT ![t] = "null"]
          /\ keeps' = [keeps EXCEPT ![t] = FALSE]
          /\ hasty' = (hasty \/ InFlight(t))
          /\ UNCHANGED <<work, stopped, thread, starting, taskHistory, quiet,
                         starts, failed>>

-----------------------------------------------------------------------------
(* The loop's thread.                                                      *)

\* Run and RunOnce.  A stopped io_context returns from both at once.
RunBegin ==
    /\ At("outside")
    /\ ~stopped
    /\ pc' = "wait"
    /\ once' \in BOOLEAN
    /\ UNCHANGED <<context, current, timer, starting, taskHistory, timerHistory, failed>>

\* The time of t's pending waits has come.
Expire(t) ==
    /\ At("wait") /\ ~stopped
    /\ waits[t] # <<>>
    /\ ready' = ready \o [i \in 1..Len(waits[t]) |-> WaitHandler(t, waits[t][i], TRUE)]
    /\ waits' = [waits EXCEPT ![t] = <<>>]
    /\ UNCHANGED <<work, stopped, thread, life, callback, starting, taskHistory,
                   timerHistory, failed>>

\* run() returns: the loop is stopped, or nothing is left to wait for.
Leave ==
    /\ At("wait")
    /\ stopped \/ (~work /\ ready = <<>> /\ \A t \in Timers : waits[t] = <<>>)
    /\ pc' = "outside"
    /\ UNCHANGED <<context, once, current, timer, starting, taskHistory,
                   timerHistory, failed>>

Take(kind) == /\ At("wait") /\ ~stopped
              /\ ready # <<>> /\ Head(ready).kind = kind
              /\ ready' = Tail(ready)
              /\ UNCHANGED <<work, stopped>>

\* Where the thread is when a handler has returned.
Back == IF once THEN "outside" ELSE "wait"

HandleTask ==
    /\ Take("task")
    /\ pc' = "task"
    /\ current' = Head(ready)
    /\ fate' = [fate EXCEPT ![Head(ready).task] = "running"]
    /\ ran' = Append(ran, Head(ready).task)
    /\ UNCHANGED <<once, timer, starting, posted, timerHistory, failed>>

\* (*task)(); task->Destroy();
TaskReturns ==
    /\ At("task")
    /\ fate' = [fate EXCEPT ![current.task] = "done"]
    /\ pc' = Back /\ current' = Nothing
    /\ UNCHANGED <<context, once, timer, starting, posted, ran, timerHistory, failed>>

\* Nothing catches what a task or a callback throws, and both run under
\* noexcept functions.
Throws ==
    /\ At("task") \/ At("callback")
    /\ Fail("exception") /\ UNCHANGED hasty

\* if (ec) return;  The timer of an aborted wait is not touched.
HandleAborted ==
    /\ Take("wait")
    /\ ~Head(ready).ok
    /\ pc' = Back
    /\ UNCHANGED <<once, current, timer, starting, taskHistory, timerHistory, failed>>

\* Mutant: the error code is logged, and no more.
HandleWaitUnchecked ==
    /\ Take("wait")
    /\ LET t == Head(ready).timer IN
       /\ IF life[t] = "destroyed" THEN failed' = "dangling"
          ELSE IF callback[t] = "set" THEN failed' = "no" ELSE failed' = "callback"
       /\ pc' = "callback"
       /\ current' = Head(ready)
    /\ UNCHANGED <<once, timer, starting, taskHistory, timerHistory>>

\* m_timer->Run(): assert(m_cb); (*m_cb)();
HandleWait ==
    /\ Take("wait")
    /\ Head(ready).ok
    /\ LET t == Head(ready).timer IN
       /\ IF life[t] = "destroyed" THEN failed' = "dangling"
          ELSE IF callback[t] = "set" THEN failed' = "no" ELSE failed' = "callback"
       /\ pc' = "callback"
       /\ current' = Head(ready)
    /\ UNCHANGED <<once, timer, starting, taskHistory, timerHistory>>

\* The callback returns; if (m_repeat != 0) the timer is armed again.
CallbackReturns ==
    /\ At("callback")
    /\ \/ current.repeat /\ pc' = "rearm" /\ UNCHANGED current
       \/ ~current.repeat /\ pc' = Back /\ current' = Nothing
    /\ UNCHANGED <<context, once, timer, starting, taskHistory, timerHistory, failed>>

\* m_timer->m_impl->m_timer.expires_after(m_repeat)
RearmExpiry ==
    /\ At("rearm")
    /\ \/ life[current.timer] = "destroyed" /\ Fail("dangling") /\ UNCHANGED hasty
       \/ /\ life[current.timer] = "alive"
          /\ ready' = Cancelled(current.timer)
          /\ waits' = [waits EXCEPT ![current.timer] = <<>>]
          /\ pc' = "rewait"
          /\ UNCHANGED <<work, stopped, once, current, life, callback, starting,
                         taskHistory, timerHistory, failed>>

\* Mutant: the new expiry is not waited for.
RearmWaitMissing ==
    /\ At("rewait")
    /\ \/ life[current.timer] = "destroyed" /\ Fail("dangling") /\ UNCHANGED hasty
       \/ /\ life[current.timer] = "alive"
          /\ pc' = Back /\ current' = Nothing
          /\ UNCHANGED <<context, once, timer, starting, taskHistory,
                         timerHistory, failed>>

\* m_timer->m_impl->m_timer.async_wait(*this)
RearmWait ==
    /\ At("rewait")
    /\ \/ life[current.timer] = "destroyed" /\ Fail("dangling") /\ UNCHANGED hasty
       \/ /\ life[current.timer] = "alive"
          /\ waits' = [waits EXCEPT ![current.timer] = Append(@, current.repeat)]
          /\ pc' = Back /\ current' = Nothing
          /\ UNCHANGED <<context, once, life, callback, starting, taskHistory,
                         timerHistory, failed>>

LoopRuns == \/ RunBegin \/ Leave
            \/ HandleTask \/ TaskReturns \/ HandleAborted \/ HandleWait
            \/ CallbackReturns \/ RearmExpiry \/ RearmWait

-----------------------------------------------------------------------------
Calls == \E a \in Actors :
            \/ \E k \in Tasks : PostTask(a, k)
            \/ Shutdown(a) \/ StartWait(a)
            \/ \E t \in Timers : \/ SetCallback(a, t) \/ Stop(a, t)
                                 \/ DestroyTimer(a, t)
                                 \/ \E repeat \in BOOLEAN : StartBegin(a, t, repeat)

Makes == \E c \in Clients, t \in Timers : MakeTimer(c, t)

Next == Calls \/ Makes \/ LoopRuns \/ Throws \/ \E t \in Timers : Expire(t)

Spec == Init /\ [][Next]_vars

(***************************************************************************)
(* A thread calls Run and is scheduled; tasks, callbacks and calls of Start*)
(* return; and whenever the loop looks at its timers again and again, it   *)
(* sees the time of each one come.  Nobody has to call anything.           *)
(***************************************************************************)
Fairness == /\ WF_vars(LoopRuns)
            /\ \A a \in Actors : WF_vars(StartWait(a))
            /\ \A t \in Timers : SF_vars(Expire(t))

FairSpec == Spec /\ Fairness

-----------------------------------------------------------------------------
(* Properties.                                                             *)

Handlers == [kind : {"task"}, task : Tasks]
            \cup [kind : {"wait"}, timer : Timers, repeat : BOOLEAN, ok : BOOLEAN]

TypeOK ==
    /\ ready \in Seq(Handlers) /\ work \in BOOLEAN /\ stopped \in BOOLEAN
    /\ pc \in {"outside", "wait", "task", "callback", "rearm", "rewait"}
    /\ once \in BOOLEAN
    /\ current \in Handlers \cup {Nothing}
    /\ current = Nothing <=> pc \in {"outside", "wait"}
    /\ waits \in [Timers -> Seq(BOOLEAN)]
    /\ life \in [Timers -> {"none", "alive", "destroyed"}]
    /\ callback \in [Timers -> {"null", "garbage", "set"}]
    /\ starting \in [Actors -> [timer : Timers, repeat : BOOLEAN] \cup {Nothing}]
    /\ fate \in [Tasks -> {"new", "posted", "running", "done"}]
    /\ posted \in Seq(Tasks) /\ ran \in Seq(Tasks)
    /\ quiet \in [Timers -> BOOLEAN] /\ keeps \in [Timers -> BOOLEAN]
    /\ hasty \in BOOLEAN /\ starts \in Nat
    /\ failed \in {"no", "uninitialised", "callback", "replaced", "misused",
                  "dangling", "exception"}

\* Places in posted of the tasks that have not been run, and in ready of theirs.
Due == (Len(ran) + 1)..Len(posted)
QueuedAt(j, i) == ready[j] = TaskHandler(posted[i])

(***************************************************************************)
(* Every task that was posted has been run, once and in the order of the   *)
(* posts, or is still queued, once and in that order, and nothing else is: *)
(* neither timers nor Shutdown nor RunOnce reorder, drop or repeat a task. *)
(***************************************************************************)
TasksInOrder ==
    /\ Len(ran) <= Len(posted)
    /\ \A i \in 1..Len(ran) : ran[i] = posted[i]
    /\ \A i \in Due : \E j \in 1..Len(ready) : QueuedAt(j, i)
    /\ \A j \in 1..Len(ready) : ready[j].kind = "task" => \E i \in Due : QueuedAt(j, i)
    /\ \A i, k \in Due : \A j, l \in 1..Len(ready) :
          QueuedAt(j, i) /\ QueuedAt(l, k) => (i < k <=> j < l)

(***************************************************************************)
(* A Stop that comes while no handler of the timer is on its way is heeded:*)
(* the callback does not run again before the next Start.                  *)
(***************************************************************************)
StopIsHeeded == \A t \in Timers : quiet[t] => ~Firing(t)

(***************************************************************************)
(* Destroying a timer, with waits pending or not, is safe unless one of    *)
(* its handlers is on its way: aborted handlers, which run later, do not   *)
(* touch the timer.                                                        *)
(***************************************************************************)
SafeWhenQuiet == failed = "dangling" => hasty

\* test_threadpool.cpp:33 and 34 wait for a promise that the callback sets,
\* and then destroy the timer whose handler has yet to return.
HandlersTouchLiveTimers == failed # "dangling"

\* A task that was posted is run, unless the loop is shut down first.
TasksRunUnlessStopped ==
    \A k \in Tasks : fate[k] = "posted" ~> fate[k] # "posted" \/ stopped \/ failed # "no"

(***************************************************************************)
(* A timer that was started to repeat fires again and again, unless it is  *)
(* stopped, destroyed or started as a one-shot: no interleaving of Start   *)
(* with the handler's own re-arming loses the wait.                        *)
(***************************************************************************)
RepeatingTimersFire ==
    \A t \in Timers : <>[](keeps[t] /\ ~stopped /\ failed = "no") => []<>Firing(t)

(***************************************************************************)
(* Shutdown makes Run return, whatever is queued, pending or repeating:    *)
(* test_event_source.cpp calls it from a repeating timer's callback and    *)
(* expects the loop's thread to go on.                                     *)
(***************************************************************************)
ShutdownEndsRun == ~work ~> pc = "outside" \/ failed # "no"
=============================================================================
