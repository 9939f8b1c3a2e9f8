----------------------------- MODULE MessageLoop -----------------------------
(***************************************************************************)
(* The message loop of the application's main thread:                      *)
(*   ecs/platform/message_loop/message_loop.{h,cpp}     Run, dispatch, On  *)
(*   ecs/platform/win32/event_loop/message_loop.cpp     PoolEvent, Post    *)
(*   ecs/platform/win32/window/window.cpp               the message box    *)
(*   game/app/app.cpp                                   the listeners      *)
(*                                                                         *)
(* Run takes one native message at a time from the thread's queue and      *)
(* drains the queue of tasks after each.  A message goes through           *)
(* WindowProc to the handler and the listeners of its type of event, whose *)
(* conversion is EventConverter's.  The application's handler of Close     *)
(* asks in a message box, which pumps messages itself: dispatches nest.    *)
(*                                                                         *)
(* Windows is modelled from how the code uses it: posted messages are      *)
(* first in, first out; WM_QUIT is a flag, seen when no posted message is  *)
(* left; a message box takes the user's answer, hands on posted messages   *)
(* meanwhile, and is dismissed by WM_QUIT, which it leaves in place.       *)
(* Left out: the WM_CHAR that TranslateMessage posts after a WM_KEYDOWN; a *)
(* callback that throws, which ends the process as schedule_dispatch is    *)
(* noexcept; and Destroy of the window, which the application never calls. *)
(***************************************************************************)
EXTENDS EventConverter, Sequences

CONSTANTS Window,       \* the application's window
          Events,       \* the events that are posted
          Inputs,       \* the native messages that the user causes
          Junk,         \* what Post's buffer may hold, as [w |-> ., l |-> .]
          NoEvent,      \* in place of the event a message was posted as
          UserTypes,    \* the types that callbacks register listeners for
          MaxCalls,     \* bounds the calls from outside and from listeners
          MaxTasks      \* bounds the tasks in the queue at a time

\* Nobody but the application handles Close.
ASSUME LoopAssumption == /\ MaxCalls \in Nat /\ MaxTasks \in Nat
                         /\ UserTypes \subseteq Types \ {"Close"}
                         /\ Events \subseteq Sendable({Window}) /\ NoEvent \notin Events
                         /\ Junk \subseteq [w : Word \X Word, l : Word \X Word]

VARIABLES queue,       \* posted messages, with the event each was posted as
          quit,        \* PostQuitMessage was called and WM_QUIT not yet seen
          window,      \* "none", "shown", "gone"
          tasks,       \* m_taskQueue, as the number of tasks in it
          schedulers,  \* m_converterStorge and m_converterIndex
          frames,      \* the dispatches under way, the innermost last
          run,         \* "start", "poll", "drain", "ended"
          broken,      \* a container was changed under a dispatch that uses it
          calls        \* counts against MaxCalls

vars == <<queue, quit, window, tasks, schedulers, frames, run, broken, calls>>

Init == /\ queue = <<>> /\ quit = FALSE /\ window = "none" /\ tasks = 0
        /\ schedulers = <<>> /\ frames = <<>> /\ run = "start"
        /\ broken = FALSE /\ calls = 0

\* After that anything may happen, and nothing is claimed.
Intact == ~broken
Top == frames[Len(frames)]
Inner(f) == [frames EXCEPT ![Len(frames)] = f]
Call == calls < MaxCalls /\ calls' = calls + 1

-----------------------------------------------------------------------------
(* What the loop is asked from outside and from its own callbacks *)

\* Post: the event becomes a message in a buffer that held junk.  PostMessage
\* fails for a window that is gone, and may fail besides.
Post(e) == /\ window = "shown"
           /\ \E junk \in Junk :
                 queue' = Append(queue, [msg |-> toNative(e, junk), of |-> e])

\* PostTask, with so many tasks in the queue; it may fail, and says so.
PostTask(left) == left < MaxTasks /\ tasks' = left + 1

PostQuit == quit' = TRUE

\* On: the type's scheduler, made if there is none, gets a listener.  A new
\* scheduler shifts those beside it in their map; a new listener may move the
\* list that a dispatch is walking.
On(t) ==
    IF t \in DOMAIN schedulers
    THEN /\ schedulers' = [schedulers EXCEPT ![t].listeners = Append(@, "user")]
         /\ broken' = \E i \in 1..Len(frames) :
                          frames[i].type = t /\ frames[i].at = "listeners"
    ELSE /\ schedulers' = [u \in DOMAIN schedulers \cup {t} |->
                              IF u = t THEN [listeners |-> <<"user">>, handler |-> "none"]
                                       ELSE schedulers[u]]
         /\ broken' = (frames # <<>>)

\* SetHandler replaces the handler, even one that is being called.
SetHandler(t) ==
    IF t \in DOMAIN schedulers
    THEN /\ schedulers' = [schedulers EXCEPT ![t].handler = "user"]
         /\ broken' = \E i \in 1..Len(frames) :
                          frames[i].type = t /\ frames[i].at # "listeners"
    ELSE /\ schedulers' = [u \in DOMAIN schedulers \cup {t} |->
                              IF u = t THEN [listeners |-> <<>>, handler |-> "user"]
                                       ELSE schedulers[u]]
         /\ broken' = (frames # <<>>)

\* What a task, a handler or a listener does with the loop, where left tasks
\* are in its queue.
Act(left) ==
    \/ tasks' = left /\ UNCHANGED <<queue, quit, schedulers, broken, calls>>
    \/ PostTask(left) /\ UNCHANGED <<queue, quit, schedulers, broken, calls>>
    \/ PostQuit /\ tasks' = left /\ UNCHANGED <<queue, schedulers, broken, calls>>
    \/ /\ Call /\ tasks' = left /\ UNCHANGED quit
       /\ \/ (\E e \in Events : Post(e)) /\ UNCHANGED <<schedulers, broken>>
          \/ (\E t \in UserTypes : On(t) \/ SetHandler(t)) /\ UNCHANGED queue

\* Another thread posts an event or a task.
Outside == /\ Intact /\ Call
           /\ \/ (\E e \in Events : Post(e)) /\ UNCHANGED tasks
              \/ PostTask(tasks) /\ UNCHANGED queue
           /\ UNCHANGED <<quit, window, schedulers, frames, run, broken>>

-----------------------------------------------------------------------------
(* The constructor of App, on the loop's thread, before Run *)

RegisterEvent == [Close      |-> [listeners |-> <<>>, handler |-> "ask"],
                  MousePress |-> [listeners |-> <<"press">>, handler |-> "none"]]

\* The window is created and the application's callbacks registered; or an
\* earlier step failed, is logged, and Run begins without either.
Start == /\ run = "start" /\ run' = "poll"
         /\ \/ window' = "shown" /\ schedulers' = RegisterEvent
            \/ UNCHANGED <<window, schedulers>>
         /\ UNCHANGED <<queue, quit, tasks, frames, broken, calls>>

-----------------------------------------------------------------------------
(* Messages *)

\* DefWindowProc: WM_CLOSE destroys the window and the messages sent to it; rest
\* is what the queue holds.
Default(m, rest) == IF m.msg.message = "WM_CLOSE"
                    THEN window' = "gone" /\ queue' = <<>>
                    ELSE window' = window /\ queue' = rest

\* WindowProc, dispatch: no two types share a message, so a message has one
\* scheduler or none; without one the window's default applies.
WindowProc(m, rest) ==
    LET found == {t \in DOMAIN schedulers : m.msg.message \in nativeMsg[t]} IN
    IF found = {}
    THEN Default(m, rest) /\ UNCHANGED frames
    ELSE /\ \E t \in found :
               frames' = Append(frames, [m |-> m, type |-> t,
                                         event |-> fromNative(t, m.msg),
                                         at |-> "handler", k |-> 0, n |-> 0,
                                         ret |-> TRUE])
         /\ queue' = rest /\ UNCHANGED window

Posted == queue # <<>> /\ WindowProc(Head(queue), Tail(queue)) /\ UNCHANGED calls

\* The user's input, which is looked at when no posted message is left and the
\* quit flag is not up.
Typed == /\ queue = <<>> /\ ~quit /\ window = "shown" /\ Call
         /\ \E msg \in Inputs : WindowProc([msg |-> msg, of |-> NoEvent], <<>>)

\* The end of dispatch: a handler that returned false keeps the message from
\* the window's default.
Return == /\ Intact /\ frames # <<>> /\ Top.at = "listeners" /\ Top.k = Top.n
          /\ frames' = SubSeq(frames, 1, Len(frames) - 1)
          /\ IF Top.ret THEN Default(Top.m, queue) ELSE UNCHANGED <<window, queue>>
          /\ UNCHANGED <<quit, tasks, schedulers, run, broken, calls>>

\* schedule_dispatch: the handler decides ret, and the listeners follow.
\* A plausible slip: the handler is called and its result dropped.
ToListenersHeedless(ret, n) == Inner([Top EXCEPT !.at = "listeners", !.n = n])

ToListeners(ret, n) == Inner([Top EXCEPT !.at = "listeners", !.ret = ret, !.n = n])

Handle ==
    /\ Intact /\ frames # <<>> /\ Top.at = "handler"
    /\ LET s == schedulers[Top.type] IN
       \/ /\ s.handler = "none"
          /\ frames' = ToListeners(TRUE, Len(s.listeners))
          /\ UNCHANGED <<queue, quit, tasks, schedulers, broken, calls>>
       \/ /\ s.handler = "user" /\ Act(tasks)
          /\ \E ret \in BOOLEAN :
                frames' = ToListeners(ret, Len(schedulers'[Top.type].listeners))
       \/ /\ s.handler = "ask"
          /\ frames' = Inner([Top EXCEPT !.at = "box"])
          /\ UNCHANGED <<queue, quit, tasks, schedulers, broken, calls>>
    /\ UNCHANGED <<window, run>>

\* schedule_dispatch, one listener: App::OnMousePress posts a task.
Listen ==
    /\ Intact /\ frames # <<>> /\ Top.at = "listeners" /\ Top.k < Top.n
    /\ IF schedulers[Top.type].listeners[Top.k + 1] = "press"
       THEN /\ PostTask(tasks) \/ UNCHANGED tasks
            /\ UNCHANGED <<queue, quit, schedulers, broken, calls>>
       ELSE Act(tasks)
    /\ frames' = Inner([Top EXCEPT !.k = @ + 1])
    /\ UNCHANGED <<window, run>>

\* The end of HandleMainWindowClose: a yes quits and lets the window close.
Answered(yes) ==
    /\ quit' = (quit \/ yes)
    /\ frames' = ToListeners(yes, Len(schedulers[Top.type].listeners))
    /\ UNCHANGED <<queue, window, tasks, schedulers, run, broken, calls>>

InBox == Intact /\ frames # <<>> /\ Top.at = "box"

\* The user clicks a button.
Click == /\ InBox /\ window = "shown"
         /\ \/ Answered(TRUE)
            \/ Answered(FALSE)

\* The box goes without an answer: its owner is gone, or the quit flag is up.
Dismissed == /\ InBox
             /\ window = "gone" \/ (quit /\ queue = <<>>)
             /\ Answered(FALSE)

\* The box hands on a posted message.  Its owner takes no input meanwhile.
BoxPumps == /\ InBox /\ window = "shown" /\ Posted
            /\ UNCHANGED <<quit, tasks, schedulers, run, broken>>

-----------------------------------------------------------------------------
(* Run *)

\* PoolEvent takes a message, or finds none, and the tasks are next.
PoolEvent == /\ Intact /\ run = "poll" /\ frames = <<>>
             /\ \/ Posted \/ Typed
                \/ queue = <<>> /\ ~quit /\ UNCHANGED <<queue, window, frames, calls>>
             /\ run' = "drain"
             /\ UNCHANGED <<quit, tasks, schedulers, broken>>

\* A plausible slip: PoolEvent returns PeekMessage's result, which WM_QUIT makes
\* true as every other message does.
PoolQuitUnseen == /\ Intact /\ run = "poll" /\ frames = <<>> /\ queue = <<>> /\ quit
                  /\ quit' = FALSE /\ run' = "drain"
                  /\ UNCHANGED <<queue, window, tasks, schedulers, frames, broken, calls>>

\* PoolEvent takes WM_QUIT: Run returns, whatever tasks are left.
PoolQuit == /\ Intact /\ run = "poll" /\ frames = <<>> /\ queue = <<>> /\ quit
            /\ quit' = FALSE /\ run' = "ended"
            /\ UNCHANGED <<queue, window, tasks, schedulers, frames, broken, calls>>

\* A task runs; it returns, or throws and is logged.
RunTask == /\ Intact /\ run = "drain" /\ frames = <<>> /\ tasks > 0
           /\ Act(tasks - 1)
           /\ UNCHANGED <<window, frames, run>>

\* try_dequeue finds no task.
Drained == /\ Intact /\ run = "drain" /\ frames = <<>> /\ tasks = 0
           /\ run' = "poll"
           /\ UNCHANGED <<queue, quit, window, tasks, schedulers, frames, broken, calls>>

LoopStep == \/ Start \/ Return \/ Handle \/ Listen \/ Dismissed \/ BoxPumps
            \/ PoolEvent \/ PoolQuit \/ RunTask \/ Drained

Next == LoopStep \/ Click \/ Outside

\* The loop's thread goes on; users and other threads need not do anything.
Spec == Init /\ [][Next]_vars /\ WF_vars(LoopStep)

-----------------------------------------------------------------------------
(* Properties *)

\* A wheel that turns up or down only: its message, WM_MOUSEWHEEL, is that of no
\* type (event_converter.cpp:375 against :383-385).
Upright(e) == e.type = "MouseWheel" /\ e.delta_x = 0

\* A dispatch to the type of e begins, with e but for what ComesOutAs excepts.
Dispatches(e) == /\ Len(frames') = Len(frames) + 1
                 /\ LET f == frames'[Len(frames')]
                    IN  f.type = e.type /\ f.at = "handler" /\ ComesOutAs(e, f.event)

\* Whoever takes a posted event from the queue, PoolEvent or a message box, begins a
\* dispatch of it to the handler and the listeners of its own type, whatever junk its
\* converter left in the message.  If there is nobody for that type, and if a wheel
\* turned up or down only, nobody is called, of another type neither.
ArrivesAsPosted ==
    [][Len(queue') < Len(queue) /\ window' = window =>
           LET e == Head(queue).of
           IN  IF e.type \in DOMAIN schedulers /\ ~Upright(e)
               THEN Dispatches(e) ELSE UNCHANGED frames]_vars

\* The window goes only where the user was asked, said yes and the loop was told
\* to quit, in whatever box of those that are open over one another: no loop is
\* left running for a window that is gone.
WindowGoneMeansQuit == Intact /\ window = "gone" => quit \/ run = "ended"

\* A loop that was told to quit ends, though boxes wait for answers and messages
\* for their turn; unless tasks that post tasks keep it from ever looking.
QuitEndsRun == []<>(run # "drain" \/ frames # <<>>)
                  => (quit ~> (run = "ended" \/ ~Intact))
=============================================================================
