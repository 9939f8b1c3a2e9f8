--------------------------- MODULE EventLoopProofs ---------------------------
(***************************************************************************)
(* Proofs about EventLoop for any number of clients, timers and tasks: a   *)
(* timer that was stopped in time is silent, one that was destroyed in     *)
(* time is left alone, and tasks run in the order they were posted in.     *)
(***************************************************************************)
EXTENDS EventLoop, TLAPS

\* A handler that will run the callback of t.
Fires(h, t) == h.kind = "wait" /\ h.timer = t /\ h.ok

NoneQueued(s, t) == \A i \in 1..Len(s) : ~Fires(s[i], t)

\* Nothing that runs t's callback or arms t again is pending, queued or under way.
Mute(t) == /\ waits[t] = <<>>
           /\ NoneQueued(ready, t)
           /\ ~(pc \in {"callback", "rearm", "rewait"} /\ current.timer = t)

Started(t) == \E a \in Actors : starting[a] # Nothing /\ starting[a].timer = t

Types == /\ ready \in Seq(Handlers)
         /\ waits \in [Timers -> Seq(BOOLEAN)]
         /\ life \in [Timers -> {"none", "alive", "destroyed"}]
         /\ starting \in [Actors -> [timer : Timers, repeat : BOOLEAN] \cup {Nothing}]
         /\ quiet \in [Timers -> BOOLEAN] /\ hasty \in BOOLEAN
         /\ pc \in {"callback", "rearm", "rewait"} =>
                current.timer \in Timers /\ current.repeat \in BOOLEAN

QuietInv == \A t \in Timers : quiet[t] => Mute(t)

DeadInv == ~hasty => \A t \in Timers : life[t] = "destroyed" => Mute(t) /\ ~Started(t)

FailInv == failed = "dangling" => hasty

Inv == Types /\ QuietInv /\ DeadInv /\ FailInv

-----------------------------------------------------------------------------
(* The queue of handlers *)

LEMMA JoinShape ==
    ASSUME NEW s \in Seq(Handlers), NEW q \in Seq(Handlers)
    PROVE  /\ s \o q \in Seq(Handlers)
           /\ \A i \in 1..Len(s \o q) : \/ i \in 1..Len(s) /\ (s \o q)[i] = s[i]
                                        \/ \E j \in 1..Len(q) : (s \o q)[i] = q[j]
<1>1. s \o q \in Seq(Handlers) /\ Len(s \o q) = Len(s) + Len(q)
  OBVIOUS
<1>2. Len(s) \in Nat /\ Len(q) \in Nat
  OBVIOUS
<1>3. ASSUME NEW i \in 1..Len(s \o q)
      PROVE  \/ i \in 1..Len(s) /\ (s \o q)[i] = s[i]
             \/ \E j \in 1..Len(q) : (s \o q)[i] = q[j]
  <2>1. CASE i <= Len(s)
    BY <1>1, <1>2, <2>1
  <2>2. CASE i > Len(s)
    <3>1. i - Len(s) \in 1..Len(q)
      BY <1>1, <1>2, <2>2
    <3>2. (s \o q)[i] = q[i - Len(s)]
      BY <1>1, <1>2, <2>2
    <3> QED
      BY <3>1, <3>2
  <2> QED
    BY <1>1, <1>2, <2>1, <2>2
<1> QED
  BY <1>1, <1>3

\* The waits of u as handlers, which succeed or are aborted.
Waited(u, ok) == [i \in 1..Len(waits[u]) |-> WaitHandler(u, waits[u][i], ok)]

LEMMA WaitedShape ==
    ASSUME Types, NEW u \in Timers, NEW ok \in BOOLEAN
    PROVE  /\ Waited(u, ok) \in Seq(Handlers)
           /\ \A j \in 1..Len(Waited(u, ok)) :
                 Waited(u, ok)[j].timer = u /\ Waited(u, ok)[j].ok = ok
<1>1. waits[u] \in Seq(BOOLEAN) /\ Len(waits[u]) \in Nat
  BY DEF Types
<1>2. \A i \in 1..Len(waits[u]) : WaitHandler(u, waits[u][i], ok) \in Handlers
  BY <1>1 DEF WaitHandler, Handlers
<1>3. /\ Waited(u, ok) \in Seq(Handlers) /\ Len(Waited(u, ok)) = Len(waits[u])
      /\ \A i \in 1..Len(waits[u]) : Waited(u, ok)[i] = WaitHandler(u, waits[u][i], ok)
  BY <1>1, <1>2 DEF Waited
<1>4. \A i \in 1..Len(waits[u]) : WaitHandler(u, waits[u][i], ok).timer = u
                                  /\ WaitHandler(u, waits[u][i], ok).ok = ok
  BY DEF WaitHandler
<1> QED
  BY ONLY <1>3, <1>4

\* What is added to the queue fires no timer that it does not mention.
LEMMA JoinMute ==
    ASSUME NEW s \in Seq(Handlers), NEW q \in Seq(Handlers), NEW t,
           NoneQueued(s, t), \A j \in 1..Len(q) : ~Fires(q[j], t)
    PROVE  NoneQueued(s \o q, t)
<1> SUFFICES ASSUME NEW i \in 1..Len(s \o q) PROVE ~Fires((s \o q)[i], t)
  BY DEF NoneQueued
<1>1. \/ i \in 1..Len(s) /\ (s \o q)[i] = s[i]
      \/ \E j \in 1..Len(q) : (s \o q)[i] = q[j]
  BY JoinShape
<1>2. CASE i \in 1..Len(s) /\ (s \o q)[i] = s[i]
  <2>1. ~Fires(s[i], t)
    BY <1>2 DEF NoneQueued
  <2> QED
    BY <1>2, <2>1
<1>3. CASE \E j \in 1..Len(q) : (s \o q)[i] = q[j]
  <2>1. PICK j \in 1..Len(q) : (s \o q)[i] = q[j]
    BY <1>3
  <2>2. ~Fires(q[j], t)
    OBVIOUS
  <2> QED
    BY <2>1, <2>2
<1> QED
  BY <1>1, <1>2, <1>3

\* Aborted handlers run no callback.
LEMMA CancelShape ==
    ASSUME Types, NEW u \in Timers
    PROVE  /\ Cancelled(u) \in Seq(Handlers)
           /\ \A t \in Timers : NoneQueued(ready, t) => NoneQueued(Cancelled(u), t)
<1>1. ready \in Seq(Handlers) /\ Waited(u, FALSE) \in Seq(Handlers)
  BY WaitedShape DEF Types
<1>2. Cancelled(u) = ready \o Waited(u, FALSE)
  BY DEF Cancelled, Waited
<1>3. \A t \in Timers : \A j \in 1..Len(Waited(u, FALSE)) : ~Fires(Waited(u, FALSE)[j], t)
  BY WaitedShape DEF Fires
<1> QED
  BY ZenonT(40), <1>1, <1>2, <1>3, JoinShape, JoinMute

LEMMA ExpireShape ==
    ASSUME Types, NEW u \in Timers
    PROVE  /\ ready \o Waited(u, TRUE) \in Seq(Handlers)
           /\ \A t \in Timers \ {u} :
                 NoneQueued(ready, t) => NoneQueued(ready \o Waited(u, TRUE), t)
<1>1. ready \in Seq(Handlers) /\ Waited(u, TRUE) \in Seq(Handlers)
  BY WaitedShape DEF Types
<1>2. \A t \in Timers \ {u} :
         \A j \in 1..Len(Waited(u, TRUE)) : ~Fires(Waited(u, TRUE)[j], t)
  <2>1. \A j \in 1..Len(Waited(u, TRUE)) : Waited(u, TRUE)[j].timer = u
    BY WaitedShape
  <2> QED
    BY <2>1 DEF Fires
<1> QED
  BY <1>1, <1>2, JoinShape, JoinMute

LEMMA TailShape ==
    ASSUME Types, ready # <<>>
    PROVE  /\ Tail(ready) \in Seq(Handlers)
           /\ \A t \in Timers : NoneQueued(ready, t) =>
                 NoneQueued(Tail(ready), t) /\ ~Fires(Head(ready), t)
<1>1. /\ ready \in Seq(Handlers) /\ Len(ready) \in Nat \ {0} /\ Head(ready) = ready[1]
  BY DEF Types
<1>2. /\ Tail(ready) \in Seq(Handlers) /\ Len(Tail(ready)) = Len(ready) - 1
      /\ \A i \in 1..Len(Tail(ready)) : Tail(ready)[i] = ready[i + 1]
  BY <1>1
<1>3. \A i \in 1..Len(Tail(ready)) : i + 1 \in 1..Len(ready)
  BY <1>1, <1>2
<1> QED
  BY <1>1, <1>2, <1>3 DEF NoneQueued

-----------------------------------------------------------------------------
(* What a step has to leave alone *)

\* Mute timers stay mute, unless they are started; none is stopped or destroyed,
\* and no destroyed one is started.
Keeps(t) == /\ (Mute(t) => Mute(t)') \/ (~quiet'[t] /\ life'[t] # "destroyed")
            /\ quiet'[t] => quiet[t]
            /\ life'[t] = "destroyed" => /\ life[t] = "destroyed"
                                         /\ Started(t)' => Started(t)

LEMMA StepKeeps ==
    ASSUME Inv, Types', \A t \in Timers : Keeps(t), hasty' = hasty,
           failed' = "dangling" => hasty
    PROVE  Inv'
<1>1. QuietInv'
  BY DEF Inv, QuietInv, Keeps
<1>2. DeadInv'
  BY DEF Inv, DeadInv, Keeps
<1> QED
  BY <1>1, <1>2 DEF Inv, FailInv

\* The process goes down.
LEMMA FailKeeps ==
    ASSUME Inv, NEW why, Fail(why), hasty' = hasty, why = "dangling" => hasty
    PROVE  Inv'
<1>1. UNCHANGED <<ready, pc, current, waits, life, starting, quiet>> /\ failed' = why
  BY DEF Fail, context, thread, timer
<1>2. Types'
  BY <1>1 DEF Inv, Types
<1>3. \A t \in Timers : Keeps(t)
  BY <1>1 DEF Keeps, Mute, Started
<1> QED
  BY <1>1, <1>2, <1>3, StepKeeps

\* A handler in the hands of the loop's thread keeps its timer from being mute.
LEMMA Underway ==
    ASSUME Inv, pc \in {"callback", "rearm", "rewait"}, life[current.timer] = "destroyed"
    PROVE  hasty
BY DEF Inv, Types, DeadInv, Mute

-----------------------------------------------------------------------------
(* The calls *)

LEMMA PostTaskKeeps ==
    ASSUME Inv, NEW a \in Actors, NEW k \in Tasks, PostTask(a, k) PROVE Inv'
<1> DEFINE h == TaskHandler(k)
<1>1. h \in Handlers /\ h.kind = "task"
  BY DEF TaskHandler, Handlers
<1>2. /\ ready' = Append(ready, h) /\ UNCHANGED <<pc, current, waits, life, starting, quiet>>
      /\ hasty' = hasty /\ failed' = failed /\ ready \in Seq(Handlers)
  BY DEF PostTask, thread, timer, timerHistory, Inv, Types
<1> HIDE DEF h
<1>3. /\ ready' \in Seq(Handlers) /\ Len(ready') = Len(ready) + 1
      /\ \A i \in 1..Len(ready') : ready'[i] = h \/ (i \in 1..Len(ready) /\ ready'[i] = ready[i])
  BY <1>1, <1>2
<1>4. \A t \in Timers : NoneQueued(ready, t) => NoneQueued(ready', t)
  BY <1>1, <1>3 DEF NoneQueued, Fires
<1>5. Types'
  BY <1>2, <1>3 DEF Inv, Types
<1>6. \A t \in Timers : Keeps(t)
  BY <1>2, <1>4 DEF Keeps, Mute, Started
<1> QED
  BY <1>2, <1>5, <1>6, StepKeeps DEF Inv, FailInv

LEMMA ShutdownKeeps == ASSUME Inv, NEW a \in Actors, Shutdown(a) PROVE Inv'
<1>1. /\ UNCHANGED <<ready, pc, current, waits, life, starting, quiet>>
      /\ hasty' = hasty /\ failed' = failed
  BY DEF Shutdown, thread, timer, timerHistory
<1>2. Types'
  BY <1>1 DEF Inv, Types
<1>3. \A t \in Timers : Keeps(t)
  BY <1>1 DEF Keeps, Mute, Started
<1> QED
  BY <1>1, <1>2, <1>3, StepKeeps DEF Inv, FailInv

LEMMA MakeTimerKeeps ==
    ASSUME Inv, NEW c \in Clients, NEW u \in Timers, MakeTimer(c, u) PROVE Inv'
<1>1. CASE Fail("uninitialised") /\ UNCHANGED hasty
  BY <1>1, FailKeeps
<1>2. CASE /\ life' = [life EXCEPT ![u] = "alive"]
           /\ UNCHANGED <<context, thread, waits, starting, taskHistory,
                         timerHistory, failed>>
  <2>1. /\ UNCHANGED <<ready, pc, current, waits, starting, quiet>>
        /\ hasty' = hasty /\ failed' = failed
    BY <1>2 DEF context, thread, timerHistory
  <2>2. Types'
    BY <1>2, <2>1 DEF Inv, Types
  <2>3. \A t \in Timers : life'[t] = "destroyed" => life[t] = "destroyed"
    BY <1>2 DEF Inv, Types
  <2>4. \A t \in Timers : Keeps(t)
    BY <2>1, <2>3 DEF Keeps, Mute, Started
  <2> QED
    BY <2>1, <2>2, <2>4, StepKeeps DEF Inv, FailInv
<1> QED
  BY <1>1, <1>2 DEF MakeTimer

LEMMA SetCallbackKeeps ==
    ASSUME Inv, NEW a \in Actors, NEW u \in Timers, SetCallback(a, u) PROVE Inv'
<1>1. CASE \E why \in {"uninitialised", "replaced"} : Fail(why) /\ UNCHANGED hasty
  BY <1>1, FailKeeps
<1>2. CASE UNCHANGED <<context, thread, waits, life, starting, taskHistory,
                       timerHistory, failed>>
  <2>1. /\ UNCHANGED <<ready, pc, current, waits, life, starting, quiet>>
        /\ hasty' = hasty /\ failed' = failed
    BY <1>2 DEF context, thread, timerHistory
  <2>2. Types'
    BY <2>1 DEF Inv, Types
  <2>3. \A t \in Timers : Keeps(t)
    BY <2>1 DEF Keeps, Mute, Started
  <2> QED
    BY <2>1, <2>2, <2>3, StepKeeps DEF Inv, FailInv
<1> QED
  BY <1>1, <1>2 DEF SetCallback

LEMMA StartBeginKeeps ==
    ASSUME Inv, NEW a \in Actors, NEW u \in Timers, NEW repeat \in BOOLEAN,
           StartBegin(a, u, repeat)
    PROVE  Inv'
<1>1. /\ ready' = Cancelled(u) /\ waits' = [waits EXCEPT ![u] = <<>>]
      /\ starting' = [starting EXCEPT ![a] = [timer |-> u, repeat |-> repeat]]
      /\ UNCHANGED <<pc, current, life, quiet>> /\ hasty' = hasty /\ failed' = failed
      /\ life[u] = "alive" /\ Types
  BY DEF StartBegin, thread, Inv
<1>2. Types'
  <2>1. ready' \in Seq(Handlers)
    BY <1>1, CancelShape
  <2>2. <<>> \in Seq(BOOLEAN) /\ [timer |-> u, repeat |-> repeat] \in [timer : Timers, repeat : BOOLEAN]
    OBVIOUS
  <2>3. waits' \in [Timers -> Seq(BOOLEAN)]
    BY <1>1, <2>2 DEF Types
  <2>4. starting' \in [Actors -> [timer : Timers, repeat : BOOLEAN] \cup {Nothing}]
    BY <1>1, <2>2 DEF Types
  <2> QED
    BY <1>1, <2>1, <2>3, <2>4 DEF Types
<1>3. \A t \in Timers : waits[t] = <<>> => waits'[t] = <<>>
  BY <1>1 DEF Types
<1>4. \A t \in Timers : Mute(t) => Mute(t)'
  BY <1>1, <1>3, CancelShape DEF Mute
<1>5. \A t \in Timers \ {u} : Started(t)' => Started(t)
  BY <1>1 DEF Started, Types
<1>6. \A t \in Timers : Keeps(t)
  BY <1>1, <1>4, <1>5 DEF Keeps
<1> QED
  BY <1>1, <1>2, <1>6, StepKeeps DEF Inv, FailInv

LEMMA StartWaitKeeps == ASSUME Inv, NEW a \in Actors, StartWait(a) PROVE Inv'
<1> DEFINE u == starting[a].timer
           r == starting[a].repeat
<1>1. CASE Fail("misused") /\ UNCHANGED hasty
  BY <1>1, FailKeeps
<1>2. CASE /\ life[u] = "alive"
           /\ waits' = [waits EXCEPT ![u] = Append(@, r)]
           /\ starting' = [starting EXCEPT ![a] = Nothing]
           /\ quiet' = [quiet EXCEPT ![u] = FALSE]
           /\ UNCHANGED <<context, thread, life, hasty, failed>>
  <2>0. Types /\ starting[a] # Nothing
    BY DEF Inv, StartWait
  <2>1. u \in Timers /\ r \in BOOLEAN
    BY <2>0 DEF Types
  <2> HIDE DEF u, r
  <2>2. UNCHANGED <<ready, pc, current, life>>
    BY <1>2 DEF context, thread
  <2>3. waits[u] \in Seq(BOOLEAN)
    BY <2>0, <2>1 DEF Types
  <2>4. Append(waits[u], r) \in Seq(BOOLEAN)
    BY <2>1, <2>3
  <2>5. waits' = [waits EXCEPT ![u] = Append(waits[u], r)]
    BY <1>2
  <2>6. /\ waits' \in [Timers -> Seq(BOOLEAN)]
        /\ \A t \in Timers \ {u} : waits'[t] = waits[t]
    BY <2>0, <2>1, <2>4, <2>5 DEF Types
  <2>7. /\ quiet' \in [Timers -> BOOLEAN] /\ ~quiet'[u]
        /\ \A t \in Timers \ {u} : quiet'[t] = quiet[t]
    BY <1>2, <2>0, <2>1 DEF Types
  <2>8. /\ starting' \in [Actors -> [timer : Timers, repeat : BOOLEAN] \cup {Nothing}]
        /\ \A b \in Actors : starting'[b] = Nothing \/ starting'[b] = starting[b]
    BY <1>2, <2>0 DEF Types
  <2>9. Types'
    BY <1>2, <2>0, <2>2, <2>6, <2>7, <2>8 DEF Types
  <2>10. \A t \in Timers : Started(t)' => Started(t)
    BY <2>8 DEF Started
  <2>11. \A t \in Timers \ {u} : Mute(t) => Mute(t)'
    BY <2>2, <2>6 DEF Mute
  <2>12. \A t \in Timers : Keeps(t)
    BY <1>2, <2>2, <2>7, <2>10, <2>11 DEF Keeps
  <2> QED
    BY <1>2, <2>9, <2>12, StepKeeps DEF Inv, FailInv
<1> QED
  BY <1>1, <1>2 DEF StartWait

\* What was not in flight when it was stopped is mute then.
LEMMA CancelMutes ==
    ASSUME Types, NEW u \in Timers, ~InFlight(u), ready' = Cancelled(u),
           waits' = [waits EXCEPT ![u] = <<>>], UNCHANGED <<pc, current>>
    PROVE  Mute(u)' /\ ~Started(u)
<1>1. ~Started(u) /\ NoneQueued(ready, u)
      /\ ~(pc \in {"callback", "rearm", "rewait"} /\ current.timer = u)
  BY DEF InFlight, Started, NoneQueued, Fires
<1>2. waits'[u] = <<>>
  BY DEF Types
<1> QED
  BY <1>1, <1>2, CancelShape DEF Mute

LEMMA CancelKeeps ==
    ASSUME Types, NEW u \in Timers, ready' = Cancelled(u),
           waits' = [waits EXCEPT ![u] = <<>>], UNCHANGED <<pc, current>>
    PROVE  /\ ready' \in Seq(Handlers) /\ waits' \in [Timers -> Seq(BOOLEAN)]
           /\ \A t \in Timers : Mute(t) => Mute(t)'
<1>1. <<>> \in Seq(BOOLEAN)
  OBVIOUS
<1>2. /\ waits' \in [Timers -> Seq(BOOLEAN)]
      /\ \A t \in Timers : waits[t] = <<>> => waits'[t] = <<>>
  BY <1>1 DEF Types
<1>3. \A t \in Timers : Mute(t) => Mute(t)'
  BY <1>2, CancelShape DEF Mute
<1> QED
  BY <1>2, <1>3, CancelShape

LEMMA StopKeeps ==
    ASSUME Inv, NEW a \in Actors, NEW u \in Timers, Stop(a, u) PROVE Inv'
<1>1. /\ ready' = Cancelled(u) /\ waits' = [waits EXCEPT ![u] = <<>>]
      /\ quiet' = [quiet EXCEPT ![u] = ~InFlight(u)]
      /\ UNCHANGED <<pc, current, life, starting>> /\ hasty' = hasty /\ failed' = failed
      /\ Types
  BY DEF Stop, thread, Inv
<1>2. /\ ready' \in Seq(Handlers) /\ waits' \in [Timers -> Seq(BOOLEAN)]
      /\ \A t \in Timers : Mute(t) => Mute(t)'
  BY <1>1, CancelKeeps
<1>3. InFlight(u) \in BOOLEAN
  BY DEF InFlight
<1>4. /\ quiet' \in [Timers -> BOOLEAN] /\ (quiet'[u] => ~InFlight(u))
      /\ \A t \in Timers \ {u} : quiet'[t] = quiet[t]
  BY <1>1, <1>3 DEF Types
<1>5. Types'
  BY <1>1, <1>2, <1>4 DEF Types
<1>6. ~InFlight(u) => Mute(u)'
  BY <1>1, CancelMutes
<1>7. QuietInv'
  BY <1>2, <1>4, <1>6 DEF Inv, QuietInv
<1>8. DeadInv' /\ FailInv'
  BY <1>1, <1>2 DEF Inv, DeadInv, FailInv, Started
<1> QED
  BY <1>5, <1>7, <1>8 DEF Inv

LEMMA DestroyTimerKeeps ==
    ASSUME Inv, NEW a \in Actors, NEW u \in Timers, DestroyTimer(a, u) PROVE Inv'
<1>1. CASE Fail("uninitialised") /\ UNCHANGED hasty
  BY <1>1, FailKeeps
<1>2. CASE Fail("dangling") /\ hasty' = TRUE
  <2>1. UNCHANGED <<ready, pc, current, waits, life, starting, quiet>>
    BY <1>2 DEF Fail, context, thread, timer
  <2> QED
    BY <1>2, <2>1 DEF Inv, Types, QuietInv, Mute, DeadInv, FailInv
<1>3. CASE /\ ready' = Cancelled(u) /\ waits' = [waits EXCEPT ![u] = <<>>]
           /\ life' = [life EXCEPT ![u] = "destroyed"]
           /\ hasty' = (hasty \/ InFlight(u))
           /\ UNCHANGED <<thread, starting, quiet, failed>>
  <2>1. Types /\ UNCHANGED <<pc, current>>
    BY <1>3 DEF Inv, thread
  <2>2. /\ ready' \in Seq(Handlers) /\ waits' \in [Timers -> Seq(BOOLEAN)]
        /\ \A t \in Timers : Mute(t) => Mute(t)'
    BY <1>3, <2>1, CancelKeeps
  <2>3. /\ life' \in [Timers -> {"none", "alive", "destroyed"}]
        /\ \A t \in Timers \ {u} : life'[t] = life[t]
    BY <1>3, <2>1 DEF Types
  <2>4. hasty' \in BOOLEAN /\ (hasty => hasty') /\ (~hasty' => ~InFlight(u))
    BY <1>3, <2>1 DEF Types, InFlight
  <2>5. Types'
    BY <1>3, <2>1, <2>2, <2>3, <2>4 DEF Types
  <2>6. ~InFlight(u) => Mute(u)' /\ ~Started(u)
    BY <1>3, <2>1, CancelMutes
  <2>7. QuietInv'
    BY <1>3, <2>2 DEF Inv, QuietInv
  <2>8. \A t \in Timers : Started(t)' <=> Started(t)
    BY <1>3 DEF Started
  <2>9. DeadInv'
    BY <2>2, <2>3, <2>4, <2>6, <2>8 DEF Inv, DeadInv
  <2>10. FailInv'
    BY <1>3, <2>4 DEF Inv, FailInv
  <2> QED
    BY <2>5, <2>7, <2>9, <2>10 DEF Inv
<1> QED
  BY <1>1, <1>2, <1>3 DEF DestroyTimer

-----------------------------------------------------------------------------
(* The loop's thread *)

LEMMA ExpireKeeps == ASSUME Inv, NEW u \in Timers, Expire(u) PROVE Inv'
<1>1. /\ ready' = ready \o Waited(u, TRUE) /\ waits' = [waits EXCEPT ![u] = <<>>]
      /\ waits[u] # <<>>
      /\ UNCHANGED <<pc, current, life, starting, quiet>> /\ hasty' = hasty /\ failed' = failed
      /\ Types
  BY DEF Expire, Waited, thread, timerHistory, Inv
<1>2. <<>> \in Seq(BOOLEAN)
  OBVIOUS
<1>3. /\ waits' \in [Timers -> Seq(BOOLEAN)]
      /\ \A t \in Timers : waits[t] = <<>> => waits'[t] = <<>>
  BY <1>1, <1>2 DEF Types
<1>4. ready' \in Seq(Handlers)
  BY <1>1, ExpireShape
<1>5. Types'
  BY <1>1, <1>3, <1>4 DEF Types
<1>6. \A t \in Timers : Mute(t) => Mute(t)'
  <2> SUFFICES ASSUME NEW t \in Timers, Mute(t) PROVE Mute(t)'
    OBVIOUS
  <2>1. t # u
    BY <1>1 DEF Mute
  <2>2. NoneQueued(ready', t)
    BY <1>1, <2>1, ExpireShape DEF Mute
  <2> QED
    BY <1>1, <1>3, <2>2 DEF Mute
<1>7. \A t \in Timers : Keeps(t)
  BY <1>1, <1>6 DEF Keeps, Started
<1> QED
  BY <1>1, <1>5, <1>7, StepKeeps DEF Inv, FailInv

\* The handler that is taken is one that no mute timer has.
LEMMA TakeKeeps ==
    ASSUME Inv, NEW kind, Take(kind)
    PROVE  /\ ready' \in Seq(Handlers) /\ Head(ready) \in Handlers
           /\ Head(ready).kind = kind
           /\ \A t \in Timers : Mute(t) => NoneQueued(ready', t) /\ ~Fires(Head(ready), t)
<1>1. /\ ready # <<>> /\ ready' = Tail(ready) /\ Head(ready).kind = kind /\ Types
      /\ ready \in Seq(Handlers)
  BY DEF Take, Inv, Types
<1> QED
  BY <1>1, TailShape DEF Mute

LEMMA HandleTaskKeeps == ASSUME Inv, HandleTask PROVE Inv'
<1>1. /\ pc' = "task" /\ UNCHANGED <<waits, life, starting, quiet>>
      /\ hasty' = hasty /\ failed' = failed
  BY DEF HandleTask, timer, timerHistory
<1>2. ready' \in Seq(Handlers) /\ \A t \in Timers : Mute(t) => NoneQueued(ready', t)
  BY TakeKeeps DEF HandleTask
<1>3. Types'
  BY <1>1, <1>2 DEF Inv, Types
<1>4. \A t \in Timers : Keeps(t)
  BY <1>1, <1>2 DEF Keeps, Mute, Started
<1> QED
  BY <1>1, <1>3, <1>4, StepKeeps DEF Inv, FailInv

LEMMA HandleAbortedKeeps == ASSUME Inv, HandleAborted PROVE Inv'
<1>1. /\ pc' \in {"outside", "wait"} /\ UNCHANGED <<waits, life, starting, quiet>>
      /\ hasty' = hasty /\ failed' = failed
  BY DEF HandleAborted, Back, timer, timerHistory
<1>2. ready' \in Seq(Handlers) /\ \A t \in Timers : Mute(t) => NoneQueued(ready', t)
  BY TakeKeeps DEF HandleAborted
<1>3. Types'
  BY <1>1, <1>2 DEF Inv, Types
<1>4. \A t \in Timers : Keeps(t)
  BY <1>1, <1>2 DEF Keeps, Mute, Started
<1> QED
  BY <1>1, <1>3, <1>4, StepKeeps DEF Inv, FailInv

\* A callback is run of no mute timer, so of a destroyed one only in haste.
LEMMA HandleWaitKeeps == ASSUME Inv, HandleWait PROVE Inv'
<1> DEFINE h == Head(ready)
<1>1. /\ pc' = "callback" /\ current' = h /\ h.ok
      /\ UNCHANGED <<waits, life, starting, quiet>> /\ hasty' = hasty
      /\ failed' = "dangling" => life[h.timer] = "destroyed"
  BY DEF HandleWait, timer, timerHistory
<1>2. /\ ready' \in Seq(Handlers) /\ h \in Handlers /\ h.kind = "wait"
      /\ \A t \in Timers : Mute(t) => NoneQueued(ready', t) /\ ~Fires(h, t)
  BY TakeKeeps DEF HandleWait
<1> HIDE DEF h
<1>3. h.timer \in Timers /\ h.repeat \in BOOLEAN
  BY <1>2 DEF Handlers
<1>4. Types'
  BY <1>1, <1>2, <1>3 DEF Inv, Types
<1>5. \A t \in Timers : Mute(t) => h.timer # t
  BY <1>1, <1>2 DEF Fires
<1>6. \A t \in Timers : Keeps(t)
  BY <1>1, <1>2, <1>5 DEF Keeps, Mute, Started
<1>7. failed' = "dangling" => hasty
  BY <1>1, <1>3, <1>5 DEF Inv, DeadInv
<1> QED
  BY <1>1, <1>4, <1>6, <1>7, StepKeeps

\* Steps of the thread that change nothing but where it is.
LEMMA MovesKeep ==
    ASSUME Inv, UNCHANGED <<ready, waits, life, starting, quiet, hasty, failed>>,
           \/ pc' \notin {"callback", "rearm", "rewait"}
           \/ pc \in {"callback", "rearm", "rewait"} /\ current' = current
    PROVE  Inv'
<1>1. Types'
  BY DEF Inv, Types
<1>2. \A t \in Timers : Keeps(t)
  BY DEF Keeps, Mute, Started
<1> QED
  BY <1>1, <1>2, StepKeeps DEF Inv, FailInv

LEMMA RearmExpiryKeeps == ASSUME Inv, RearmExpiry PROVE Inv'
<1> DEFINE u == current.timer
<1>0. pc = "rearm"
  BY DEF RearmExpiry, At
<1>1. CASE life[u] = "destroyed" /\ Fail("dangling") /\ UNCHANGED hasty
  BY <1>0, <1>1, Underway, FailKeeps
<1>2. CASE /\ ready' = Cancelled(u) /\ waits' = [waits EXCEPT ![u] = <<>>] /\ pc' = "rewait"
           /\ UNCHANGED <<current, life, starting, timerHistory, failed>>
  <2>1. Types /\ u \in Timers
    BY <1>0 DEF Inv, Types
  <2> HIDE DEF u
  <2>2. <<>> \in Seq(BOOLEAN)
    OBVIOUS
  <2>3. /\ waits' \in [Timers -> Seq(BOOLEAN)]
        /\ \A t \in Timers : waits[t] = <<>> => waits'[t] = <<>>
    BY <1>2, <2>1, <2>2 DEF Types
  <2>4. ready' \in Seq(Handlers)
    BY <1>2, <2>1, CancelShape
  <2>5. UNCHANGED <<quiet, hasty>>
    BY <1>2 DEF timerHistory
  <2>6. Types'
    BY <1>0, <1>2, <2>1, <2>3, <2>4, <2>5 DEF Types
  <2>7. \A t \in Timers : Mute(t) => Mute(t)'
    BY <1>0, <1>2, <2>1, <2>3, CancelShape DEF Mute
  <2>8. \A t \in Timers : Keeps(t)
    BY <1>2, <2>5, <2>7 DEF Keeps, Started
  <2> QED
    BY <1>2, <2>5, <2>6, <2>8, StepKeeps DEF Inv, FailInv
<1> QED
  BY <1>1, <1>2 DEF RearmExpiry

LEMMA RearmWaitKeeps == ASSUME Inv, RearmWait PROVE Inv'
<1> DEFINE u == current.timer
           r == current.repeat
<1>0. pc = "rewait"
  BY DEF RearmWait, At
<1>1. CASE life[u] = "destroyed" /\ Fail("dangling") /\ UNCHANGED hasty
  BY <1>0, <1>1, Underway, FailKeeps
<1>2. CASE /\ waits' = [waits EXCEPT ![u] = Append(@, r)] /\ pc' = Back
           /\ UNCHANGED <<context, life, starting, timerHistory, failed>>
  <2>1. Types /\ u \in Timers /\ r \in BOOLEAN
    BY <1>0 DEF Inv, Types
  <2>2. pc' \in {"outside", "wait"} /\ UNCHANGED <<ready, quiet, hasty>>
    BY <1>2 DEF Back, context, timerHistory
  <2>3. ~Mute(u)
    BY <1>0 DEF Mute
  <2> HIDE DEF u, r
  <2>4. Append(waits[u], r) \in Seq(BOOLEAN)
    BY <2>1 DEF Types
  <2>5. waits' = [waits EXCEPT ![u] = Append(waits[u], r)]
    BY <1>2
  <2>6. /\ waits' \in [Timers -> Seq(BOOLEAN)]
        /\ \A t \in Timers \ {u} : waits'[t] = waits[t]
    BY <2>1, <2>4, <2>5 DEF Types
  <2>7. Types'
    BY <1>2, <2>1, <2>2, <2>6 DEF Types
  <2>8. \A t \in Timers : Mute(t) => Mute(t)'
    BY <2>2, <2>3, <2>6 DEF Mute
  <2>9. \A t \in Timers : Keeps(t)
    BY <1>2, <2>2, <2>8 DEF Keeps, Started
  <2> QED
    BY <1>2, <2>2, <2>7, <2>9, StepKeeps DEF Inv, FailInv
<1> QED
  BY <1>1, <1>2 DEF RearmWait

LEMMA LoopRunsKeeps == ASSUME Inv, LoopRuns PROVE Inv'
<1>1. CASE RunBegin
  BY <1>1, MovesKeep DEF RunBegin, context, timer, timerHistory
<1>2. CASE Leave
  BY <1>2, MovesKeep DEF Leave, context, timer, timerHistory
<1>3. CASE TaskReturns
  BY <1>3, MovesKeep DEF TaskReturns, Back, context, timer, timerHistory
<1>4. CASE CallbackReturns
  BY <1>4, MovesKeep DEF CallbackReturns, At, Back, context, timer, timerHistory
<1> QED
  BY <1>1, <1>2, <1>3, <1>4, HandleTaskKeeps, HandleAbortedKeeps, HandleWaitKeeps,
     RearmExpiryKeeps, RearmWaitKeeps DEF LoopRuns

-----------------------------------------------------------------------------
(* The theorems *)

LEMMA EventLoopInv == Spec => []Inv
<1>1. Init => Inv
  <2> SUFFICES ASSUME Init PROVE Inv
    OBVIOUS
  <2>1. /\ ready = <<>> /\ waits = [t \in Timers |-> <<>>] /\ pc = "outside"
        /\ starting = [a \in Actors |-> Nothing] /\ failed = "no"
        /\ life = [t \in Timers |-> "none"] /\ quiet = [t \in Timers |-> FALSE]
        /\ hasty = FALSE
    BY DEF Init
  <2>2. <<>> \in Seq(Handlers) /\ <<>> \in Seq(BOOLEAN)
    OBVIOUS
  <2>3. Types
    BY <2>1, <2>2 DEF Types
  <2> QED
    BY <2>1, <2>3 DEF Inv, QuietInv, DeadInv, FailInv
<1>2. Inv /\ [Next]_vars => Inv'
  <2> SUFFICES ASSUME Inv, [Next]_vars PROVE Inv'
    OBVIOUS
  <2>1. CASE Calls
    BY <2>1, PostTaskKeeps, ShutdownKeeps, StartWaitKeeps, SetCallbackKeeps, StopKeeps,
       DestroyTimerKeeps, StartBeginKeeps DEF Calls
  <2>2. CASE Makes
    BY <2>2, MakeTimerKeeps DEF Makes
  <2>3. CASE LoopRuns
    BY <2>3, LoopRunsKeeps
  <2>4. CASE Throws
    BY <2>4, FailKeeps DEF Throws
  <2>5. CASE \E t \in Timers : Expire(t)
    BY <2>5, ExpireKeeps
  <2>6. CASE UNCHANGED vars
    BY <2>6, MovesKeep DEF vars, context, thread, timer, timerHistory
  <2> QED
    BY <2>1, <2>2, <2>3, <2>4, <2>5, <2>6 DEF Next
<1> QED
  BY <1>1, <1>2, PTL DEF Spec

\* Timer::Stop: a timer that nothing was under way for does not fire again before
\* it is started again, whoever stops and starts what else, on whatever thread.
THEOREM EventLoopStops == Spec => []StopIsHeeded
<1>1. Inv => StopIsHeeded
  BY DEF Inv, QuietInv, Mute, StopIsHeeded, Firing
<1> QED
  BY EventLoopInv, <1>1, PTL

\* Timer::~Timer: no handler uses a destroyed timer, if none was under way when
\* it was destroyed.
THEOREM EventLoopSafe == Spec => []SafeWhenQuiet
<1>1. Inv => SafeWhenQuiet
  BY DEF Inv, FailInv, SafeWhenQuiet
<1> QED
  BY EventLoopInv, <1>1, PTL

-----------------------------------------------------------------------------
(* The order of the tasks *)

\* Which tasks are new is known, and none of those that were posted is.
FateInv == /\ posted \in Seq(Tasks) /\ ran \in Seq(Tasks)
           /\ fate \in [Tasks -> {"new", "posted", "running", "done"}]
           /\ \A i \in 1..Len(posted) : fate[posted[i]] # "new"

OrderInv == FateInv /\ TasksInOrder

LEMMA TaskKind == \A k : TaskHandler(k).kind = "task" /\ TaskHandler(k).task = k
BY DEF TaskHandler

\* No task is posted or run; the handlers of tasks stay in the queue, each d
\* places further to the front, and no other comes in.
LEMMA OrderKept ==
    ASSUME OrderInv, ready \in Seq(Handlers), ready' \in Seq(Handlers), NEW d \in Nat,
           posted' = posted, ran' = ran,
           fate' \in [Tasks -> {"new", "posted", "running", "done"}],
           \A k \in Tasks : fate[k] # "new" => fate'[k] # "new",
           \A j \in 1..Len(ready) : ready[j].kind = "task" =>
              j - d \in 1..Len(ready') /\ ready'[j - d] = ready[j],
           \A j \in 1..Len(ready') : ready'[j].kind = "task" =>
              j + d \in 1..Len(ready) /\ ready[j + d] = ready'[j]
    PROVE  OrderInv'
<1>1. FateInv'
  <2>1. \A i \in 1..Len(posted) : posted[i] \in Tasks
    BY DEF OrderInv, FateInv
  <2> QED
    BY <2>1 DEF OrderInv, FateInv
<1>2. Due' = Due /\ Len(ready) \in Nat /\ Len(ready') \in Nat
  BY DEF Due
<1>3. ASSUME NEW i \in Due, NEW j \in 1..Len(ready'), QueuedAt(j, i)'
      PROVE  j + d \in 1..Len(ready) /\ QueuedAt(j + d, i)
  BY <1>3, TaskKind DEF QueuedAt
<1>4. ASSUME NEW i \in Due, NEW j \in 1..Len(ready), QueuedAt(j, i)
      PROVE  j - d \in 1..Len(ready') /\ QueuedAt(j - d, i)'
  BY <1>4, TaskKind DEF QueuedAt
<1>5. \A i \in Due : \E j \in 1..Len(ready') : QueuedAt(j, i)'
  BY <1>4 DEF OrderInv, TasksInOrder
<1>6. ASSUME NEW j \in 1..Len(ready'), ready'[j].kind = "task"
      PROVE  \E i \in Due : QueuedAt(j, i)'
  <2>1. j + d \in 1..Len(ready) /\ ready[j + d] = ready'[j]
    BY <1>6
  <2>2. PICK i \in Due : QueuedAt(j + d, i)
    BY <1>6, <2>1 DEF OrderInv, TasksInOrder
  <2> QED
    BY <2>1, <2>2 DEF QueuedAt
<1>7. ASSUME NEW i \in Due, NEW k \in Due, NEW j \in 1..Len(ready'), NEW l \in 1..Len(ready'),
             QueuedAt(j, i)', QueuedAt(l, k)'
      PROVE  i < k <=> j < l
  <2>1. i < k <=> j + d < l + d
    BY <1>3, <1>7 DEF OrderInv, TasksInOrder
  <2> QED
    BY <1>2, <2>1
<1>8. Len(ran') <= Len(posted') /\ \A i \in 1..Len(ran') : ran'[i] = posted'[i]
  BY DEF OrderInv, TasksInOrder
<1>9. TasksInOrder'
  BY <1>2, <1>5, <1>6, <1>7, <1>8 DEF TasksInOrder
<1> QED
  BY <1>1, <1>9 DEF OrderInv

\* The task is the last that was posted, and its handler the last that is queued.
LEMMA PostTaskOrder ==
    ASSUME OrderInv, ready \in Seq(Handlers), NEW a \in Actors, NEW k \in Tasks, PostTask(a, k)
    PROVE  OrderInv'
<1> DEFINE n == Len(posted)
           m == Len(ready)
<1>1. /\ fate[k] = "new" /\ fate' = [fate EXCEPT ![k] = "posted"]
      /\ ready' = Append(ready, TaskHandler(k)) /\ posted' = Append(posted, k) /\ ran' = ran
  BY DEF PostTask
<1>2. FateInv /\ TasksInOrder /\ n \in Nat /\ m \in Nat /\ Len(ran) \in Nat
  BY DEF OrderInv, FateInv
<1>3. /\ posted' \in Seq(Tasks) /\ Len(posted') = n + 1 /\ posted'[n + 1] = k
      /\ \A i \in 1..n : posted'[i] = posted[i] /\ posted[i] # k /\ posted[i] \in Tasks
  BY <1>1, <1>2 DEF FateInv
<1>4. /\ Len(ready') = m + 1 /\ ready'[m + 1] = TaskHandler(k)
      /\ \A j \in 1..m : ready'[j] = ready[j]
  BY <1>1, <1>2
<1> HIDE DEF n, m
<1>5. FateInv'
  <2>1. fate' \in [Tasks -> {"new", "posted", "running", "done"}]
    BY <1>1, <1>2 DEF FateInv
  <2>2. \A i \in 1..n + 1 : i \in 1..n \/ i = n + 1
    BY <1>2
  <2>3. \A i \in 1..n : fate[posted[i]] # "new"
    BY <1>2 DEF FateInv, n
  <2>4. \A i \in 1..n + 1 : fate'[posted'[i]] # "new"
    BY <1>1, <1>2, <1>3, <2>2, <2>3 DEF FateInv
  <2> QED
    BY <1>1, <1>2, <1>3, <2>1, <2>4 DEF FateInv
<1>6. /\ Len(ran) <= n
      /\ \A i : i \in Due' <=> i \in Due \/ i = n + 1
      /\ \A i \in Due : i \in 1..n
  BY <1>1, <1>2, <1>3 DEF Due, TasksInOrder, n
<1>7. ASSUME NEW i \in Due', NEW j \in 1..m + 1
      PROVE  QueuedAt(j, i)' <=> \/ i = n + 1 /\ j = m + 1
                                 \/ i \in Due /\ j \in 1..m /\ QueuedAt(j, i)
  <2>1. CASE i = n + 1 /\ j = m + 1
    BY <1>3, <1>4, <2>1 DEF QueuedAt
  <2>2. CASE i = n + 1 /\ j \in 1..m
    <3>1. ready[j] # TaskHandler(k)
      <4> SUFFICES ASSUME ready[j] = TaskHandler(k) PROVE FALSE
        OBVIOUS
      <4>1. PICK h \in Due : QueuedAt(j, h)
        BY <1>2, <2>2, TaskKind DEF TasksInOrder, m
      <4>2. posted[h] = k
        BY <4>1, TaskKind DEF QueuedAt
      <4> QED
        BY <1>3, <1>6, <4>2
    <3>2. i \notin Due /\ j # m + 1
      BY <1>2, <1>6, <2>2
    <3> QED
      BY <1>3, <1>4, <2>2, <3>1, <3>2 DEF QueuedAt
  <2>3. CASE i \in Due /\ j = m + 1
    <3>1. posted'[i] # k /\ i # n + 1 /\ j \notin 1..m
      BY <1>2, <1>3, <1>6, <2>3
    <3> QED
      BY <1>4, <2>3, <3>1, TaskKind DEF QueuedAt
  <2>4. CASE i \in Due /\ j \in 1..m
    <3>1. i \in 1..n /\ i # n + 1 /\ j # m + 1
      BY <1>2, <1>6, <2>4
    <3> QED
      BY <1>3, <1>4, <2>4, <3>1 DEF QueuedAt
  <2>5. j \in 1..m \/ j = m + 1
    BY <1>2
  <2> QED
    BY <1>6, <2>1, <2>2, <2>3, <2>4, <2>5
<1>8. TasksInOrder'
  <2>1. Len(ran') <= Len(posted') /\ \A i \in 1..Len(ran') : ran'[i] = posted'[i]
    BY <1>1, <1>2, <1>3, <1>6 DEF TasksInOrder
  <2>2. \A i \in Due' : \E j \in 1..m + 1 : QueuedAt(j, i)'
    <3> SUFFICES ASSUME NEW i \in Due' PROVE \E j \in 1..m + 1 : QueuedAt(j, i)'
      OBVIOUS
    <3>1. CASE i = n + 1
      BY <1>2, <1>7, <3>1
    <3>2. CASE i \in Due
      <4>1. PICK j \in 1..m : QueuedAt(j, i)
        BY <1>2, <3>2 DEF TasksInOrder, m
      <4>2. j \in 1..m + 1
        BY <1>2
      <4> QED
        BY <1>7, <3>2, <4>1, <4>2
    <3> QED
      BY <1>6, <3>1, <3>2
  <2>3. ASSUME NEW j \in 1..m + 1, ready'[j].kind = "task"  PROVE \E i \in Due' : QueuedAt(j, i)'
    <3>1. CASE j = m + 1
      BY <1>6, <1>7, <3>1
    <3>2. CASE j \in 1..m
      <4>1. PICK i \in Due : QueuedAt(j, i)
        BY <1>2, <1>4, <2>3, <3>2 DEF TasksInOrder, m
      <4> QED
        BY <1>6, <1>7, <3>2, <4>1
    <3> QED
      BY <1>2, <3>1, <3>2
  <2>4. ASSUME NEW i \in Due', NEW h \in Due', NEW j \in 1..m + 1, NEW l \in 1..m + 1,
               QueuedAt(j, i)', QueuedAt(l, h)'
        PROVE  i < h <=> j < l
    <3>1. CASE i \in Due /\ j \in 1..m /\ QueuedAt(j, i) /\ h \in Due /\ l \in 1..m /\ QueuedAt(l, h)
      BY <1>2, <3>1 DEF TasksInOrder, m
    <3>2. CASE i = n + 1 /\ j = m + 1
      BY <1>2, <1>6, <1>7, <2>4, <3>2
    <3>3. CASE h = n + 1 /\ l = m + 1
      BY <1>2, <1>6, <1>7, <2>4, <3>3
    <3> QED
      BY <1>7, <2>4, <3>1, <3>2, <3>3
  <2> QED
    BY <1>4, <2>1, <2>2, <2>3, <2>4 DEF TasksInOrder
<1> QED
  BY <1>5, <1>8 DEF OrderInv

\* The task that is run is the first that is due, as its handler is the first.
LEMMA HandleTaskOrder ==
    ASSUME OrderInv, ready \in Seq(Handlers), HandleTask
    PROVE  OrderInv'
<1> DEFINE n == Len(ran)
           m == Len(ready)
           k == Head(ready).task
<1>1. /\ ready # <<>> /\ Head(ready).kind = "task" /\ ready' = Tail(ready)
      /\ fate' = [fate EXCEPT ![k] = "running"] /\ ran' = Append(ran, k) /\ posted' = posted
  BY DEF HandleTask, Take
<1>2. FateInv /\ TasksInOrder /\ n \in Nat /\ m \in Nat \ {0} /\ Len(posted) \in Nat
  BY <1>1 DEF OrderInv, FateInv
<1>3. /\ Head(ready) = ready[1] /\ Len(ready') = m - 1
      /\ \A j \in 1..m - 1 : ready'[j] = ready[j + 1] /\ j + 1 \in 1..m
  BY <1>1, <1>2
<1>4. PICK i \in Due : QueuedAt(1, i)
  BY <1>1, <1>2, <1>3 DEF TasksInOrder
<1>5. k = posted[i]
  BY <1>3, <1>4, TaskKind DEF QueuedAt
<1> HIDE DEF n, m, k
<1>6. i = n + 1 /\ n + 1 \in Due /\ n + 1 <= Len(posted)
  <2>1. n + 1 \in Due /\ ~(i < n + 1) /\ i \in Nat /\ n + 1 <= Len(posted)
    BY <1>2, <1>4 DEF Due, n
  <2>2. PICK j \in 1..m : QueuedAt(j, n + 1)
    BY <1>2, <2>1 DEF TasksInOrder, m
  <2>3. n + 1 < i <=> j < 1
    BY <1>2, <1>4, <2>1, <2>2 DEF TasksInOrder, m
  <2> QED
    BY <1>2, <2>1, <2>2, <2>3
<1>7. k \in Tasks /\ k = posted[n + 1]
  BY <1>2, <1>5, <1>6 DEF FateInv
<1>8. /\ ran' \in Seq(Tasks) /\ Len(ran') = n + 1 /\ ran'[n + 1] = posted[n + 1]
      /\ \A j \in 1..n : ran'[j] = ran[j]
  BY <1>1, <1>2, <1>7 DEF FateInv, n
<1>9. FateInv'
  <2>1. /\ fate' \in [Tasks -> {"new", "posted", "running", "done"}]
        /\ \A q \in Tasks : fate[q] # "new" => fate'[q] # "new"
    BY <1>1, <1>2, <1>7 DEF FateInv
  <2> QED
    BY <1>1, <1>2, <1>8, <2>1 DEF FateInv
<1>10. \A h : h \in Due' <=> h \in Due /\ h # n + 1
  BY <1>1, <1>2, <1>6, <1>8 DEF Due, n
<1>11. ASSUME NEW h \in Due', NEW j \in 1..m, QueuedAt(j, h)
       PROVE  j - 1 \in 1..m - 1
  <2>1. h \in Due /\ n + 1 < h
    BY <1>2, <1>10 DEF Due, n
  <2>2. n + 1 < h <=> 1 < j
    BY <1>2, <1>4, <1>6, <1>11, <2>1 DEF TasksInOrder, m
  <2> QED
    BY <1>2, <2>1, <2>2
<1>12. \A h \in Due' : \A j \in 1..m - 1 : QueuedAt(j, h)' <=> QueuedAt(j + 1, h)
  BY <1>1, <1>3 DEF QueuedAt
<1>13. TasksInOrder'
  <2>1. Len(ran') <= Len(posted') /\ \A j \in 1..Len(ran') : ran'[j] = posted'[j]
    <3>1. \A j \in 1..n + 1 : j \in 1..n \/ j = n + 1
      BY <1>2
    <3>2. \A j \in 1..n : ran[j] = posted[j]
      BY <1>2 DEF TasksInOrder, n
    <3> QED
      BY <1>1, <1>6, <1>8, <3>1, <3>2
  <2>2. \A h \in Due' : \E j \in 1..m - 1 : QueuedAt(j, h)'
    <3> SUFFICES ASSUME NEW h \in Due' PROVE \E j \in 1..m - 1 : QueuedAt(j, h)'
      OBVIOUS
    <3>1. PICK j \in 1..m : QueuedAt(j, h)
      BY <1>2, <1>10 DEF TasksInOrder, m
    <3>2. j - 1 \in 1..m - 1 /\ (j - 1) + 1 = j
      BY <1>2, <1>11, <3>1
    <3> QED
      BY <1>12, <3>1, <3>2
  <2>3. ASSUME NEW j \in 1..m - 1, ready'[j].kind = "task"  PROVE \E h \in Due' : QueuedAt(j, h)'
    <3>1. ready[j + 1].kind = "task" /\ j + 1 \in 1..m
      BY <1>3, <2>3
    <3>2. PICK h \in Due : QueuedAt(j + 1, h)
      BY <1>2, <3>1 DEF TasksInOrder, m
    <3>3. h # n + 1
      <4>1. h < n + 1 \/ n + 1 < h
        <5>1. n + 1 < h <=> 1 < j + 1
          BY <1>2, <1>4, <1>6, <3>1, <3>2 DEF TasksInOrder, m
        <5> QED
          BY <1>2, <5>1
      <4> QED
        BY <1>2, <4>1
    <3> QED
      BY <1>10, <1>12, <3>2, <3>3
  <2>4. ASSUME NEW h \in Due', NEW g \in Due', NEW j \in 1..m - 1, NEW l \in 1..m - 1,
               QueuedAt(j, h)', QueuedAt(l, g)'
        PROVE  h < g <=> j < l
    <3>1. /\ h \in Due /\ g \in Due /\ j + 1 \in 1..m /\ l + 1 \in 1..m
          /\ QueuedAt(j + 1, h) /\ QueuedAt(l + 1, g)
      BY <1>3, <1>10, <1>12, <2>4
    <3>2. h < g <=> j + 1 < l + 1
      BY <1>2, <3>1 DEF TasksInOrder, m
    <3> QED
      BY <1>2, <3>2
  <2> QED
    BY <1>3, <2>1, <2>2, <2>3, <2>4 DEF TasksInOrder
<1> QED
  BY <1>9, <1>13 DEF OrderInv

\* Waits that are cancelled or whose time has come are queued behind the tasks.
LEMMA JoinOrder ==
    ASSUME OrderInv, Types, NEW u \in Timers, NEW ok \in BOOLEAN,
           ready' = ready \o Waited(u, ok), UNCHANGED taskHistory
    PROVE  OrderInv'
<1> DEFINE q == Waited(u, ok)
<1>1. ready \in Seq(Handlers) /\ UNCHANGED <<fate, posted, ran>>
  BY DEF Types, taskHistory
<1>2. q \in Seq(Handlers) /\ \A j \in 1..Len(q) : q[j].kind = "wait"
  <2>1. waits[u] \in Seq(BOOLEAN)
    BY DEF Types
  <2>2. Len(waits[u]) \in Nat /\ \A i \in 1..Len(waits[u]) : WaitHandler(u, waits[u][i], ok).kind = "wait"
    BY <2>1 DEF WaitHandler
  <2>3. q \in Seq(Handlers)
    BY WaitedShape
  <2>4. Len(q) = Len(waits[u])
    BY <2>2 DEF Waited
  <2> QED
    BY <2>2, <2>3, <2>4 DEF Waited
<1> HIDE DEF q
<1>3. /\ ready' \in Seq(Handlers) /\ Len(ready') = Len(ready) + Len(q)
      /\ \A j \in 1..Len(ready) : ready'[j] = ready[j] /\ j \in 1..Len(ready')
  BY <1>1, <1>2 DEF q
<1>4. \A j \in 1..Len(ready') : \/ j \in 1..Len(ready) /\ ready'[j] = ready[j]
                                \/ \E l \in 1..Len(q) : ready'[j] = q[l]
  BY <1>1, <1>2, JoinShape DEF q
<1>5. \A j \in 1..Len(ready') : ready'[j].kind = "task" => j \in 1..Len(ready)
  BY <1>2, <1>4
<1>6. \A j \in 1..Len(ready) : j - 0 = j /\ j + 0 = j
  BY <1>1
<1>7. \A j \in 1..Len(ready) : j - 0 \in 1..Len(ready') /\ ready'[j - 0] = ready[j]
  BY <1>3, <1>6
<1>8. \A j \in 1..Len(ready') : ready'[j].kind = "task" =>
         j + 0 \in 1..Len(ready) /\ ready[j + 0] = ready'[j]
  BY <1>3, <1>5, <1>6
<1>9. fate' \in [Tasks -> {"new", "posted", "running", "done"}]
  BY <1>1 DEF OrderInv, FateInv
<1> QED
  BY <1>1, <1>3, <1>7, <1>8, <1>9, OrderKept, 0 \in Nat

\* A wait that is handled goes from the front.
LEMMA TailOrder ==
    ASSUME OrderInv, ready \in Seq(Handlers), Take("wait"), UNCHANGED taskHistory
    PROVE  OrderInv'
<1>1. /\ ready # <<>> /\ Head(ready).kind = "wait" /\ ready' = Tail(ready)
      /\ UNCHANGED <<fate, posted, ran>>
  BY DEF Take, taskHistory
<1>2. /\ Len(ready) \in Nat \ {0} /\ ready[1].kind = "wait"
      /\ ready' \in Seq(Handlers) /\ Len(ready') = Len(ready) - 1
      /\ \A j \in 1..Len(ready') : ready'[j] = ready[j + 1]
  BY <1>1
<1>3. ASSUME NEW j \in 1..Len(ready), ready[j].kind = "task"
      PROVE  j - 1 \in 1..Len(ready') /\ ready'[j - 1] = ready[j]
  <2>1. j # 1
    BY <1>2, <1>3
  <2>2. j - 1 \in 1..Len(ready') /\ (j - 1) + 1 = j
    BY <1>2, <2>1
  <2> QED
    BY <1>2, <2>2
<1>4. \A j \in 1..Len(ready') : j + 1 \in 1..Len(ready)
  BY <1>2
<1> QED
  BY <1>1, <1>2, <1>3, <1>4, OrderKept, 1 \in Nat DEF OrderInv, FateInv

LEMMA SameOrder ==
    ASSUME OrderInv, ready \in Seq(Handlers), UNCHANGED <<ready, posted, ran>>,
           \/ UNCHANGED fate
           \/ fate' = [fate EXCEPT ![current.task] = "done"]
    PROVE  OrderInv'
<1>1. /\ fate' \in [Tasks -> {"new", "posted", "running", "done"}]
      /\ \A k \in Tasks : fate[k] # "new" => fate'[k] # "new"
  BY DEF OrderInv, FateInv
<1>2. \A j \in 1..Len(ready) : j - 0 = j /\ j + 0 = j
  OBVIOUS
<1> QED
  BY <1>1, <1>2, OrderKept, 0 \in Nat

LEMMA CallsOrder == ASSUME OrderInv, Inv, Calls \/ Makes PROVE OrderInv'
<1>0. ready \in Seq(Handlers) /\ Types
  BY DEF Inv, Types
<1>1. ASSUME NEW why, Fail(why) PROVE OrderInv'
  BY <1>0, <1>1, SameOrder DEF Fail, context, taskHistory
<1>2. ASSUME NEW a \in Actors, NEW k \in Tasks, PostTask(a, k) PROVE OrderInv'
  BY <1>0, <1>2, PostTaskOrder
<1>3. ASSUME NEW a \in Actors, Shutdown(a) \/ StartWait(a) PROVE OrderInv'
  <2>1. CASE Shutdown(a)
    BY <1>0, <2>1, SameOrder DEF Shutdown, taskHistory
  <2>2. CASE StartWait(a)
    BY <1>0, <1>1, <2>2, SameOrder DEF StartWait, context, taskHistory
  <2> QED
    BY <1>3, <2>1, <2>2
<1>4. ASSUME NEW u \in Timers, ready' = Cancelled(u), UNCHANGED taskHistory PROVE OrderInv'
  BY <1>0, <1>4, JoinOrder DEF Cancelled, Waited
<1>5. ASSUME NEW a \in Actors, NEW t \in Timers, SetCallback(a, t) \/ Stop(a, t) \/ DestroyTimer(a, t)
      PROVE  OrderInv'
  <2>1. CASE SetCallback(a, t)
    BY <1>0, <1>1, <2>1, SameOrder DEF SetCallback, context, taskHistory
  <2>2. CASE Stop(a, t)
    BY <1>4, <2>2 DEF Stop
  <2>3. CASE DestroyTimer(a, t)
    BY <1>1, <1>4, <2>3 DEF DestroyTimer
  <2> QED
    BY <1>5, <2>1, <2>2, <2>3
<1>6. ASSUME NEW a \in Actors, NEW t \in Timers, NEW repeat \in BOOLEAN, StartBegin(a, t, repeat)
      PROVE  OrderInv'
  BY <1>4, <1>6 DEF StartBegin
<1>7. ASSUME NEW c \in Clients, NEW t \in Timers, MakeTimer(c, t) PROVE OrderInv'
  BY <1>0, <1>1, <1>7, SameOrder DEF MakeTimer, context, taskHistory
<1> QED
  BY <1>2, <1>3, <1>5, <1>6, <1>7 DEF Calls, Makes

LEMMA RunsOrder ==
    ASSUME OrderInv, Inv, LoopRuns \/ Throws \/ \E t \in Timers : Expire(t)
    PROVE  OrderInv'
<1>0. ready \in Seq(Handlers) /\ Types
  BY DEF Inv, Types
<1>1. ASSUME NEW why, Fail(why) PROVE OrderInv'
  BY <1>0, <1>1, SameOrder DEF Fail, context, taskHistory
<1>2. CASE RunBegin \/ Leave \/ TaskReturns \/ CallbackReturns
  BY <1>0, <1>2, SameOrder DEF RunBegin, Leave, TaskReturns, CallbackReturns, context, taskHistory
<1>3. CASE HandleTask
  BY <1>0, <1>3, HandleTaskOrder
<1>4. CASE HandleAborted \/ HandleWait
  BY <1>0, <1>4, TailOrder DEF HandleAborted, HandleWait
<1>5. CASE RearmExpiry
  <2>1. pc = "rearm"
    BY <1>5 DEF RearmExpiry, At
  <2>2. current.timer \in Timers
    BY <1>0, <2>1 DEF Types
  <2>3. CASE ready' = Cancelled(current.timer) /\ UNCHANGED taskHistory
    BY <1>0, <2>2, <2>3, JoinOrder DEF Cancelled, Waited
  <2> QED
    BY <1>1, <1>5, <2>3 DEF RearmExpiry
<1>6. CASE RearmWait
  BY <1>0, <1>1, <1>6, SameOrder DEF RearmWait, context, taskHistory
<1>7. CASE Throws
  BY <1>1, <1>7 DEF Throws
<1>8. ASSUME NEW t \in Timers, Expire(t) PROVE OrderInv'
  BY <1>0, <1>8, JoinOrder DEF Expire, Waited
<1> QED
  BY <1>2, <1>3, <1>4, <1>5, <1>6, <1>7, <1>8 DEF LoopRuns

\* EventLoop::PostTask: tasks are run in the order of the posts, each once, and
\* none is lost, whatever timers do and however often Run returns.
THEOREM EventLoopOrder == Spec => []TasksInOrder
<1>1. Init => OrderInv
  <2> SUFFICES ASSUME Init PROVE OrderInv
    OBVIOUS
  <2>1. ready = <<>> /\ posted = <<>> /\ ran = <<>> /\ fate = [k \in Tasks |-> "new"]
    BY DEF Init
  <2>2. Len(posted) = 0 /\ Len(ran) = 0 /\ Len(ready) = 0 /\ Due = {}
    BY <2>1 DEF Due
  <2> QED
    BY <2>1, <2>2 DEF OrderInv, FateInv, TasksInOrder
<1>2. OrderInv /\ Inv /\ [Next]_vars => OrderInv'
  <2> SUFFICES ASSUME OrderInv, Inv, [Next]_vars PROVE OrderInv'
    OBVIOUS
  <2>1. CASE UNCHANGED vars
    BY <2>1, SameOrder DEF vars, context, taskHistory, Inv, Types
  <2> QED
    BY <2>1, CallsOrder, RunsOrder DEF Next
<1>3. OrderInv => TasksInOrder
  BY DEF OrderInv
<1> QED
  BY <1>1, <1>2, <1>3, EventLoopInv, PTL DEF Spec
=============================================================================
