-------------------------- MODULE ThreadpoolProofs --------------------------
(***************************************************************************)
(* Proofs about WorkerLoop and about Threadpool, which extends it, for any *)
(* number of workers, tasks and configs, every capacity of the deques and  *)
(* every spin limit.  What is proved of the worker loop is at hand for the *)
(* pool once each of its steps is shown to be one of the loop or to leave  *)
(* it alone.                                                               *)
(***************************************************************************)
EXTENDS Threadpool, FiniteSetTheorems, TLAPS

-----------------------------------------------------------------------------
(* The worker loop by itself.                                              *)

\* The scan of steal() stays within the deques, or ends at N.
LEMMA OtherType ==
    ASSUME NEW w \in Workers
    PROVE  Other(w, 0) \in 0..N /\ \A v \in 0..(N-1) : Other(w, v + 1) \in 0..N
BY WorkerAssumption DEF Other, Workers

\* A worker that steals has some deque before it, with a task in it.
LEMMA StolenVictim ==
    ASSUME TypeOK, NEW w \in Workers, TakeStolen(w)
    PROVE  /\ victim[w] \in Workers /\ local[victim[w]] \in Seq(Tasks)
           /\ local[victim[w]] # <<>> /\ pc[w] = "steal"
<1>1. victim[w] \in 0..N
  BY DEF TypeOK
<1>2. victim[w] < N /\ local[victim[w]] # <<>> /\ pc[w] = "steal"
  BY DEF TakeStolen
<1>3. victim[w] \in Workers
  BY <1>1, <1>2, WorkerAssumption DEF Workers
<1> QED
  BY <1>2, <1>3 DEF TypeOK

(***************************************************************************)
(* The types of the loop's state.                                          *)
(***************************************************************************)
THEOREM LoopTypes == Spec => []TypeOK
<1> USE WorkerAssumption
<1>1. Init => TypeOK
  <2> SUFFICES ASSUME Init PROVE TypeOK
    OBVIOUS
  <2>1. local \in [Workers -> Seq(Tasks)]
    BY DEF Init
  <2>2. N \in 0..N /\ 0 \in 0..MaxSpin
    OBVIOUS
  <2>3. /\ global \in SUBSET Tasks /\ shutdown \in BOOLEAN /\ notifying \in 0..N
        /\ victim \in [Workers -> 0..N] /\ spin \in [Workers -> 0..MaxSpin]
    BY <2>2 DEF Init
  <2> QED
    BY <2>1, <2>3 DEF Init, TypeOK, Fates
<1>2. TypeOK /\ [Next]_vars => TypeOK'
  <2> SUFFICES ASSUME TypeOK, [Next]_vars PROVE TypeOK'
    OBVIOUS
  <2> USE DEF TypeOK, Fates
  <2>1. ASSUME NEW k \in Tasks, PostOutside(k) PROVE TypeOK'
    BY <2>1 DEF PostOutside, Enqueue, thread
  <2>2. ASSUME NEW k \in Tasks, NEW w \in Workers, PostInside(w, k) PROVE TypeOK'
    <3>1. Append(local[w], k) \in Seq(Tasks)
      OBVIOUS
    <3>2. local' \in [Workers -> Seq(Tasks)]
      BY <2>2, <3>1 DEF PostInside
    <3>3. global' \in SUBSET Tasks /\ fate' \in [Tasks -> Fates]
      BY <2>2 DEF PostInside, Enqueue
    <3> QED
      BY <2>2, <3>2, <3>3 DEF PostInside, thread
  <2>3. CASE Shutdown
    BY <2>3 DEF Shutdown, queues, thread
  <2>4. CASE Notify
    <3>1. notifying \in Workers /\ notifying' \in 0..N
      BY <2>4 DEF Notify, Workers
    <3>2. pc' \in [Workers -> {"top", "local", "global", "steal", "park",
                              "block", "waiting", "run", "astray", "exited"}]
      BY <2>4 DEF Notify
    <3> QED
      BY <2>4, <3>1, <3>2 DEF Notify, queues
  <2>5. ASSUME NEW w \in Workers, Run(w) PROVE TypeOK'
    <3> USE DEF GoTo
    <3>1. ASSUME NEW k \in Tasks, Start(w, k)
          PROVE  /\ running' \in [Workers -> Tasks \cup {NoTask}]
                 /\ fate' \in [Tasks -> Fates]
                 /\ spin' \in [Workers -> 0..MaxSpin]
                 /\ late' \in [Workers -> Nat]
                 /\ pc' \in [Workers -> {"top", "local", "global", "steal", "park",
                                         "block", "waiting", "run", "astray", "exited"}]
      BY <3>1 DEF Start
    <3>2. CASE LoopTop(w)
      BY <3>2 DEF LoopTop, queues
    <3>3. CASE TakeLocal(w)
      <4>1. CASE local[w] # <<>> /\ Start(w, local[w][Len(local[w])])
                 /\ local' = [local EXCEPT ![w] = SubSeq(@, 1, Len(@) - 1)]
        <5>1. local[w][Len(local[w])] \in Tasks /\ SubSeq(local[w], 1, Len(local[w]) - 1) \in Seq(Tasks)
          BY <4>1
        <5>2. local' \in [Workers -> Seq(Tasks)]
          BY <4>1, <5>1
        <5> QED
          BY <3>1, <3>3, <4>1, <5>1, <5>2 DEF TakeLocal
      <4>2. CASE GoTo(w, "global") /\ UNCHANGED <<local, running, fate, spin, late>>
        BY <3>3, <4>2 DEF TakeLocal
      <4> QED
        BY <3>3, <4>1, <4>2 DEF TakeLocal
    <3>4. CASE TakeGlobal(w)
      <4>1. ASSUME NEW k \in global, Start(w, k), global' = global \ {k}, UNCHANGED victim
            PROVE  TypeOK'
        BY <3>1, <3>4, <4>1 DEF TakeGlobal
      <4>2. CASE /\ GoTo(w, "steal") /\ victim' = [victim EXCEPT ![w] = Other(w, 0)]
                 /\ UNCHANGED <<global, running, fate, spin, late>>
        BY <3>4, <4>2, OtherType DEF TakeGlobal, Workers
      <4> QED
        BY <3>4, <4>1, <4>2 DEF TakeGlobal
    <3>5. CASE TakeStolen(w)
      <4>1. victim[w] \in Workers
        BY <3>5, StolenVictim
      <4>2. local[victim[w]] \in Seq(Tasks) /\ local[victim[w]] # <<>>
        BY <3>5, StolenVictim
      <4>3. Head(local[victim[w]]) \in Tasks /\ Tail(local[victim[w]]) \in Seq(Tasks)
        BY <4>2
      <4>4. local' \in [Workers -> Seq(Tasks)]
        BY <3>5, <4>1, <4>3 DEF TakeStolen
      <4>5. Start(w, Head(local[victim[w]]))
        BY <3>5 DEF TakeStolen
      <4>6. running' \in [Workers -> Tasks \cup {NoTask}] /\ fate' \in [Tasks -> Fates]
            /\ pc' \in [Workers -> {"top", "local", "global", "steal", "park",
                                     "block", "waiting", "run", "astray", "exited"}]
            /\ spin' \in [Workers -> 0..MaxSpin] /\ late' \in [Workers -> Nat]
        BY <3>1, <4>3, <4>5
      <4>7. victim' \in [Workers -> 0..N]
        BY <3>5 DEF TakeStolen
      <4> QED
        BY <3>5, <4>4, <4>6, <4>7 DEF TakeStolen
    <3>6. CASE NextVictim(w)
      <4>1. victim[w] \in 0..(N-1)
        BY <3>6 DEF NextVictim
      <4>2. Other(w, victim[w] + 1) \in 0..N
        BY <4>1, OtherType
      <4> QED
        BY <3>6, <4>2 DEF NextVictim, queues
    <3>7. CASE Spin(w)
      <4>1. spin' \in [Workers -> 0..MaxSpin]
        BY <3>7 DEF Spin
      <4> QED
        BY <3>7, <4>1 DEF Spin, queues
    <3>8. CASE CheckPredicate(w) \/ Block(w)
      BY <3>8 DEF CheckPredicate, Block, queues
    <3>9. CASE TaskReturns(w) \/ TaskThrows(w)
      BY <3>9 DEF TaskReturns, TaskThrows, queues
    <3>10. CASE Break(w)
      BY <3>10 DEF Break, thread
    <3>11. CASE TakeAgain(w)
      BY <3>11 DEF TakeAgain, queues
    <3> QED
      BY <2>5, <3>2, <3>3, <3>4, <3>5, <3>6, <3>7, <3>8, <3>9, <3>10, <3>11 DEF Run
  <2>6. ASSUME NEW w \in Workers, WakeSpuriously(w) PROVE TypeOK'
    BY <2>6 DEF WakeSpuriously, GoTo, queues
  <2>7. CASE UNCHANGED vars
    BY <2>7 DEF vars, queues, thread
  <2> QED
    BY <2>1, <2>2, <2>3, <2>4, <2>5, <2>6, <2>7 DEF Next, Post
<1> QED
  BY <1>1, <1>2, PTL DEF Spec

(***************************************************************************)
(* A worker that is done with its own deque leaves nothing there, unless   *)
(* that has broken.  Only the worker itself appends to its deque, and only *)
(* while it runs a task; and a deque that breaks stays broken.             *)
(***************************************************************************)
THEOREM LoopSleepers == Spec => []SleepersHoldNothing
<1> USE WorkerAssumption
<1>1. Init => SleepersHoldNothing
  BY DEF Init, SleepersHoldNothing
<1>2. TypeOK /\ SleepersHoldNothing /\ [Next]_vars => SleepersHoldNothing'
  <2> SUFFICES ASSUME TypeOK, SleepersHoldNothing, [Next]_vars,
                      NEW v \in Workers, v \notin broken',
                      pc'[v] \in {"global", "steal", "park", "block", "waiting"}
               PROVE  local'[v] = <<>>
    BY DEF SleepersHoldNothing
  <2>0. v \notin broken
    BY DEF Next, Post, PostOutside, PostInside, Shutdown, Notify, Run, LoopTop, TakeLocal,
           TakeGlobal, TakeStolen, NextVictim, Break, TakeAgain, Spin, CheckPredicate, Block,
           TaskReturns, TaskThrows, WakeSpuriously, vars, queues
  <2> USE DEF TypeOK, SleepersHoldNothing, GoTo
  <2>1. ASSUME NEW k \in Tasks, PostOutside(k) PROVE local'[v] = <<>>
    BY <2>0, <2>1 DEF PostOutside, thread
  <2>2. ASSUME NEW k \in Tasks, NEW w \in Workers, PostInside(w, k)
        PROVE  local'[v] = <<>>
    <3>1. pc[w] = "run" /\ pc' = pc
      BY <2>2 DEF PostInside, thread
    <3>2. w # v
      BY <3>1
    <3>3. local'[v] = local[v]
      BY <2>2, <3>2 DEF PostInside
    <3> QED
      BY <2>0, <3>1, <3>3
  <2>3. CASE Shutdown \/ UNCHANGED vars
    BY <2>0, <2>3 DEF Shutdown, vars, queues, thread
  <2>4. CASE Notify
    <3>1. notifying \in Workers
      BY <2>4 DEF Notify, Workers
    <3> QED
      BY <2>0, <2>4, <3>1 DEF Notify, queues
  <2>5. ASSUME NEW w \in Workers, Run(w) \/ WakeSpuriously(w) PROVE local'[v] = <<>>
    <3>1. CASE LoopTop(w) \/ TaskReturns(w) \/ TaskThrows(w)
      <4>1. pc'[w] \in {"top", "exited", "local"} /\ local' = local
        BY <3>1 DEF LoopTop, TaskReturns, TaskThrows, queues
      <4>2. \A x \in Workers : x # w => pc'[x] = pc[x]
        BY <3>1 DEF LoopTop, TaskReturns, TaskThrows
      <4> QED
        BY <2>0, <4>1, <4>2
    <3>2. CASE TakeLocal(w)
      <4>1. CASE /\ local[w] = <<>> \/ w \in broken
                 /\ GoTo(w, "global") /\ UNCHANGED local
        BY <2>0, <4>1
      <4>2. CASE /\ Start(w, local[w][Len(local[w])])
                 /\ local' = [local EXCEPT ![w] = SubSeq(@, 1, Len(@) - 1)]
        <5>1. pc' = [pc EXCEPT ![w] = "run"]
          BY <4>2 DEF Start
        <5>2. w # v
          BY <5>1
        <5> QED
          BY <2>0, <4>2, <5>1, <5>2
      <4> QED
        BY <3>2, <4>1, <4>2 DEF TakeLocal
    <3>3. CASE TakeGlobal(w)
      <4>1. local' = local /\ pc[w] = "global"
        BY <3>3 DEF TakeGlobal
      <4>2. \A x \in Workers : x # w => pc'[x] = pc[x]
        BY <3>3 DEF TakeGlobal, Start
      <4> QED
        BY <2>0, <4>1, <4>2
    <3>4. CASE TakeStolen(w)
      <4>1. victim[w] \in Workers /\ local[victim[w]] # <<>>
        BY <3>4, StolenVictim
      <4>2. pc' = [pc EXCEPT ![w] = "run"]
        BY <3>4 DEF TakeStolen, Start
      <4>3. pc'[v] = pc[v] /\ v # victim[w]
        <5>1. pc'[v] = pc[v] /\ local[v] = <<>>
          BY <2>0, <4>2
        <5> QED
          BY <4>1, <5>1
      <4> QED
        BY <2>0, <3>4, <4>1, <4>3 DEF TakeStolen
    <3>5. CASE NextVictim(w) \/ Spin(w) \/ CheckPredicate(w) \/ Block(w) \/ WakeSpuriously(w)
      <4>1. local' = local /\ pc[w] \in {"steal", "park", "block", "waiting"}
        BY <3>5 DEF NextVictim, Spin, CheckPredicate, Block, WakeSpuriously, queues
      <4>2. \A x \in Workers : x # w => pc'[x] = pc[x]
        BY <3>5 DEF NextVictim, Spin, CheckPredicate, Block, WakeSpuriously
      <4> QED
        BY <2>0, <4>1, <4>2
    <3>6. CASE Break(w) \/ TakeAgain(w)
      <4>1. local' = local /\ (pc' = pc \/ pc' = [pc EXCEPT ![w] = "astray"])
        BY <3>6 DEF Break, TakeAgain, queues, thread
      <4> QED
        BY <2>0, <4>1
    <3> QED
      BY <2>5, <3>1, <3>2, <3>3, <3>4, <3>5, <3>6 DEF Run
  <2> QED
    BY <2>1, <2>2, <2>3, <2>4, <2>5 DEF Next, Post
<1> QED
  BY <1>1, <1>2, LoopTypes, PTL DEF Spec

-----------------------------------------------------------------------------
\* Which workers can have started a task after Shutdown: those that run it, or
\* went astray with it, or are past it and have not looked at m_shutdown since.
LateInv == \A w \in Workers :
              \/ late[w] = 0
              \/ late[w] = 1 /\ shutdown /\ pc[w] \in {"run", "astray", "top", "exited"}

(***************************************************************************)
(* After Shutdown a worker starts at most one more task.                   *)
(***************************************************************************)
THEOREM LoopOneTaskAfterShutdown == Spec => []OneTaskAfterShutdown
<1> USE WorkerAssumption
<1>1. Init => LateInv
  BY DEF Init, LateInv
<1>2. TypeOK /\ LateInv /\ [Next]_vars => LateInv'
  <2> SUFFICES ASSUME TypeOK, LateInv, [Next]_vars PROVE LateInv'
    OBVIOUS
  <2> USE DEF TypeOK, LateInv, GoTo
  <2>1. ASSUME UNCHANGED <<late, pc, shutdown>> PROVE LateInv'
    BY <2>1
  <2>2. CASE Post \/ UNCHANGED vars
    BY <2>1, <2>2 DEF Post, PostOutside, PostInside, thread, vars
  <2>3. CASE Shutdown
    BY <2>3 DEF Shutdown, thread
  <2>4. CASE Notify
    <3>1. notifying \in Workers
      BY <2>4 DEF Notify, Workers
    <3> QED
      BY <2>4, <3>1 DEF Notify
  <2>5. ASSUME NEW w \in Workers, Run(w) \/ WakeSpuriously(w) PROVE LateInv'
    <3>1. ASSUME NEW k, pc[w] \in {"local", "global", "steal"}, Start(w, k),
                 shutdown' = shutdown
          PROVE  LateInv'
      <4>1. late[w] = 0
        BY <3>1
      <4>2. late'[w] = (IF shutdown THEN 1 ELSE 0) /\ pc'[w] = "run"
        BY <3>1, <4>1 DEF Start
      <4>3. \A x \in Workers : x # w => late'[x] = late[x] /\ pc'[x] = pc[x]
        BY <3>1 DEF Start
      <4> QED
        BY <3>1, <4>2, <4>3
    <3>2. ASSUME late' = late, shutdown' = shutdown,
                 \A x \in Workers : x # w => pc'[x] = pc[x],
                 late[w] = 0 \/ pc'[w] \in {"run", "astray", "top", "exited"}
          PROVE  LateInv'
      BY <3>2
    <3>3. CASE LoopTop(w)
      <4>1. late[w] = 0 \/ pc'[w] = "exited"
        BY <3>3 DEF LoopTop
      <4> QED
        BY <3>2, <3>3, <4>1 DEF LoopTop
    <3>4. CASE TakeLocal(w)
      <4>1. CASE GoTo(w, "global") /\ UNCHANGED late
        BY <3>2, <3>4, <4>1 DEF TakeLocal
      <4> QED
        BY <3>1, <3>4, <4>1 DEF TakeLocal
    <3>5. CASE TakeGlobal(w)
      <4>1. CASE GoTo(w, "steal") /\ UNCHANGED late
        BY <3>2, <3>5, <4>1 DEF TakeGlobal
      <4> QED
        BY <3>1, <3>5, <4>1 DEF TakeGlobal
    <3>6. CASE TakeStolen(w)
      BY <3>1, <3>6 DEF TakeStolen
    <3>7. CASE NextVictim(w) \/ Spin(w) \/ CheckPredicate(w) \/ Block(w) \/ WakeSpuriously(w)
      <4>1. late[w] = 0 /\ late' = late /\ shutdown' = shutdown
        BY <3>7 DEF NextVictim, Spin, CheckPredicate, Block, WakeSpuriously
      <4>2. \A x \in Workers : x # w => pc'[x] = pc[x]
        BY <3>7 DEF NextVictim, Spin, CheckPredicate, Block, WakeSpuriously
      <4> QED
        BY <3>2, <4>1, <4>2
    <3>8. CASE TaskReturns(w) \/ TaskThrows(w)
      BY <3>2, <3>8 DEF TaskReturns, TaskThrows
    <3>9. CASE Break(w)
      BY <2>1, <3>9 DEF Break, thread
    <3>10. CASE TakeAgain(w)
      <4>1. late[w] = 0 /\ shutdown' = shutdown
        BY <3>10 DEF TakeAgain
      <4>2. late'[w] = (IF shutdown THEN 1 ELSE 0) /\ pc'[w] = "astray"
        BY <3>10, <4>1 DEF TakeAgain
      <4>3. \A x \in Workers : x # w => late'[x] = late[x] /\ pc'[x] = pc[x]
        BY <3>10 DEF TakeAgain
      <4> QED
        BY <4>1, <4>2, <4>3
    <3> QED
      BY <2>5, <3>3, <3>4, <3>5, <3>6, <3>7, <3>8, <3>9, <3>10 DEF Run
  <2> QED
    BY <2>2, <2>3, <2>4, <2>5 DEF Next
<1>3. LateInv => OneTaskAfterShutdown
  BY DEF LateInv, OneTaskAfterShutdown
<1> QED
  BY <1>1, <1>2, <1>3, LoopTypes, PTL DEF Spec

-----------------------------------------------------------------------------
\* A worker has a task exactly while it runs it.
RunInv == \A w \in Workers : pc[w] = "run" <=> running[w] # NoTask

PlaceInv == QueuedIffPosted /\ QueuedOnce /\ RunByOne /\ RunInv

\* What taking k out of a queue does to the queues.
Removed(k) == /\ Queued(k)
              /\ \A j \in Tasks : Queued(j)' <=> Queued(j) /\ j # k
              /\ QueuedOnce'

\* Pop (d = 0) and Steal (d = 1) remove the last or the first of a deque.
LEMMA DequeLoses ==
    ASSUME TypeOK, QueuedOnce, NEW v \in Workers, NEW d \in {0, 1},
           local[v] # <<>>, NEW s \in Seq(Tasks),
           Len(s) = Len(local[v]) - 1,
           \A i \in 1..Len(s) : s[i] = local[v][i + d],
           local' = [local EXCEPT ![v] = s], global' = global,
           NEW r, r = IF d = 0 THEN Len(local[v]) ELSE 1
    PROVE  Removed(local[v][r])
<1> DEFINE k == local[v][r]
<1> USE DEF TypeOK
<1>1. Len(local[v]) \in Nat \ {0} /\ r \in 1..Len(local[v])
  OBVIOUS
<1>2. local'[v] = s /\ \A x \in Workers : x # v => local'[x] = local[x]
  OBVIOUS
<1>3. Queued(k)
  BY <1>1 DEF Queued
<1>4. k \notin global
  BY <1>1 DEF QueuedOnce
<1>5. \A x \in Workers : \A i \in 1..Len(local[x]) : local[x][i] = k => x = v /\ i = r
  BY SMTT(15), <1>1 DEF QueuedOnce
<1>6. \A i \in 1..Len(s) : i + d \in 1..Len(local[v]) /\ i + d # r
  BY <1>1
<1>7. \A i \in 1..Len(local[v]) : i # r => i - d \in 1..Len(s) /\ s[i - d] = local[v][i]
  <2>1. Len(s) \in Nat /\ Len(s) = Len(local[v]) - 1
    OBVIOUS
  <2>2. CASE d = 0
    BY <1>1, <2>1, <2>2
  <2>3. CASE d = 1
    BY <1>1, <2>1, <2>3
  <2> QED
    BY <2>2, <2>3
<1>8. ASSUME NEW j \in Tasks, Queued(j)' PROVE Queued(j) /\ j # k
  <2>1. CASE j \in global'
    BY <2>1, <1>4 DEF Queued
  <2>2. ASSUME NEW x \in Workers, NEW i \in 1..Len(local'[x]), local'[x][i] = j
        PROVE  Queued(j) /\ j # k
    <3>1. CASE x = v
      <4>1. i \in 1..Len(s) /\ j = local[v][i + d]
        BY <3>1, <2>2, <1>2
      <4>2. i + d \in 1..Len(local[v]) /\ i + d # r
        BY <4>1, <1>6
      <4> QED
        BY <4>1, <4>2, <1>5 DEF Queued
    <3>2. CASE x # v
      BY <3>2, <2>2, <1>2, <1>5 DEF Queued
    <3> QED
      BY <3>1, <3>2
  <2> QED
    BY <1>8, <2>1, <2>2 DEF Queued
<1>9. ASSUME NEW j \in Tasks, Queued(j), j # k PROVE Queued(j)'
  <2>1. CASE j \in global
    BY <2>1 DEF Queued
  <2>2. ASSUME NEW x \in Workers, NEW i \in 1..Len(local[x]), local[x][i] = j
        PROVE  Queued(j)'
    <3>1. CASE x = v
      <4>1. i # r
        BY <3>1, <2>2, <1>9
      <4>2. i - d \in 1..Len(local'[v]) /\ local'[v][i - d] = j
        BY <3>1, <4>1, <2>2, <1>2, <1>7
      <4> QED
        BY <4>2 DEF Queued
    <3>2. CASE x # v
      BY <3>2, <2>2, <1>2 DEF Queued
    <3> QED
      BY <3>1, <3>2
  <2> QED
    BY <1>9, <2>1, <2>2 DEF Queued
<1>10. QueuedOnce'
  <2> DEFINE Old(x, i) == IF x = v THEN i + d ELSE i
  <2>0. \A x, y \in Workers : \A a \in 1..Len(local[x]), b \in 1..Len(local[y]) :
           local[x][a] = local[y][b] => x = y /\ a = b
    BY SMTT(20) DEF QueuedOnce
  <2>1. \A x \in Workers : \A i \in 1..Len(local'[x]) :
           Old(x, i) \in 1..Len(local[x]) /\ local'[x][i] = local[x][Old(x, i)]
    BY <1>2, <1>6
  <2>2. SUFFICES ASSUME NEW x \in Workers, NEW i \in 1..Len(local'[x])
                 PROVE  /\ local'[x][i] \notin global'
                        /\ \A y \in Workers : \A j \in 1..Len(local'[y]) :
                              local'[x][i] = local'[y][j] => x = y /\ i = j
    BY DEF QueuedOnce
  <2>3. local'[x][i] \notin global
    BY <2>1 DEF QueuedOnce
  <2>4. ASSUME NEW y \in Workers, NEW j \in 1..Len(local'[y]), local'[x][i] = local'[y][j]
        PROVE  x = y /\ i = j
    <3>0. /\ Old(x, i) \in 1..Len(local[x]) /\ Old(y, j) \in 1..Len(local[y])
          /\ local[x][Old(x, i)] = local[y][Old(y, j)]
      BY <2>1, <2>4
    <3>1. \A a \in 1..Len(local[x]), b \in 1..Len(local[y]) :
             local[x][a] = local[y][b] => x = y /\ a = b
      BY <2>0
    <3>2. x = y /\ Old(x, i) = Old(y, j)
      BY <3>0, <3>1, Zenon
    <3>3. local'[x] \in Seq(Tasks) /\ i \in Int /\ j \in Int
      BY <3>2, <1>2
    <3> QED
      BY <3>2, <3>3
  <2> QED
    BY <2>3, <2>4
<1> QED
  BY <1>3, <1>8, <1>9, <1>10 DEF Removed

\* Starting a task that comes out of a queue.
LEMMA StartKeepsPlace ==
    ASSUME TypeOK, PlaceInv, NEW w \in Workers, NEW k \in Tasks,
           pc[w] # "run", Start(w, k), Removed(k)
    PROVE  PlaceInv'
<1> USE WorkerAssumption DEF TypeOK, PlaceInv
<1>1. fate[k] = "posted" /\ running[w] = NoTask
  BY DEF Removed, QueuedIffPosted, RunInv
<1>2. \A x \in Workers : running[x] # k
  BY <1>1 DEF RunByOne
<1>3. fate'[k] = "running" /\ \A j \in Tasks : j # k => fate'[j] = fate[j]
  BY DEF Start
<1>4. running'[w] = k /\ \A x \in Workers : x # w => running'[x] = running[x]
  BY DEF Start
<1>5. pc'[w] = "run" /\ \A x \in Workers : x # w => pc'[x] = pc[x]
  BY DEF Start, GoTo
<1>6. QueuedIffPosted'
  BY <1>3 DEF Removed, QueuedIffPosted
<1>7. RunByOne'
  <2>1. ASSUME NEW j \in Tasks PROVE fate'[j] = "running" <=> \E x \in Workers : running'[x] = j
    <3>1. CASE j = k
      BY <3>1, <1>3, <1>4
    <3>2. CASE j # k
      <4>1. \A x \in Workers : running'[x] = j <=> running[x] = j
        BY <3>2, <1>1, <1>4
      <4> QED
        BY <3>2, <4>1, <1>3 DEF RunByOne
    <3> QED
      BY <3>1, <3>2
  <2>2. ASSUME NEW x \in Workers, NEW y \in Workers,
               running'[x] = running'[y], running'[x] # NoTask
        PROVE  x = y
    <3>1. x = w <=> y = w
      BY <2>2, <1>2, <1>4
    <3>2. CASE x # w
      <4>1. running[x] = running[y] /\ running[x] # NoTask
        BY <3>1, <3>2, <2>2, <1>4
      <4> QED
        BY <4>1 DEF RunByOne
    <3> QED
      BY <3>1, <3>2
  <2> QED
    BY <2>1, <2>2 DEF RunByOne
<1>8. RunInv'
  BY <1>4, <1>5 DEF RunInv
<1> QED
  BY <1>6, <1>7, <1>8 DEF Removed

\* A task that was not posted before is put into a queue, or rejected.
LEMMA PostKeepsPlace ==
    ASSUME TypeOK, PlaceInv, NEW k \in Tasks, fate[k] = "new",
           UNCHANGED <<pc, running>>,
           NEW f \in {"posted", "rejected"}, fate' = [fate EXCEPT ![k] = f],
           QueuedOnce',
           \A j \in Tasks : Queued(j)' <=> Queued(j) \/ (j = k /\ f = "posted")
    PROVE  PlaceInv'
<1> USE DEF TypeOK, PlaceInv
<1>1. fate'[k] = f /\ \A j \in Tasks : j # k => fate'[j] = fate[j]
  OBVIOUS
<1>2. ~Queued(k)
  BY DEF QueuedIffPosted
<1>3. QueuedIffPosted'
  BY <1>1, <1>2 DEF QueuedIffPosted
<1>4. RunByOne'
  BY <1>1 DEF RunByOne
<1> QED
  BY <1>3, <1>4 DEF RunInv

\* Enqueue: the task joins the global queue, or is rejected.
LEMMA EnqueueKeepsPlace ==
    ASSUME TypeOK, PlaceInv, NEW k \in Tasks, fate[k] = "new", Enqueue(k),
           UNCHANGED <<local, pc, running>>
    PROVE  PlaceInv'
<1>1. ~Queued(k)
  BY DEF TypeOK, PlaceInv, QueuedIffPosted
<1>2. CASE global' = global \cup {k} /\ fate' = [fate EXCEPT ![k] = "posted"]
  <2>1. \A j \in Tasks : Queued(j)' <=> Queued(j) \/ j = k
    BY <1>2 DEF Queued
  <2>2. QueuedOnce'
    BY <1>1, <1>2 DEF PlaceInv, QueuedOnce, Queued
  <2> QED
    BY <1>2, <2>1, <2>2, PostKeepsPlace
<1>3. CASE global' = global /\ fate' = [fate EXCEPT ![k] = "rejected"]
  <2>1. \A j \in Tasks : Queued(j)' <=> Queued(j)
    BY <1>3 DEF Queued
  <2>2. QueuedOnce'
    BY <1>3 DEF PlaceInv, QueuedOnce
  <2> QED
    BY <1>3, <2>1, <2>2, PostKeepsPlace
<1> QED
  BY <1>2, <1>3 DEF Enqueue

\* QueuedOnce of the next state, with its bound variables renamed.
LEMMA OnceNext ==
    ASSUME \A x \in Workers : \A i \in 1..Len(local'[x]) :
              /\ local'[x][i] \notin global'
              /\ \A y \in Workers : \A j \in 1..Len(local'[y]) :
                    local'[x][i] = local'[y][j] => x = y /\ i = j
    PROVE  QueuedOnce'
BY DEF QueuedOnce

LEMMA OnceNow ==
    ASSUME QueuedOnce,
           NEW x \in Workers, NEW i \in 1..Len(local[x]),
           NEW y \in Workers, NEW j \in 1..Len(local[y]), local[x][i] = local[y][j]
    PROVE  x = y /\ i = j
BY DEF QueuedOnce

\* A task joins the bottom of a deque.
LEMMA AppendKeepsPlace ==
    ASSUME TypeOK, PlaceInv, NEW k \in Tasks, NEW w \in Workers, fate[k] = "new",
           local' = [local EXCEPT ![w] = Append(@, k)],
           fate' = [fate EXCEPT ![k] = "posted"],
           UNCHANGED <<global, pc, running>>
    PROVE  PlaceInv'
<1> USE DEF TypeOK
<1>1. ~Queued(k)
  BY DEF PlaceInv, QueuedIffPosted
<1>2. Len(local[w]) \in Nat /\ Len(local'[w]) = Len(local[w]) + 1
  OBVIOUS
<1>3. /\ local'[w][Len(local[w]) + 1] = k
      /\ \A i \in 1..Len(local[w]) : local'[w][i] = local[w][i]
  OBVIOUS
<1>4. \A x \in Workers : x # w => local'[x] = local[x]
  OBVIOUS
<1>5. \A x \in Workers : \A i \in 1..Len(local'[x]) :
         \/ x = w /\ i = Len(local[w]) + 1 /\ local'[x][i] = k
         \/ i \in 1..Len(local[x]) /\ local'[x][i] = local[x][i]
  BY <1>2, <1>3, <1>4
<1>6. \A x \in Workers : \A i \in 1..Len(local[x]) :
         i \in 1..Len(local'[x]) /\ local'[x][i] = local[x][i]
  BY <1>2, <1>3, <1>4
<1>7. \A j \in Tasks : Queued(j)' <=> Queued(j) \/ j = k
  <2>1. Queued(k)'
    BY <1>2, <1>3 DEF Queued
  <2>2. ASSUME NEW j \in Tasks, Queued(j) PROVE Queued(j)'
    BY <2>2, <1>6 DEF Queued
  <2>3. ASSUME NEW j \in Tasks, Queued(j)' PROVE Queued(j) \/ j = k
    BY <2>3, <1>5 DEF Queued
  <2> QED
    BY <2>1, <2>2, <2>3
<1>8. QueuedOnce'
  <2>1. \A x \in Workers : \A i \in 1..Len(local[x]) : local[x][i] # k
    BY <1>1 DEF Queued
  <2>2. k \notin global
    BY <1>1 DEF Queued
  <2>3. ASSUME NEW x \in Workers, NEW i \in 1..Len(local'[x])
        PROVE  /\ local'[x][i] \notin global'
               /\ \A y \in Workers : \A j \in 1..Len(local'[y]) :
                     local'[x][i] = local'[y][j] => x = y /\ i = j
    <3>1. CASE x = w /\ i = Len(local[w]) + 1 /\ local'[x][i] = k
      BY <2>1, <2>2, <3>1, <1>5
    <3>2. CASE i \in 1..Len(local[x]) /\ local'[x][i] = local[x][i]
      <4>1. local[x][i] \notin global
        BY <3>2 DEF PlaceInv, QueuedOnce
      <4>2. ASSUME NEW y \in Workers, NEW j \in 1..Len(local'[y]),
                   local'[x][i] = local'[y][j]
            PROVE  x = y /\ i = j
        <5>1. local[x][i] # k
          BY <2>1, <3>2
        <5>2. j \in 1..Len(local[y]) /\ local'[y][j] = local[y][j]
          BY <3>2, <4>2, <5>1, <1>5
        <5>3. local[x][i] = local[y][j]
          BY <3>2, <4>2, <5>2
        <5> QED
          BY SMTT(15), <3>2, <5>2, <5>3, OnceNow DEF PlaceInv
      <4> QED
        BY <3>2, <4>1, <4>2
    <3> QED
      BY <1>5, <3>1, <3>2
  <2> QED
    BY <2>3, OnceNext
<1> QED
  BY <1>7, <1>8, PostKeepsPlace

\* What the queues hold depends on nothing but the queues.
LEMMA SameQueues == ASSUME QueuedOnce, UNCHANGED queues PROVE QueuedOnce'
<1>1. local' = local /\ global' = global
  BY DEF queues
<1> QED
  BY <1>1 DEF QueuedOnce

\* A task ends: only its fate and its worker change.
LEMMA EndKeepsPlace ==
    ASSUME TypeOK, PlaceInv, NEW w \in Workers, pc[w] = "run",
           NEW f \in {"done", "leaked"},
           fate' = [fate EXCEPT ![running[w]] = f],
           running' = [running EXCEPT ![w] = NoTask],
           GoTo(w, "top"), UNCHANGED queues
    PROVE  PlaceInv'
<1> USE WorkerAssumption DEF TypeOK, PlaceInv, queues
<1>1. running[w] \in Tasks /\ fate[running[w]] = "running"
  BY DEF RunInv, RunByOne
<1>2. fate'[running[w]] = f /\ \A j \in Tasks : j # running[w] => fate'[j] = fate[j]
  BY <1>1
<1>3. running'[w] = NoTask /\ \A x \in Workers : x # w => running'[x] = running[x]
  OBVIOUS
<1>4. pc'[w] = "top" /\ \A x \in Workers : x # w => pc'[x] = pc[x]
  BY DEF GoTo
<1>5. \A j \in Tasks : Queued(j)' <=> Queued(j)
  BY DEF Queued
<1>6. QueuedIffPosted'
  BY <1>1, <1>2, <1>5 DEF QueuedIffPosted
<1>7. QueuedOnce'
  BY SameQueues
<1>8. RunByOne'
  BY SMTT(15), <1>1, <1>2, <1>3 DEF RunByOne
<1>9. RunInv'
  BY <1>3, <1>4 DEF RunInv
<1> QED
  BY <1>6, <1>7, <1>8, <1>9

LEMMA LoopPlace == Spec => []PlaceInv
<1> USE WorkerAssumption
<1>1. Init => PlaceInv
  BY DEF Init, PlaceInv, QueuedIffPosted, QueuedOnce, RunByOne, RunInv, Queued, Workers
<1>2. TypeOK /\ PlaceInv /\ [Next]_vars => PlaceInv'
  <2> SUFFICES ASSUME TypeOK, PlaceInv, [Next]_vars PROVE PlaceInv'
    OBVIOUS
  <2>0. ASSUME UNCHANGED <<local, global, running, fate>>,
               \A x \in Workers : pc'[x] = "run" <=> pc[x] = "run"
        PROVE  PlaceInv'
    BY <2>0 DEF PlaceInv, QueuedIffPosted, QueuedOnce, RunByOne, RunInv, Queued
  <2>1. ASSUME UNCHANGED <<queues, running, fate>>,
               \A x \in Workers : pc'[x] = "run" <=> pc[x] = "run"
        PROVE  PlaceInv'
    BY <2>0, <2>1 DEF queues
  <2>2. ASSUME NEW k \in Tasks, PostOutside(k) PROVE PlaceInv'
    BY <2>2, EnqueueKeepsPlace DEF PostOutside, thread
  <2>3. ASSUME NEW k \in Tasks, NEW w \in Workers, PostInside(w, k) PROVE PlaceInv'
    BY <2>3, EnqueueKeepsPlace, AppendKeepsPlace DEF PostInside, thread
  <2>4. CASE Shutdown \/ UNCHANGED vars
    BY <2>1, <2>4 DEF Shutdown, vars, thread
  <2>5. CASE Notify
    <3>1. notifying \in Workers
      BY <2>5 DEF Notify, Workers, TypeOK
    <3>2. \A x \in Workers : pc'[x] = "run" <=> pc[x] = "run"
      BY <2>5, <3>1 DEF Notify, TypeOK
    <3> QED
      BY <2>1, <2>5, <3>2 DEF Notify
  <2>6. ASSUME NEW w \in Workers, Run(w) \/ WakeSpuriously(w) PROVE PlaceInv'
    <3>1. CASE LoopTop(w) \/ NextVictim(w) \/ Spin(w) \/ CheckPredicate(w)
               \/ Block(w) \/ WakeSpuriously(w)
      <4>1. UNCHANGED <<queues, running, fate>>
        BY <3>1 DEF LoopTop, NextVictim, Spin, CheckPredicate, Block, WakeSpuriously
      <4>2. \A x \in Workers : pc'[x] = "run" <=> pc[x] = "run"
        BY <3>1 DEF LoopTop, NextVictim, Spin, CheckPredicate, Block, WakeSpuriously,
                    GoTo, TypeOK
      <4> QED
        BY <2>1, <4>1, <4>2
    <3>2. ASSUME UNCHANGED <<queues, running, fate>>, NEW label, label # "run",
                 pc[w] # "run", GoTo(w, label)
          PROVE  PlaceInv'
      <4>1. \A x \in Workers : pc'[x] = "run" <=> pc[x] = "run"
        BY <3>2 DEF GoTo, TypeOK
      <4> QED
        BY <2>1, <3>2, <4>1
    <3>3. CASE TakeLocal(w)
      <4>1. CASE /\ local[w] # <<>> /\ Start(w, local[w][Len(local[w])])
                 /\ local' = [local EXCEPT ![w] = SubSeq(@, 1, Len(@) - 1)]
        <5> DEFINE s == SubSeq(local[w], 1, Len(local[w]) - 1)
        <5>0. local[w] \in Seq(Tasks) /\ Len(local[w]) \in Nat \ {0}
          BY <4>1 DEF TypeOK
        <5>1. /\ local[w] \in Seq(Tasks) /\ s \in Seq(Tasks)
              /\ local[w][Len(local[w])] \in Tasks
              /\ Len(s) = Len(local[w]) - 1
              /\ \A i \in 1..Len(s) : s[i] = local[w][i + 0]
          BY <5>0
        <5>2. local' = [local EXCEPT ![w] = s] /\ global' = global
          BY <3>3, <4>1 DEF TakeLocal
        <5> HIDE DEF s
        <5>3. QueuedOnce /\ pc[w] # "run"
          BY <3>3 DEF PlaceInv, TakeLocal
        <5>4. Removed(local[w][Len(local[w])])
          BY <4>1, <5>1, <5>2, <5>3, DequeLoses
        <5> QED
          BY <4>1, <5>1, <5>3, <5>4, StartKeepsPlace
      <4>2. CASE GoTo(w, "global") /\ UNCHANGED <<local, running, fate>>
        BY <3>2, <3>3, <4>2 DEF TakeLocal, queues
      <4> QED
        BY <3>3, <4>1, <4>2 DEF TakeLocal
    <3>4. CASE TakeGlobal(w)
      <4>1. ASSUME NEW k \in global, Start(w, k), global' = global \ {k}
            PROVE  PlaceInv'
        <5>1. k \in Tasks /\ local' = local /\ pc[w] # "run"
          BY <3>4 DEF TakeGlobal, TypeOK
        <5>2. \A x \in Workers : \A i \in 1..Len(local[x]) : local[x][i] # k
          BY DEF PlaceInv, QueuedOnce
        <5>3. Removed(k)
          BY <4>1, <5>1, <5>2 DEF Removed, Queued, QueuedOnce, PlaceInv
        <5> QED
          BY <4>1, <5>1, <5>3, StartKeepsPlace
      <4>2. CASE GoTo(w, "steal") /\ UNCHANGED <<global, running, fate>>
        BY <3>2, <3>4, <4>2 DEF TakeGlobal, queues
      <4> QED
        BY <3>4, <4>1, <4>2 DEF TakeGlobal
    <3>5. CASE TakeStolen(w)
      <4> DEFINE v == victim[w]
                 s == Tail(local[v])
      <4>1. v \in Workers /\ local[v] # <<>> /\ pc[w] # "run"
        BY <3>5, StolenVictim
      <4>2. Start(w, Head(local[v]))
        BY <3>5 DEF TakeStolen
      <4>3. local' = [local EXCEPT ![v] = s] /\ global' = global
        BY <3>5 DEF TakeStolen
      <4>4. /\ local[v] \in Seq(Tasks) /\ s \in Seq(Tasks)
            /\ local[v][1] \in Tasks /\ Head(local[v]) = local[v][1]
            /\ Len(s) = Len(local[v]) - 1
            /\ \A i \in 1..Len(s) : s[i] = local[v][i + 1]
        BY <4>1 DEF TypeOK
      <4> HIDE DEF s, v
      <4>5. QueuedOnce /\ 1 \in {0, 1} /\ 1 = IF 1 = 0 THEN Len(local[v]) ELSE 1
        BY DEF PlaceInv
      <4>6. Removed(local[v][1])
        BY <4>1, <4>3, <4>4, <4>5, DequeLoses
      <4> QED
        BY <4>1, <4>2, <4>4, <4>6, StartKeepsPlace
    <3>6. CASE TaskReturns(w) \/ TaskThrows(w)
      BY <3>6, EndKeepsPlace DEF TaskReturns, TaskThrows
    <3>7. CASE Break(w)
      BY <2>0, <3>7 DEF Break, thread
    <3>8. CASE TakeAgain(w)
      <4>1. pc[w] # "run" /\ UNCHANGED <<queues, running, fate>>
        BY <3>8 DEF TakeAgain
      <4> QED
        BY <3>2, <3>8, <4>1 DEF TakeAgain
    <3> QED
      BY <2>6, <3>1, <3>3, <3>4, <3>5, <3>6, <3>7, <3>8 DEF Run
  <2> QED
    BY <2>2, <2>3, <2>4, <2>5, <2>6 DEF Next, Post
<1> QED
  BY <1>1, <1>2, LoopTypes, PTL DEF Spec

\* Only a broken deque leads a worker astray, and what is broken stays so.
AstrayInv == broken = {} => \A w \in Workers : pc[w] # "astray"

LEMMA LoopAstray == Spec => []AstrayInv
<1> USE WorkerAssumption
<1>1. Init => AstrayInv
  BY DEF Init, AstrayInv
<1>2. TypeOK /\ AstrayInv /\ [Next]_vars => AstrayInv'
  <2> SUFFICES ASSUME TypeOK, AstrayInv, [Next]_vars, broken' = {},
                      NEW v \in Workers
               PROVE  pc'[v] # "astray"
    BY DEF AstrayInv
  <2> USE DEF TypeOK, AstrayInv, GoTo
  <2>1. broken = {}
    BY DEF Next, Post, PostOutside, PostInside, Shutdown, Notify, Run, LoopTop, TakeLocal,
           TakeGlobal, TakeStolen, NextVictim, Break, TakeAgain, Spin, CheckPredicate, Block,
           TaskReturns, TaskThrows, WakeSpuriously, vars, queues
  <2>2. CASE Post \/ Shutdown \/ UNCHANGED vars
    BY <2>1, <2>2 DEF Post, PostOutside, PostInside, Shutdown, thread, vars
  <2>3. CASE Notify
    BY <2>1, <2>3 DEF Notify
  <2>4. ASSUME NEW w \in Workers, Run(w) \/ WakeSpuriously(w)
        PROVE  pc'[v] # "astray"
    <3>1. \A x \in Workers : x # w => pc'[x] = pc[x]
      BY <2>4 DEF Run, LoopTop, TakeLocal, TakeGlobal, TakeStolen, NextVictim, Break, TakeAgain,
                  Spin, CheckPredicate, Block, TaskReturns, TaskThrows, WakeSpuriously, Start,
                  thread
    <3>2. ~TakeAgain(w)
      BY <2>1 DEF TakeAgain
    <3>3. pc'[w] # "astray"
      BY <2>1, <2>4, <3>2
      DEF Run, LoopTop, TakeLocal, TakeGlobal, TakeStolen, NextVictim, Break,
          Spin, CheckPredicate, Block, TaskReturns, TaskThrows, WakeSpuriously, Start, thread
    <3> QED
      BY <2>1, <3>1, <3>3
  <2> QED
    BY <2>2, <2>3, <2>4 DEF Next
<1> QED
  BY <1>1, <1>2, LoopTypes, PTL DEF Spec

(***************************************************************************)
(* Until a deque breaks every posted task is in one queue, once, or with   *)
(* one worker, and no worker is handed a task a second time.               *)
(***************************************************************************)
THEOREM LoopOnePlace == Spec => []OnePlace
<1>1. PlaceInv /\ AstrayInv => OnePlace
  BY DEF PlaceInv, AstrayInv, OnePlace
<1> QED
  BY <1>1, LoopPlace, LoopAstray, PTL

-----------------------------------------------------------------------------
(* The pool's worker loop is a WorkerLoop.                                 *)

LEMMA SameCompute ==
    ASSUME NEW p \in Threads \cup {Main}, NEW k \in Tasks, PostCompute(p, k)
    PROVE  PostOutside(k) \/ \E w \in Workers : PostInside(w, k)
BY DEF PostCompute, Workers, Threads

LEMMA SameRoute ==
    ASSUME NEW p \in Threads \cup {Main}, NEW k \in Tasks, NEW c,
           Route(p, k, c)
    PROVE  \/ UNCHANGED vars
           \/ PostOutside(k)
           \/ \E w \in Workers : PostInside(w, k)
<1>1. PostCompute(p, k) => PostOutside(k) \/ \E w \in Workers : PostInside(w, k)
  BY SameCompute
<1>2. PostAsync(p, k) => UNCHANGED vars
  BY DEF PostAsync, Die, computeVars
<1>3. PostAny(p, k) => PostCompute(p, k)
  BY DEF PostAny
<1>4. UNCHANGED loops => UNCHANGED vars
  BY DEF loops, computeVars
<1> QED
  BY <1>1, <1>2, <1>3, <1>4 DEF Route

LEMMA SamePosts ==
    ASSUME Posts
    PROVE  [Next]_vars
<1>1. PICK p \in Threads \cup {Main}, k \in Tasks :
          \/ \E c \in Configs : PostTask(p, k, c)
          \/ \E type \in {AnyType, AsyncType, ComputeType} :
                PostBound(p, k, type)
  BY DEF Posts, Threads
<1>2. \E c : Route(p, k, c)
  BY <1>1 DEF PostTask, PostBound
<1> QED
  BY <1>2, SameRoute DEF Next, Post

LEMMA PoolStep == [PoolNext]_poolVars => [Next]_vars
<1> SUFFICES ASSUME [PoolNext]_poolVars PROVE [Next]_vars
  OBVIOUS
<1> USE DEF loops, computeVars
<1>1. CASE Spawn \/ Open \/ StopLoop \/ JoinLoop \/ JoinWorkers
            \/ SpawnFails
  BY <1>1 DEF Spawn, Open, StopLoop, JoinLoop, JoinWorkers,
              SpawnFails
<1>2. CASE NotifyWorkers \/ Close
  BY <1>2 DEF NotifyWorkers, Close, Next
<1>3. ASSUME NEW i \in Threads, InitThread(i) \/ CountDown(i) PROVE [Next]_vars
  BY <1>3 DEF InitThread, CountDown, Die
<1>4. ASSUME NEW w \in Workers, WorkerRuns(w) \/ WorkerWakes(w)
      PROVE  [Next]_vars
  BY <1>4 DEF WorkerRuns, WorkerWakes, Next
<1>5. CASE EsRuns \/ EsThrows
  BY <1>5 DEF EsRuns, EsThrows, Die
<1>6. CASE UNCHANGED poolVars
  BY <1>6 DEF poolVars
<1> QED
  BY <1>1, <1>2, <1>3, <1>4, <1>5, <1>6, SamePosts
  DEF PoolNext, MainRuns, Threads, Workers

(***************************************************************************)
(* The pool's worker loop is a WorkerLoop: whatever the pool does, what is *)
(* proved of Run, PostTask and Shutdown there holds of the loop in here.   *)
(***************************************************************************)
THEOREM PoolHasLoop == PoolSpec => Spec
<1>1. PoolInit => Init
  BY DEF PoolInit
<1> QED
  BY <1>1, PoolStep, PTL DEF PoolSpec, Spec

\* In particular each of its tasks has one place.
LEMMA PoolPlaces == PoolSpec => [](TypeOK /\ PlaceInv)
BY PoolHasLoop, LoopTypes, LoopPlace, PTL

-----------------------------------------------------------------------------
(* The constructor.                                                        *)

\* The threads that have not counted the latch down.
Waiting == {i \in Threads : poolThread[i] \notin {"loop", "done"}}

StartTypes ==
    /\ spawned \in Nat /\ latch \in Int
    /\ phase = "spawn" => spawned \in Threads
    /\ poolThread \in [Threads -> {"none", "started", "initialised", "loop", "done"}]
    /\ token \in [Threads -> Int]

\* Threads are started in order, and the latch counts those that are not ready.
StartInv ==
    /\ StartTypes
    /\ phase = "spawn" => \A i \in Threads : i >= spawned => poolThread[i] = "none"
    /\ latch = Cardinality(Waiting)
    /\ \A i \in Threads : poolThread[i] \in {"loop", "done"} => token[i] = i
    /\ phase \notin {"spawn", "unwinding", "latch"} => Waiting = {}

LEMMA WaitingFinite == /\ IsFiniteSet(Waiting) /\ Cardinality(Waiting) \in Nat
                       /\ Cardinality(Waiting) = 0 <=> Waiting = {}
<1>1. IsFiniteSet(Threads)
  BY WorkerAssumption, FS_Interval DEF Threads
<1>2. IsFiniteSet(Waiting)
  BY <1>1, FS_Subset DEF Waiting
<1> QED
  BY <1>2, FS_CardinalityType, FS_EmptySet

LEMMA StartInit == PoolInit => StartInv
<1> SUFFICES ASSUME PoolInit PROVE StartInv
  OBVIOUS
<1> USE DEF PoolInit
<1>1. StartTypes
  BY WorkerAssumption DEF StartTypes, Threads
<1>2. \A i \in Threads : poolThread[i] = "none"
  BY DEF Threads
<1>3. Waiting = 0..N
  BY <1>2 DEF Waiting, Threads
<1>4. latch = Cardinality(Waiting)
  BY <1>3, WorkerAssumption, FS_Interval
<1> QED
  BY <1>1, <1>2, <1>4 DEF StartInv

\* Steps that leave the threads where they are, in or out of the loops.
LEMMA StartKept ==
    ASSUME StartInv, Waiting' = Waiting, StartTypes', UNCHANGED <<latch, token>>,
           \A i \in Threads : poolThread'[i] \in {"loop", "done"}
                                    => poolThread[i] \in {"loop", "done"},
           phase' = "spawn" =>
               \A i \in Threads : i >= spawned' => poolThread'[i] = "none",
           phase' \notin {"spawn", "unwinding", "latch"} => Waiting = {}
    PROVE  StartInv'
BY DEF StartInv

LEMMA StartStep == StartInv /\ [PoolNext]_poolVars => StartInv'
<1> SUFFICES ASSUME StartInv, [PoolNext]_poolVars PROVE StartInv'
  OBVIOUS
<1> USE WorkerAssumption
<1>1. CASE Spawn
  <2>1. phase = "spawn" /\ spawned \in Threads /\ poolThread[spawned] = "none"
    BY <1>1 DEF Spawn, StartInv, StartTypes, Threads
  <2>2. poolThread' = [poolThread EXCEPT ![spawned] = "started"]
        /\ spawned' = spawned + 1 /\ phase' = (IF spawned = N THEN "latch" ELSE phase)
        /\ UNCHANGED <<latch, token>>
    BY <1>1 DEF Spawn
  <2>3. Waiting' = Waiting
    BY <2>1, <2>2 DEF Waiting, StartInv, StartTypes
  <2>4. StartTypes'
    BY <2>1, <2>2 DEF StartInv, StartTypes, Threads
  <2>5. phase' = "spawn" =>
            \A i \in Threads : i >= spawned' => poolThread'[i] = "none"
    BY <2>1, <2>2 DEF StartInv, StartTypes, Threads
  <2>6. phase' \in {"spawn", "latch"}
    BY <2>1, <2>2
  <2>7. \A i \in Threads : poolThread'[i] \in {"loop", "done"}
                                  => poolThread[i] \in {"loop", "done"}
    BY <2>1, <2>2 DEF StartInv, StartTypes
  <2> QED
    BY <2>2, <2>3, <2>4, <2>5, <2>6, <2>7, StartKept
<1>2. CASE Open
  <2>1. phase = "latch" /\ latch = 0 /\ phase' = "open"
        /\ UNCHANGED <<spawned, latch, poolThread, token>>
    BY <1>2 DEF Open, start
  <2>2. Waiting = {}
    BY <2>1, WaitingFinite DEF StartInv
  <2> QED
    BY <2>1, <2>2, StartKept DEF StartInv, StartTypes, Waiting
<1>3. ASSUME UNCHANGED <<spawned, latch, poolThread, token>>,
             \/ phase' = phase
             \/ phase = "spawn" /\ phase' = "unwinding"
             \/ phase \in {"open", "notify", "joinLoop", "joinWorkers"} /\ phase' # "spawn"
      PROVE  StartInv'
  BY <1>3, StartKept DEF StartInv, StartTypes, Waiting
<1>4. CASE SpawnFails \/ Close \/ NotifyWorkers \/ StopLoop \/ JoinLoop
            \/ JoinWorkers
  BY <1>3, <1>4 DEF SpawnFails, Close, NotifyWorkers, StopLoop, JoinLoop,
                    JoinWorkers, start
<1>5. CASE \/ Posts \/ EsThrows \/ UNCHANGED poolVars
           \/ \E w \in Workers : WorkerRuns(w) \/ WorkerWakes(w)
  <2>1. UNCHANGED phase /\ UNCHANGED start
    BY <1>5 DEF Posts, PostTask, PostBound, poolVars, EsThrows,
                WorkerRuns, WorkerWakes
  <2> QED
    BY <1>3, <2>1 DEF start
<1>6. ASSUME NEW i \in Threads, InitThread(i) PROVE StartInv'
  <2>1. CASE UNCHANGED poolThread
    BY <1>3, <1>6, <2>1 DEF InitThread
  <2>2. CASE poolThread' = [poolThread EXCEPT ![i] = "initialised"]
    <3>1. poolThread[i] = "started" /\ UNCHANGED <<spawned, latch, token, phase>>
      BY <1>6 DEF InitThread
    <3>2. Waiting' = Waiting /\ StartTypes'
      BY <2>2, <3>1 DEF Waiting, StartInv, StartTypes
    <3>3. phase' = "spawn" =>
              \A j \in Threads : j >= spawned' => poolThread'[j] = "none"
      BY <2>2, <3>1 DEF StartInv, StartTypes
    <3>4. \A j \in Threads : poolThread'[j] \in {"loop", "done"}
                                    => poolThread[j] \in {"loop", "done"}
      BY <2>2 DEF StartInv, StartTypes
    <3> QED
      BY <3>1, <3>2, <3>3, <3>4, StartKept DEF StartInv
  <2> QED
    BY <1>6, <2>1, <2>2 DEF InitThread
<1>7. ASSUME NEW i \in Threads, CountDown(i) PROVE StartInv'
  <2>1. CASE UNCHANGED poolThread
    <3>1. UNCHANGED <<spawned, latch, token, phase>>
      BY <1>7, <2>1 DEF CountDown, Threads, EsThread, StartInv, StartTypes
    <3> QED
      BY <1>3, <2>1, <3>1
  <2>2. CASE poolThread' = [poolThread EXCEPT ![i] = "loop"] /\ latch' = latch - 1
              /\ token' = [token EXCEPT ![i] = i]
    <3>1. poolThread[i] \in {"started", "initialised"} /\ UNCHANGED <<spawned, phase>>
      BY <1>7 DEF CountDown
    <3>2. i \in Waiting /\ Waiting' = Waiting \ {i}
      BY <2>2, <3>1 DEF Waiting, StartInv, StartTypes
    <3>3. Cardinality(Waiting') = Cardinality(Waiting) - 1
      BY <3>2, WaitingFinite, FS_RemoveElement
    <3>4. StartTypes'
      BY <2>2, <3>1 DEF StartInv, StartTypes, Threads
    <3>5. \A j \in Threads : poolThread'[j] \in {"loop", "done"} => token'[j] = j
      BY <2>2 DEF StartInv, StartTypes
    <3>6. phase' = "spawn" =>
              \A j \in Threads : j >= spawned' => poolThread'[j] = "none"
      BY <2>2, <3>1 DEF StartInv, StartTypes
    <3> QED
      BY <2>2, <3>1, <3>2, <3>3, <3>4, <3>5, <3>6 DEF StartInv
  <2> QED
    BY <1>7, <2>1, <2>2 DEF CountDown
<1>8. CASE EsRuns
  <2>1. UNCHANGED <<spawned, latch, token, phase>>
    BY <1>8 DEF EsRuns
  <2>2. poolThread[EsThread] = "loop" /\ EsThread \in Threads
    BY <1>8 DEF EsRuns, EsThread, Threads
  <2>3. UNCHANGED poolThread \/ poolThread' = [poolThread EXCEPT ![EsThread] = "done"]
    BY <1>8 DEF EsRuns, EsThread
  <2>4. Waiting' = Waiting /\ StartTypes'
    BY <2>1, <2>2, <2>3 DEF Waiting, StartInv, StartTypes
  <2>5. \A j \in Threads : \/ poolThread'[j] = poolThread[j]
                           \/ poolThread[j] = "loop" /\ poolThread'[j] = "done"
    <3>1. CASE UNCHANGED poolThread
      BY <3>1
    <3>2. CASE poolThread' = [poolThread EXCEPT ![EsThread] = "done"]
      BY <2>2, <3>2 DEF StartInv, StartTypes
    <3> QED
      BY <2>3, <3>1, <3>2
  <2> QED
    BY <2>1, <2>4, <2>5, StartKept DEF StartInv
<1> QED
  BY <1>1, <1>2, <1>4, <1>5, <1>6, <1>7, <1>8
  DEF PoolNext, MainRuns, Threads, Workers

(***************************************************************************)
(* When the constructor returns every thread of the pool has its token and *)
(* has run its initialisation, whichever order they come to the latch in.  *)
(***************************************************************************)
THEOREM PoolReady == PoolSpec => []ReadyWhenOpen
<1>1. StartInv => ReadyWhenOpen
  BY DEF StartInv, StartTypes, Waiting, ReadyWhenOpen, Threads
<1> QED
  BY <1>1, StartInit, StartStep, PTL DEF PoolSpec

-----------------------------------------------------------------------------
(* Tasks and the two loops.                                                *)

TaskHandlers == [kind : {"task"}, task : Tasks]
UnderWay == {"posted", "running"}

\* The event loop's queue holds the tasks posted to it, once each.
EsInv ==
    /\ ready \in Seq(TaskHandlers)
    /\ esFate \in [Tasks -> {"new", "posted", "running", "done"}]
    /\ \A i \in 1..Len(ready) : esFate[ready[i].task] = "posted"
    /\ \A i, j \in 1..Len(ready) : ready[i].task = ready[j].task => i = j
    /\ esPc = "task" => current.task \in Tasks /\ esFate[current.task] = "running"

\* A loop has only what it was posted.
ConfInv ==
    /\ counter \in Int /\ conf \in [Tasks -> Int]
    /\ bound \in [Tasks -> {"no", "yes", "wrapped"}]
    /\ \A k \in Tasks : fate[k] # "new" => conf[k] \in {-1, -3} \cup Workers
    /\ \A k \in Tasks : esFate[k] # "new" => conf[k] \in {-1, -2, N}
    /\ \A k \in Tasks : bound[k] = "yes" => conf[k] \in Threads

FreedInv == failed = "freed" => \E k \in Tasks : conf[k] = -1

TaskInv == EsInv /\ ConfInv /\ FreedInv

LEMMA EsFrozen ==
    ASSUME EsInv, UNCHANGED <<ready, esFate, esPc, current>>
    PROVE  EsInv'
BY DEF EsInv

LEMMA ReadyTasks == EsInv => \A i \in 1..Len(ready) : ready[i].task \in Tasks
<1> SUFFICES ASSUME EsInv, NEW i \in 1..Len(ready) PROVE ready[i].task \in Tasks
  OBVIOUS
<1>1. ready[i] \in TaskHandlers
  BY DEF EsInv
<1> QED
  BY <1>1 DEF TaskHandlers

LEMMA EsPost ==
    ASSUME EsInv, NEW p, NEW k \in Tasks, Async!PostTask(p, k)
    PROVE  /\ EsInv'
           /\ esFate[k] = "new" /\ esFate' = [esFate EXCEPT ![k] = "posted"]
           /\ UNCHANGED <<esPc, current, failed>>
<1>1. /\ esFate[k] = "new" /\ esFate' = [esFate EXCEPT ![k] = "posted"]
      /\ UNCHANGED <<esPc, current, failed>>
      /\ ready' = Append(ready, [kind |-> "task", task |-> k])
  BY DEF Async!PostTask, Async!thread, Async!TaskHandler
<1>2. [kind |-> "task", task |-> k] \in TaskHandlers
  BY DEF TaskHandlers
<1>3. /\ ready' \in Seq(TaskHandlers) /\ Len(ready') = Len(ready) + 1 /\ Len(ready) \in Nat
      /\ \A i \in 1..Len(ready) : ready'[i] = ready[i]
      /\ ready'[Len(ready) + 1] = [kind |-> "task", task |-> k]
  BY <1>1, <1>2 DEF EsInv
<1>4. \A i \in 1..Len(ready) : ready[i].task # k
  BY <1>1 DEF EsInv
<1>5. ASSUME NEW i \in 1..Len(ready')
      PROVE  \/ /\ i \in 1..Len(ready) /\ ready'[i].task = ready[i].task
                /\ ready[i].task # k
             \/ i = Len(ready) + 1 /\ ready'[i].task = k
  <2>1. CASE i \in 1..Len(ready)
    BY <1>3, <1>4, <2>1
  <2>2. CASE i \notin 1..Len(ready)
    <3>1. i = Len(ready) + 1
      BY <1>3, <2>2
    <3> QED
      BY <1>3, <3>1
  <2> QED
    BY <2>1, <2>2
<1>6. \A i \in 1..Len(ready) : ready[i].task \in Tasks
  BY ReadyTasks
<1>7. \A i \in 1..Len(ready') : esFate'[ready'[i].task] = "posted"
  BY <1>1, <1>5, <1>6 DEF EsInv
<1>8. \A i, j \in 1..Len(ready') : ready'[i].task = ready'[j].task => i = j
  BY <1>5 DEF EsInv
<1>9. esPc' = "task" => current'.task \in Tasks /\ esFate'[current'.task] = "running"
  BY <1>1 DEF EsInv
<1>10. esFate' \in [Tasks -> {"new", "posted", "running", "done"}]
  BY <1>1 DEF EsInv
<1> QED
  BY <1>1, <1>3, <1>7, <1>8, <1>9, <1>10 DEF EsInv

LEMMA EsHandle ==
    ASSUME EsInv, Async!HandleTask
    PROVE  /\ EsInv'
           /\ current'.task \in Tasks /\ esFate[current'.task] = "posted"
           /\ esFate' = [esFate EXCEPT ![current'.task] = "running"]
<1>1. /\ ready # <<>> /\ ready' = Tail(ready)
      /\ esPc' = "task" /\ current' = Head(ready)
      /\ esFate' = [esFate EXCEPT ![Head(ready).task] = "running"]
  BY DEF Async!HandleTask, Async!Take
<1>2. /\ Head(ready) = ready[1] /\ Len(ready) \in Nat \ {0}
      /\ ready' \in Seq(TaskHandlers) /\ Len(ready') = Len(ready) - 1
      /\ \A i \in 1..Len(ready') : i + 1 \in 1..Len(ready) /\ ready'[i] = ready[i + 1]
  BY <1>1 DEF EsInv
<1>3. /\ \A i \in 1..Len(ready) : ready[i].task \in Tasks
      /\ 1 \in 1..Len(ready)
  BY <1>2, ReadyTasks
<1>4. ready[1].task \in Tasks /\ esFate[ready[1].task] = "posted"
  BY <1>3 DEF EsInv
<1>5. \A i \in 1..Len(ready') : ready'[i].task # ready[1].task /\ ready'[i].task \in Tasks
                               /\ esFate[ready'[i].task] = "posted"
  <2> SUFFICES ASSUME NEW i \in 1..Len(ready')
               PROVE  ready'[i].task # ready[1].task /\ ready'[i].task \in Tasks
                      /\ esFate[ready'[i].task] = "posted"
    OBVIOUS
  <2>1. i + 1 \in 1..Len(ready) /\ ready'[i] = ready[i + 1] /\ i + 1 # 1
    BY <1>2
  <2> QED
    BY <1>3, <2>1 DEF EsInv
<1>6. \A i \in 1..Len(ready') : esFate'[ready'[i].task] = "posted"
  BY <1>1, <1>2, <1>5 DEF EsInv
<1>7. \A i, j \in 1..Len(ready') : ready'[i].task = ready'[j].task => i = j
  <2> SUFFICES ASSUME NEW i \in 1..Len(ready'), NEW j \in 1..Len(ready'),
                      ready'[i].task = ready'[j].task
               PROVE  i = j
    OBVIOUS
  <2>1. i + 1 \in 1..Len(ready) /\ j + 1 \in 1..Len(ready)
        /\ ready[i + 1].task = ready[j + 1].task
    BY <1>2
  <2>2. i + 1 = j + 1
    BY <2>1 DEF EsInv
  <2> QED
    BY <2>2, <1>2
<1>8. esFate'[current'.task] = "running" /\ current'.task \in Tasks
  BY <1>1, <1>2, <1>4 DEF EsInv
<1>9. esFate' \in [Tasks -> {"new", "posted", "running", "done"}]
  BY <1>1, <1>2, <1>4 DEF EsInv
<1> QED
  BY <1>1, <1>2, <1>4, <1>6, <1>7, <1>8, <1>9 DEF EsInv

LEMMA EsReturn ==
    ASSUME EsInv, Async!TaskReturns
    PROVE  /\ EsInv'
           /\ current.task \in Tasks /\ esFate[current.task] = "running"
           /\ esFate' = [esFate EXCEPT ![current.task] = "done"]
<1>1. /\ esPc = "task" /\ UNCHANGED ready
      /\ esFate' = [esFate EXCEPT ![current.task] = "done"]
      /\ esPc' \in {"outside", "wait"}
  BY DEF Async!TaskReturns, Async!At, Async!Back, Async!context
<1>2. current.task \in Tasks /\ esFate[current.task] = "running"
  BY <1>1 DEF EsInv
<1>3. \A i \in 1..Len(ready) : ready[i].task \in Tasks /\ ready[i].task # current.task
  BY <1>2, ReadyTasks DEF EsInv
<1>4. \A i \in 1..Len(ready) : esFate'[ready[i].task] = "posted"
  BY <1>1, <1>3 DEF EsInv
<1>5. esFate' \in [Tasks -> {"new", "posted", "running", "done"}]
  BY <1>1 DEF EsInv
<1> QED
  BY <1>1, <1>2, <1>4, <1>5 DEF EsInv

\* What a worker changes in its loop is a task that was posted or that runs.
LEMMA RunChanges ==
    ASSUME TypeOK, PlaceInv, NEW w \in Workers, Run(w), NEW k \in Tasks, fate'[k] # fate[k]
    PROVE  fate[k] \in UnderWay
<1> USE DEF TypeOK
<1>1. ASSUME NEW j, Queued(j), j \in Tasks, fate' = [fate EXCEPT ![j] = "running"]
      PROVE  fate[k] \in UnderWay
  <2>1. fate[j] = "posted"
    BY <1>1 DEF PlaceInv, QueuedIffPosted
  <2> QED
    BY <1>1, <2>1 DEF UnderWay
<1>2. CASE TakeLocal(w)
  <2>1. local[w] # <<>> /\ Start(w, local[w][Len(local[w])])
    BY <1>2 DEF TakeLocal
  <2>2. Len(local[w]) \in 1..Len(local[w]) /\ local[w][Len(local[w])] \in Tasks
    BY <2>1
  <2> QED
    BY <1>1, <2>1, <2>2 DEF Start, Queued
<1>3. CASE TakeGlobal(w)
  <2>1. PICK j \in global : Start(w, j)
    BY <1>3 DEF TakeGlobal
  <2> QED
    BY <1>1, <2>1 DEF Start, Queued
<1>4. CASE TakeStolen(w)
  <2>1. victim[w] \in Workers /\ local[victim[w]] \in Seq(Tasks) /\ local[victim[w]] # <<>>
    BY <1>4, StolenVictim
  <2>2. 1 \in 1..Len(local[victim[w]]) /\ Head(local[victim[w]]) = local[victim[w]][1]
        /\ local[victim[w]][1] \in Tasks
    BY <2>1
  <2> QED
    BY <1>1, <1>4, <2>1, <2>2 DEF TakeStolen, Start, Queued
<1>5. CASE TaskReturns(w) \/ TaskThrows(w)
  <2>1. pc[w] = "run" /\ \E f : fate' = [fate EXCEPT ![running[w]] = f]
    BY <1>5 DEF TaskReturns, TaskThrows
  <2>2. running[w] \in Tasks /\ fate[running[w]] = "running"
    BY <2>1 DEF PlaceInv, RunInv, RunByOne
  <2> QED
    BY <2>1, <2>2 DEF UnderWay
<1> QED
  BY <1>2, <1>3, <1>4, <1>5
  DEF Run, LoopTop, NextVictim, Spin, CheckPredicate, Block, Break, TakeAgain

\* PostTask gives a task to the loops that its config names, and to no other.
LEMMA RouteGives ==
    ASSUME TypeOK, EsInv, NEW p \in Threads \cup {Main}, NEW k \in Tasks, NEW c \in Int,
           Route(p, k, c)
    PROVE  /\ EsInv'
           /\ \A j \in Tasks : fate'[j] # "new" =>
                  fate[j] # "new" \/ (j = k /\ c \in {-1, -3} \cup Workers)
           /\ \A j \in Tasks : esFate'[j] # "new" =>
                  esFate[j] # "new" \/ (j = k /\ c \in {-1, -2, N})
           /\ failed' = failed \/ (failed' = "gone" /\ LoopIsFreed)
<1> USE DEF AnyType, AsyncType, ComputeType, EsThread
<1> DEFINE EsKept == UNCHANGED <<ready, esFate, esPc, current, failed>>
           EsTook == /\ EsInv' /\ esFate' = [esFate EXCEPT ![k] = "posted"]
                     /\ UNCHANGED failed
           EsGone == /\ UNCHANGED <<ready, esFate, esPc, current>>
                     /\ failed' = "gone" /\ LoopIsFreed
<1>1. PostCompute(p, k) => \A j \in Tasks : j # k => fate'[j] = fate[j]
  BY ZenonT(40), SameCompute DEF PostOutside, PostInside, Enqueue, TypeOK
<1>2. PostAsync(p, k) => (EsTook \/ EsGone) /\ UNCHANGED fate
  BY EsPost DEF PostAsync, Die, computeVars, vars, queues, thread, asyncVars, LoopIsFreed
<1>3. PostAny(p, k) => (EsKept \/ EsTook \/ EsGone) /\ PostCompute(p, k)
  BY EsPost DEF PostAny, asyncVars, LoopIsFreed
<1>4. EsKept \/ EsGone => /\ EsInv' /\ esFate' = esFate
                          /\ failed' = failed \/ (failed' = "gone" /\ LoopIsFreed)
  BY EsFrozen
<1>5. EsTook => /\ EsInv' /\ failed' = failed
                /\ \A j \in Tasks : j # k => esFate'[j] = esFate[j]
  BY DEF EsInv
<1>6. UNCHANGED loops => EsKept /\ UNCHANGED fate
  BY DEF loops, computeVars, vars, queues, thread, asyncVars
<1>7. UNCHANGED asyncVars /\ UNCHANGED failed => EsKept
  BY DEF asyncVars
<1> HIDE DEF EsKept, EsTook, EsGone
<1>8. CASE c = -1 /\ PostAny(p, k)
  BY <1>1, <1>3, <1>4, <1>5, <1>8
<1>9. CASE c \in Workers \cup {-3} /\ PostCompute(p, k) /\ EsKept
  BY <1>1, <1>4, <1>9
<1>10. CASE c \in {N, -2} /\ PostAsync(p, k)
  BY <1>2, <1>4, <1>5, <1>10
<1>11. CASE UNCHANGED loops
  BY <1>4, <1>6, <1>11
<1> QED
  BY <1>7, <1>8, <1>9, <1>10, <1>11 DEF Route, Workers

LEMMA TokenInRange ==
    ASSUME ConfInv, NEW type
    PROVE  /\ AnyThreadToken(type) \in Int
           /\ counter >= 0 /\ type \in {AnyType, AsyncType, ComputeType}
              => AnyThreadToken(type) \in Threads
<1> USE WorkerAssumption
<1>1. counter \in Int /\ N \in Nat /\ N > 0
  BY DEF ConfInv
<1>2. counter >= 0 => counter % (N + 1) \in 0..N /\ counter % N \in 0..N-1
  BY <1>1
<1>3. counter < 0 => (-counter) % (N + 1) \in Int /\ (-counter) % N \in Int
  BY <1>1
<1>4. /\ Rem(counter, N + 1) \in Int /\ Rem(counter, N) \in Int
      /\ counter >= 0 => /\ Rem(counter, N + 1) \in 0..N
                         /\ Rem(counter, N) \in 0..N-1
  BY <1>1, <1>2, <1>3 DEF Rem
<1> QED
  BY <1>1, <1>4 DEF AnyThreadToken, AnyType, AsyncType, ComputeType,
                    EsThread, Threads

LEMMA PostKeeps ==
    ASSUME TypeOK, TaskInv, NEW p \in Threads \cup {Main}, NEW k \in Tasks,
           NEW c \in Int, Route(p, k, c), conf[k] = NotPosted,
           conf' = [conf EXCEPT ![k] = c], counter' \in Int,
           NEW b \in {"yes", "wrapped"},
           bound' = bound \/ bound' = [bound EXCEPT ![k] = b],
           bound'[k] = "yes" /\ bound[k] # "yes" => c \in Threads
    PROVE  TaskInv'
<1> USE WorkerAssumption
<1>1. \A j \in Tasks : conf'[j] = IF j = k THEN c ELSE conf[j]
  BY DEF TaskInv, ConfInv
<1>2. \A j \in Tasks : j # k => bound'[j] = bound[j]
  BY DEF TaskInv, ConfInv
<1>3. fate[k] = "new" /\ esFate[k] = "new" /\ bound[k] # "yes"
  BY DEF TaskInv, ConfInv, NotPosted, Workers, Threads
<1>4. EsInv'
  BY RouteGives DEF TaskInv
<1>11. /\ \A j \in Tasks : fate'[j] # "new" =>
             fate[j] # "new" \/ (j = k /\ c \in {-1, -3} \cup Workers)
      /\ \A j \in Tasks : esFate'[j] # "new" =>
             esFate[j] # "new" \/ (j = k /\ c \in {-1, -2, N})
  BY RouteGives DEF TaskInv
<1>5. \A j \in Tasks : fate'[j] # "new" => conf'[j] \in {-1, -3} \cup Workers
  BY <1>1, <1>3, <1>11 DEF TaskInv, ConfInv
<1>6. \A j \in Tasks : esFate'[j] # "new" => conf'[j] \in {-1, -2, N}
  BY <1>1, <1>3, <1>11 DEF TaskInv, ConfInv
<1>7. \A j \in Tasks : bound'[j] = "yes" => conf'[j] \in Threads
  BY <1>1, <1>2, <1>3 DEF TaskInv, ConfInv
<1>8. ConfInv'
  BY <1>5, <1>6, <1>7 DEF TaskInv, ConfInv
<1>9. FreedInv'
  <2> SUFFICES ASSUME failed' = "freed" PROVE \E j \in Tasks : conf'[j] = -1
    BY DEF FreedInv
  <2>1. failed = "freed"
    BY RouteGives DEF TaskInv
  <2>2. PICK j \in Tasks : conf[j] = -1
    BY <2>1 DEF TaskInv, FreedInv
  <2>3. j # k
    BY <2>2 DEF NotPosted
  <2> QED
    BY <1>1, <2>2, <2>3
<1> QED
  BY <1>4, <1>8, <1>9 DEF TaskInv

\* Steps that post nothing: they keep the configs, and the loops keep to theirs.
LEMMA QuietKeeps ==
    ASSUME TaskInv, EsInv', UNCHANGED <<counter, conf, bound>>,
           \A j \in Tasks : fate'[j] # "new" => fate[j] # "new",
           \A j \in Tasks : esFate'[j] # "new" => esFate[j] # "new",
           failed' = "freed" /\ failed # "freed" => \E j \in Tasks : conf[j] = -1
    PROVE  TaskInv'
<1>1. ConfInv'
  BY DEF TaskInv, ConfInv
<1>2. FreedInv'
  BY DEF TaskInv, FreedInv
<1> QED
  BY <1>1, <1>2 DEF TaskInv

\* What both loops have was posted to both.
LEMMA SharedIsAny ==
    ASSUME TaskInv, NEW k \in Tasks, fate[k] # "new", esFate[k] # "new"
    PROVE  conf[k] = -1
BY WorkerAssumption DEF TaskInv, ConfInv, Workers

LEMMA TaskInit == PoolInit => TaskInv
<1> SUFFICES ASSUME PoolInit PROVE TaskInv
  OBVIOUS
<1> USE PoolAssumption DEF PoolInit, Async!Init
<1>1. EsInv
  BY DEF EsInv
<1>2. \A k \in Tasks : fate[k] = "new" /\ esFate[k] = "new" /\ bound[k] = "no"
  BY DEF Init
<1>3. counter \in Int /\ conf \in [Tasks -> Int]
      /\ bound \in [Tasks -> {"no", "yes", "wrapped"}]
  BY WorkerAssumption DEF NotPosted
<1> QED
  BY <1>1, <1>2, <1>3 DEF TaskInv, ConfInv, FreedInv

LEMMA WorkerStep ==
    ASSUME TypeOK, PlaceInv, TaskInv, NEW w \in Workers, WorkerRuns(w)
    PROVE  TaskInv'
<1>1. Run(w) /\ UNCHANGED asyncVars /\ UNCHANGED routing
  BY DEF WorkerRuns
<1>2. UNCHANGED <<ready, esFate, esPc, current, counter, conf, bound>>
  BY <1>1 DEF asyncVars, routing
<1>3. EsInv'
  BY <1>2, EsFrozen DEF TaskInv
<1>4. \A j \in Tasks : fate'[j] # "new" => fate[j] # "new"
  BY <1>1, RunChanges DEF UnderWay
<1>5. ASSUME failed' = "freed", failed # "freed"
      PROVE  \E j \in Tasks : conf[j] = -1
  <2>1. PICK k \in Tasks : fate'[k] # fate[k] /\ Destroyed(k)
    BY <1>5 DEF WorkerRuns
  <2>2. fate[k] \in UnderWay
    BY <1>1, <2>1, RunChanges
  <2>3. esFate[k] = "done"
    BY <2>1, <2>2 DEF Destroyed, UnderWay
  <2> QED
    BY <2>2, <2>3, SharedIsAny DEF UnderWay
<1> QED
  BY <1>2, <1>3, <1>4, <1>5, QuietKeeps

LEMMA EsStep ==
    ASSUME TaskInv, EsRuns
    PROVE  TaskInv'
<1>1. UNCHANGED <<counter, conf, bound, fate>>
  BY DEF EsRuns, routing, computeVars, vars, queues, thread, Die
<1>2. CASE UNCHANGED <<ready, esFate, esPc, current>> /\ failed' # "freed"
  BY <1>1, <1>2, EsFrozen, QuietKeeps DEF TaskInv
<1>3. CASE Async!HandleTask
  <2>1. EsInv' /\ esFate[current'.task] = "posted"
        /\ esFate' = [esFate EXCEPT ![current'.task] = "running"]
    BY <1>3, EsHandle DEF TaskInv
  <2>2. \A j \in Tasks : esFate'[j] # "new" => esFate[j] # "new"
    BY <2>1 DEF TaskInv, EsInv
  <2>3. UNCHANGED failed
    BY <1>3 DEF Async!HandleTask
  <2> QED
    BY <1>1, <2>1, <2>2, <2>3, QuietKeeps
<1>4. CASE Async!TaskReturns
  <2>1. EsInv' /\ esFate[current.task] = "running"
        /\ esFate' = [esFate EXCEPT ![current.task] = "done"]
    BY <1>4, EsReturn DEF TaskInv
  <2>2. \A j \in Tasks : esFate'[j] # "new" => esFate[j] # "new"
    BY <2>1 DEF TaskInv, EsInv
  <2>3. UNCHANGED failed
    BY <1>4 DEF Async!TaskReturns
  <2> QED
    BY <1>1, <2>1, <2>2, <2>3, QuietKeeps
<1>5. CASE Async!RunBegin \/ Async!Leave
  <2>1. UNCHANGED <<ready, esFate, current, failed>> /\ esPc' # "task"
    BY <1>5 DEF Async!RunBegin, Async!Leave, Async!context,
                Async!taskHistory
  <2>2. EsInv'
    BY <2>1 DEF TaskInv, EsInv
  <2> QED
    BY <1>1, <2>1, <2>2, QuietKeeps
<1>6. CASE /\ \/ ready # <<>> /\ Destroyed(Head(ready).task)
              \/ esPc = "task" /\ Destroyed(current.task)
           /\ UNCHANGED asyncVars
  <2>1. UNCHANGED <<ready, esFate, esPc, current>>
    BY <1>6 DEF asyncVars
  <2>2. CASE ready # <<>> /\ Destroyed(Head(ready).task)
    <3>1. 1 \in 1..Len(ready) /\ Head(ready) = ready[1]
      BY <2>2 DEF TaskInv, EsInv
    <3>2. ready[1].task \in Tasks /\ esFate[ready[1].task] = "posted"
      BY <3>1, ReadyTasks DEF TaskInv, EsInv
    <3>3. conf[ready[1].task] = -1
      BY <2>2, <3>1, <3>2, SharedIsAny DEF Destroyed
    <3> QED
      BY <1>1, <2>1, <3>2, <3>3, EsFrozen, QuietKeeps DEF TaskInv
  <2>3. CASE esPc = "task" /\ Destroyed(current.task)
    <3>1. current.task \in Tasks /\ esFate[current.task] = "running"
      BY <2>3 DEF TaskInv, EsInv
    <3>2. conf[current.task] = -1
      BY <2>3, <3>1, SharedIsAny DEF Destroyed
    <3> QED
      BY <1>1, <2>1, <3>1, <3>2, EsFrozen, QuietKeeps DEF TaskInv
  <2> QED
    BY <1>6, <2>2, <2>3
<1>7. UNCHANGED asyncVars => UNCHANGED <<ready, esFate, esPc, current>>
  BY DEF asyncVars
<1>8. CASE UNCHANGED asyncVars /\ failed' \in {failed, "gone"}
  <2>1. EsInv'
    BY <1>7, <1>8, EsFrozen DEF TaskInv
  <2> QED
    BY <1>1, <1>7, <1>8, <2>1, QuietKeeps
<1> QED
  BY <1>3, <1>4, <1>5, <1>6, <1>8 DEF EsRuns, Die

LEMMA TaskStep ==
    TypeOK /\ PlaceInv /\ TaskInv /\ [PoolNext]_poolVars => TaskInv'
<1> SUFFICES ASSUME TypeOK, PlaceInv, TaskInv, [PoolNext]_poolVars PROVE TaskInv'
  OBVIOUS
<1>1. ASSUME UNCHANGED <<ready, esFate, esPc, current, counter, conf, bound, fate>>,
             failed' = failed \/ failed' \in {"unwound", "exception"}
      PROVE  TaskInv'
  BY <1>1, EsFrozen, QuietKeeps DEF TaskInv
<1>2. CASE UNCHANGED loops /\ UNCHANGED routing
  BY <1>1, <1>2 DEF loops, computeVars, vars, queues, thread, asyncVars, routing
<1>3. CASE Spawn \/ Open \/ JoinLoop \/ JoinWorkers \/ SpawnFails
            \/ UNCHANGED poolVars
  BY <1>2, <1>3 DEF Spawn, Open, JoinLoop, JoinWorkers, SpawnFails,
                    poolVars
<1>4. CASE NotifyWorkers \/ Close
  BY <1>1, <1>4 DEF NotifyWorkers, Close, Notify, Shutdown,
                    asyncVars, routing
<1>5. CASE StopLoop
  BY <1>1, <1>5 DEF StopLoop, Async!Shutdown, Async!thread,
                    Async!taskHistory, computeVars, vars, queues, thread, routing
<1>6. ASSUME NEW i \in Threads, InitThread(i) \/ CountDown(i) PROVE TaskInv'
  BY <1>1, <1>6 DEF InitThread, CountDown, Die, loops, computeVars, vars, queues, thread,
                    asyncVars, routing
<1>7. ASSUME NEW w \in Workers, WorkerWakes(w) PROVE TaskInv'
  BY <1>1, <1>7 DEF WorkerWakes, WakeSpuriously, asyncVars, routing
<1>8. CASE EsThrows
  BY <1>1, <1>8 DEF EsThrows, Async!Throws, Async!Fail, Async!context,
                    Async!thread, Async!taskHistory, computeVars, vars, queues, thread, routing
<1>9. ASSUME NEW p \in Threads \cup {Main}, NEW k \in Tasks, NEW c \in Configs,
             PostTask(p, k, c)
      PROVE  TaskInv'
  <2>1. c \in Int
    BY PoolAssumption DEF TaskInv
  <2>2. counter' \in Int
    BY <1>9, PoolAssumption DEF PostTask, Draw, TaskInv, ConfInv
  <2> QED
    BY <1>9, <2>1, <2>2, PostKeeps DEF PostTask
<1>10. ASSUME NEW p \in Threads \cup {Main}, NEW k \in Tasks,
              NEW type \in {AnyType, AsyncType, ComputeType},
              PostBound(p, k, type)
       PROVE  TaskInv'
  <2> DEFINE c == AnyThreadToken(type)
  <2>1. c \in Int /\ (counter >= 0 => c \in Threads) /\ counter \in Int
    BY TokenInRange DEF TaskInv, ConfInv
  <2>2. counter' \in Int
    BY <1>10, PoolAssumption DEF PostBound, Draw, TaskInv, ConfInv
  <2>3. /\ Route(p, k, c) /\ conf[k] = NotPosted /\ conf' = [conf EXCEPT ![k] = c]
        /\ bound' = [bound EXCEPT ![k] = IF counter < 0 THEN "wrapped" ELSE "yes"]
    BY <1>10 DEF PostBound
  <2> HIDE DEF c
  <2>4. CASE counter < 0
    <3>1. bound' = [bound EXCEPT ![k] = "wrapped"] /\ bound'[k] # "yes"
      BY <2>3, <2>4 DEF TaskInv, ConfInv
    <3> QED
      BY <2>1, <2>2, <2>3, <3>1, PostKeeps
  <2>5. CASE counter >= 0
    <3>1. ~(counter < 0)
      BY <2>1, <2>5
    <3>2. bound' = [bound EXCEPT ![k] = "yes"]
      BY <2>3, <3>1
    <3> QED
      BY <2>1, <2>2, <2>3, <2>5, <3>2, PostKeeps
  <2> QED
    BY <2>1, <2>4, <2>5
<1> QED
  BY <1>3, <1>4, <1>5, <1>6, <1>7, <1>8, <1>9, <1>10, WorkerStep, EsStep
  DEF PoolNext, MainRuns, Posts, Threads, Workers

LEMMA PoolTasks == PoolSpec => []TaskInv
BY TaskInit, TaskStep, PoolPlaces, PTL DEF PoolSpec

(***************************************************************************)
(* Only tasks of the config -1 are in both loops, whoever posts what; and  *)
(* no other is used after it was destroyed.                                *)
(***************************************************************************)
THEOREM PoolShares == PoolSpec => []OnlyAnyIsShared
<1>1. TaskInv => OnlyAnyIsShared
  <2> SUFFICES ASSUME TaskInv PROVE OnlyAnyIsShared
    OBVIOUS
  <2>1. ASSUME NEW k \in Tasks, WorkersHold(k), LoopHolds(k)
        PROVE  conf[k] = -1
    BY <2>1, SharedIsAny DEF WorkersHold, LoopHolds
  <2>2. failed = "freed" => \E k \in Tasks : conf[k] = -1
    BY DEF TaskInv, FreedInv
  <2> QED
    BY <2>1, <2>2 DEF OnlyAnyIsShared, AnyType
<1> QED
  BY <1>1, PoolTasks, PTL

(***************************************************************************)
(* A token drawn before the counter wraps is the number of a thread, and   *)
(* the task posted with it is in one loop only.                            *)
(***************************************************************************)
THEOREM PoolTokens == PoolSpec => []BoundTokensName
<1>1. TaskInv => BoundTokensName
  <2> SUFFICES ASSUME TaskInv, NEW k \in Tasks, bound[k] = "yes"
               PROVE  conf[k] \in Threads
                      /\ (WorkersHold(k) => ~LoopHolds(k))
    BY DEF BoundTokensName, Threads
  <2>1. conf[k] \in Threads
    BY DEF TaskInv, ConfInv
  <2>2. conf[k] # -1
    BY <2>1, WorkerAssumption DEF Threads
  <2> QED
    BY <2>1, <2>2, SharedIsAny DEF WorkersHold, LoopHolds
<1> QED
  BY <1>1, PoolTasks, PTL

-----------------------------------------------------------------------------
(* The destructor.                                                         *)

Closing == phase \in {"notify", "joinLoop", "joinWorkers", "gone"}

NoneAbout == \A k \in Tasks : fate[k] \notin UnderWay /\ esFate[k] \notin UnderWay

\* A destructor that found nothing about will find nothing, and the event loop's
\* thread has gone before the loop.
IdleInv ==
    /\ LoopIsFreed => poolThread[EsThread] = "done"
    /\ Closing /\ ~busy /\ failed = "no" => NoneAbout
    /\ failed = "gone" => busy

LEMMA IdleKept ==
    ASSUME IdleInv, UNCHANGED <<fate, esFate, busy>>,
           LoopIsFreed' => poolThread'[EsThread] = "done",
           Closing' => Closing,
           failed' = failed \/ (failed' \notin {"no", "gone"})
    PROVE  IdleInv'
BY DEF IdleInv, NoneAbout

\* While the pool is destroyed only tasks can post.
LEMMA PostersAreTasks ==
    ASSUME PlaceInv, TypeOK, EsInv, NEW p, MayPost(p), Closing
    PROVE  failed = "no" /\ ~NoneAbout
<1> USE WorkerAssumption
<1>1. failed = "no" /\ (\/ p \in Workers /\ pc[p] = "run"
                       \/ esPc = "task")
  BY DEF MayPost, Closing, Workers
<1>2. CASE p \in Workers /\ pc[p] = "run"
  <2>1. running[p] \in Tasks /\ fate[running[p]] = "running"
    BY <1>2 DEF PlaceInv, RunInv, RunByOne, TypeOK
  <2> QED
    BY <1>1, <2>1 DEF NoneAbout, UnderWay
<1>3. CASE esPc = "task"
  BY <1>1, <1>3 DEF EsInv, NoneAbout, UnderWay
<1> QED
  BY <1>1, <1>2, <1>3

LEMMA IdlePost ==
    ASSUME TypeOK, PlaceInv, EsInv, IdleInv, NEW p \in Threads \cup {Main},
           NEW k \in Tasks, NEW c \in Int, Route(p, k, c), MayPost(p),
           UNCHANGED <<phase, poolThread, busy>>
    PROVE  IdleInv'
<1>1. failed' = failed \/ (failed' = "gone" /\ LoopIsFreed)
  BY RouteGives
<1>2. LoopIsFreed => Closing
  BY DEF LoopIsFreed, Closing
<1>3. CASE Closing
  <2>1. busy /\ failed = "no"
    BY <1>3, PostersAreTasks DEF IdleInv
  <2> QED
    BY <1>1, <2>1 DEF IdleInv, LoopIsFreed
<1>4. CASE ~Closing
  BY <1>1, <1>2, <1>4 DEF IdleInv, LoopIsFreed, Closing
<1> QED
  BY <1>3, <1>4

LEMMA IdleStep ==
    TypeOK /\ PlaceInv /\ StartInv /\ TaskInv /\ IdleInv /\ [PoolNext]_poolVars
        => IdleInv'
<1> SUFFICES ASSUME TypeOK, PlaceInv, StartInv, TaskInv, IdleInv, [PoolNext]_poolVars
             PROVE  IdleInv'
  OBVIOUS
<1> USE DEF LoopIsFreed, Closing
<1>1. CASE Spawn \/ Open \/ SpawnFails
  <2>1. ~Closing' /\ failed' = failed /\ busy' = busy /\ ~LoopIsFreed'
    BY <1>1 DEF Spawn, Open, SpawnFails, loops
  <2> QED
    BY <2>1 DEF IdleInv
<1>2. CASE Close
  <2>1. /\ phase' = "notify" /\ UNCHANGED <<fate, esFate, failed, poolThread>>
        /\ failed = "no" /\ busy' = SomeTaskAbout
    BY <1>2 DEF Close, Shutdown, asyncVars, start
  <2>2. ~busy' => NoneAbout'
    BY <2>1 DEF SomeTaskAbout, NoneAbout, UnderWay
  <2> QED
    BY <2>1, <2>2 DEF IdleInv
<1>3. CASE NotifyWorkers \/ StopLoop \/ JoinLoop \/ JoinWorkers
  <2>1. /\ UNCHANGED <<fate, esFate, failed, poolThread, busy>> /\ Closing
        /\ phase' \in {"joinWorkers", "gone"} =>
               phase \in {"joinWorkers", "gone"} \/ poolThread[EsThread] = "done"
    BY <1>3 DEF NotifyWorkers, StopLoop, JoinLoop, JoinWorkers, loops,
                computeVars, vars, queues, thread, asyncVars, start, Notify,
                Async!Shutdown, Async!taskHistory, EsThread
  <2> QED
    BY <2>1, IdleKept DEF IdleInv
<1>4. ASSUME NEW i \in Threads, InitThread(i) \/ CountDown(i) PROVE IdleInv'
  <2>1. /\ UNCHANGED <<fate, esFate, busy, phase>>
        /\ failed' = failed \/ failed' = "unwound"
    BY <1>4 DEF InitThread, CountDown, Die, loops, computeVars, vars, queues, thread,
                asyncVars
  <2>2. poolThread[i] \in {"started", "initialised"}
        /\ \A j \in Threads : j # i => poolThread'[j] = poolThread[j]
    BY <1>4 DEF InitThread, CountDown, StartInv, StartTypes
  <2>3. EsThread \in Threads
    BY WorkerAssumption DEF EsThread, Threads
  <2>4. LoopIsFreed' => poolThread'[EsThread] = "done"
    BY <2>1, <2>2, <2>3 DEF IdleInv
  <2> QED
    BY <2>1, <2>4, IdleKept
<1>5. ASSUME NEW w \in Workers, WorkerRuns(w) PROVE IdleInv'
  <2>1. /\ Run(w) /\ UNCHANGED <<esFate, busy, phase, poolThread>>
        /\ failed' = failed \/ failed' \in {"freed", "stale"}
    BY <1>5 DEF WorkerRuns, asyncVars, start
  <2>2. NoneAbout => NoneAbout'
    BY <2>1, RunChanges DEF NoneAbout
  <2> QED
    BY <2>1, <2>2 DEF IdleInv
<1>6. CASE EsRuns
  <2>1. /\ UNCHANGED <<fate, busy, phase>> /\ poolThread[EsThread] = "loop"
        /\ UNCHANGED poolThread \/ poolThread' = [poolThread EXCEPT ![EsThread] = "done"]
    BY <1>6 DEF EsRuns, computeVars, vars, queues, thread, Die, EsThread
  <2>2. ~LoopIsFreed
    BY <2>1 DEF IdleInv
  <2>3. ASSUME UNCHANGED esFate, failed' = failed \/ failed' = "freed"
        PROVE  IdleInv'
    BY <2>1, <2>2, <2>3, IdleKept
  <2>4. CASE Async!HandleTask
    <3>1. esFate[current'.task] = "posted" /\ current'.task \in Tasks /\ UNCHANGED failed
      BY <2>4, EsHandle DEF TaskInv, Async!HandleTask
    <3>2. ~NoneAbout
      BY <3>1 DEF NoneAbout, UnderWay
    <3> QED
      BY <2>1, <2>2, <3>1, <3>2 DEF IdleInv
  <2>5. CASE Async!TaskReturns
    <3>1. esFate[current.task] = "running" /\ current.task \in Tasks /\ UNCHANGED failed
      BY <2>5, EsReturn DEF TaskInv, Async!TaskReturns
    <3>2. ~NoneAbout
      BY <3>1 DEF NoneAbout, UnderWay
    <3> QED
      BY <2>1, <2>2, <3>1, <3>2 DEF IdleInv
  <2>6. CASE Async!RunBegin \/ Async!Leave
    BY <2>3, <2>6 DEF Async!RunBegin, Async!Leave, Async!taskHistory
  <2>7. CASE UNCHANGED asyncVars /\ failed' \in {failed, "freed"}
    BY <2>3, <2>7 DEF asyncVars
  <2> QED
    BY <1>6, <2>2, <2>4, <2>5, <2>6, <2>7 DEF EsRuns
<1>7. CASE \/ EsThrows \/ UNCHANGED poolVars
           \/ \E w \in Workers : WorkerWakes(w)
  <2>1. UNCHANGED <<fate, esFate, busy, phase, poolThread>>
        /\ (failed' = failed \/ failed' = "exception")
    BY <1>7 DEF EsThrows, poolVars, loops, WorkerWakes, start,
                computeVars, vars, queues, thread, asyncVars, WakeSpuriously,
                Async!Throws, Async!Fail, Async!taskHistory
  <2> QED
    BY <2>1, IdleKept DEF IdleInv
<1>8. CASE Posts
  <2>1. PICK p \in Threads \cup {Main}, k \in Tasks :
            \/ \E c \in Configs : PostTask(p, k, c)
            \/ \E type \in {AnyType, AsyncType, ComputeType} :
                  PostBound(p, k, type)
    BY <1>8 DEF Posts, Threads
  <2>2. PICK c \in Int : Route(p, k, c)
    BY <2>1, TokenInRange, PoolAssumption DEF PostTask, PostBound, TaskInv
  <2>3. MayPost(p) /\ UNCHANGED <<phase, poolThread, busy>>
    BY <2>1 DEF PostTask, PostBound, start
  <2> QED
    BY <2>2, <2>3, IdlePost DEF TaskInv
<1> QED
  BY <1>1, <1>2, <1>3, <1>4, <1>5, <1>6, <1>7, <1>8
  DEF PoolNext, MainRuns, Threads, Workers

(***************************************************************************)
(* A pool that is destroyed with nothing about does not use its event loop *)
(* after that is gone.                                                     *)
(***************************************************************************)
THEOREM PoolCloses == PoolSpec => []IdlePoolsCloseSafely
<1>1. PoolInit => IdleInv
  BY DEF PoolInit, Async!Init, IdleInv, Closing, LoopIsFreed
<1>2. IdleInv => IdlePoolsCloseSafely
  BY DEF IdleInv, IdlePoolsCloseSafely
<1>3. PoolSpec => []StartInv
  BY StartInit, StartStep, PTL DEF PoolSpec
<1> QED
  BY <1>1, <1>2, <1>3, IdleStep, PoolTasks, PoolPlaces, PTL DEF PoolSpec
=============================================================================
