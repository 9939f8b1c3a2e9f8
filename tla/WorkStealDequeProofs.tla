----------------------- MODULE WorkStealDequeProofs -----------------------
(***************************************************************************)
(* Proofs about WorkStealDeque for every number of thieves, every capacity *)
(* and every depth of the store buffer: the type invariant; that until a   *)
(* Pop loses a race or overtakes its own store no task is handed out twice *)
(* or lost and the deque implements TaskDeque; and that while no race was  *)
(* lost only the owner and a thief can be handed the same task.            *)
(***************************************************************************)
EXTENDS WorkStealDeque, SequenceTheorems, TLAPS

-----------------------------------------------------------------------------
(* The inductive invariant, in parts.                                      *)

\* The first index that holds no task, with the index a Pop has in dispute
\* counted in until its last store.
End == IF owner.pc \in {"popTop", "popCas", "popRestore"} THEN bottom + 1
       ELSE bottom

\* Where the call in progress has got to, against top and bottom.
OwnerInv ==
    /\ top <= End /\ End - top <= Capacity
    /\ owner.pc \in {"pushSlot", "pushBottom"} =>
          owner.b = bottom /\ bottom - top < Capacity
    /\ owner.pc = "popTop" => owner.b = bottom
    /\ owner.pc = "popCas" =>
          /\ owner.b = bottom /\ owner.t = bottom
          /\ owner.task = buffer[Slot(bottom)]
          /\ pending = <<>>
    /\ owner.pc = "popRestore" =>
          owner.t = top /\ top = bottom + 1 /\ pending = <<>>

\* Memory follows the owner's view: what is pending is exactly what differs,
\* and the last pending store to a place is what the owner reads there.
MemoryInv ==
    /\ Depth = 0 => pending = <<>>
    /\ \/ memBottom = bottom
       \/ \E k \in 1..Len(pending) : pending[k].loc = BottomLoc
    /\ \A l \in Slots : \/ memBuffer[l] = buffer[l]
                        \/ \E k \in 1..Len(pending) : pending[k].loc = l
    /\ \A k \in 1..Len(pending) :
          \/ \E j \in (k+1)..Len(pending) : pending[j].loc = pending[k].loc
          \/ /\ pending[k].loc = BottomLoc => pending[k].val = bottom
             /\ pending[k].loc # BottomLoc => pending[k].val = buffer[pending[k].loc]

\* No value of bottom that thieves may read, now or later, is above End.
BoundInv ==
    /\ memBottom <= End
    /\ \A k \in 1..Len(pending) : pending[k].loc = BottomLoc => pending[k].val <= End

\* No store is pending for a slot that a bottom before it in the buffer, or
\* the one in memory, already lets thieves read.
PublishInv ==
    \A k \in 1..Len(pending) : pending[k].loc # BottomLoc =>
        /\ \A i \in top..(memBottom - 1) : Slot(i) # pending[k].loc
        /\ \A m \in 1..(k-1) : pending[m].loc = BottomLoc =>
              \A i \in top..(pending[m].val - 1) : Slot(i) # pending[k].loc

\* The tasks between top and End are different, accepted and not handed out.
LiveInv ==
    /\ \A i \in top..(End - 1) :
          /\ buffer[Slot(i)] \in 1..pushed
          /\ \A x \in takes : x.task # buffer[Slot(i)]
          /\ \A j \in top..(End - 1) : buffer[Slot(i)] = buffer[Slot(j)] => i = j
    /\ owner.pc \in {"pushSlot", "pushBottom"} =>
          /\ owner.task \in 1..pushed
          /\ \A x \in takes : x.task # owner.task
          /\ \A i \in top..(End - 1) : buffer[Slot(i)] # owner.task
    /\ owner.pc = "pushBottom" => buffer[Slot(bottom)] = owner.task

\* A thief whose exchange can still succeed has read a live slot.
ThiefInv ==
    \A p \in Thieves :
        /\ thief[p].t <= top
        /\ thief[p].pc \in {"slot", "cas"} /\ thief[p].t = top =>
              /\ top < End
              /\ \A k \in 1..Len(pending) : pending[k].loc # Slot(top)
        /\ thief[p].pc = "cas" /\ thief[p].t = top => thief[p].task = buffer[Slot(top)]

Sound == OwnerInv /\ MemoryInv /\ BoundInv /\ PublishInv /\ LiveInv /\ ThiefInv /\ HandedOutOnce

IInv == TypeOK /\ (~raceLost /\ ~overtook => Sound)

-----------------------------------------------------------------------------
(* Types.                                                                  *)

LEMMA SlotType == ASSUME NEW i \in Nat PROVE Slot(i) \in Slots /\ Slot(i) # BottomLoc
BY DequeAssumption DEF Slot, Slots, BottomLoc

\* A store to a legal place, of a legal value, keeps the types of memory.
LEMMA StoreType ==
    ASSUME TypeOK, NEW loc \in 0..Capacity, NEW val \in Nat, Store(loc, val)
    PROVE  /\ bottom' \in Nat /\ memBottom' \in Nat
           /\ buffer' \in [Slots -> Nat] /\ memBuffer' \in [Slots -> Nat]
           /\ pending' \in StoreBuffer
<1> USE DequeAssumption DEF TypeOK, Slots, BottomLoc
<1>1. bottom' \in Nat /\ buffer' \in [Slots -> Nat]
  BY DEF Store, SetOwn
<1>2. memBottom' \in Nat /\ memBuffer' \in [Slots -> Nat]
  BY DEF Store, SetMem
<1>3. pending' \in StoreBuffer
  <2> DEFINE Entry == [loc : 0..Capacity, val : Nat]
  <2>1. pending \in Seq(Entry) /\ [loc |-> loc, val |-> val] \in Entry
    BY DEF StoreBuffer
  <2>2. Append(pending, [loc |-> loc, val |-> val]) \in Seq(Entry)
    <3> HIDE DEF Entry
    <3> QED BY <2>1
  <2> QED
    BY <2>1, <2>2 DEF Store, StoreBuffer
<1> QED
  BY <1>1, <1>2, <1>3

\* What a call that returned a task is remembered by.
LEMMA ReceiptSays ==
    ASSUME NEW a, NEW i, NEW v
    PROVE  /\ Receipt(a, i, v).by = a /\ Receipt(a, i, v).at = i
           /\ Receipt(a, i, v).task = v /\ Receipt(a, i, v).again = Given(a, v)
BY DEF Receipt

LEMMA ReceiptType ==
    ASSUME NEW a \in {Owner} \cup Thieves, NEW i \in Nat, NEW v \in Nat
    PROVE  Receipt(a, i, v) \in [by : {Owner} \cup Thieves, at : Nat, task : Nat,
                                 again : BOOLEAN]
<1>1. Given(a, v) \in BOOLEAN
  BY DEF Given
<1> QED
  BY <1>1 DEF Receipt

(***************************************************************************)
(* The types of the deque's words, of the store buffer and of the locals   *)
(* of the calls in progress, for every value of the constants.             *)
(***************************************************************************)
THEOREM DequeTypes == Spec => []TypeOK
<1> USE DequeAssumption
<1>1. Init => TypeOK
  <2> SUFFICES ASSUME Init PROVE TypeOK
    OBVIOUS
  <2>1. pending \in StoreBuffer /\ takes \in SUBSET [by : {Owner} \cup Thieves,
                                          at : Nat, task : Nat, again : BOOLEAN]
    BY DEF Init, StoreBuffer
  <2>2. buffer \in [Slots -> Nat] /\ memBuffer \in [Slots -> Nat]
    BY DEF Init, Slots, Garbage
  <2> QED
    BY <2>1, <2>2 DEF Init, TypeOK, Garbage, OwnerIdle, ThiefIdle
<1>2. TypeOK /\ [Next]_vars => TypeOK'
  <2> SUFFICES ASSUME TypeOK, [Next]_vars PROVE TypeOK'
    OBVIOUS
  <2>1. CASE Push
    <3>1. CASE PushBegin
      BY <3>1 DEF PushBegin, TypeOK, memory
    <3>2. CASE PushFull
      BY <3>2 DEF PushFull, TypeOK, vars, memory, history
    <3>3. CASE PushSlot
      <4>1. Slot(owner.b) \in 0..Capacity /\ owner.task \in Nat
        BY SlotType DEF TypeOK, Slots
      <4>2. Store(Slot(owner.b), owner.task)
        BY <3>3 DEF PushSlot
      <4> QED
        BY <3>3, <4>1, <4>2, StoreType DEF PushSlot, TypeOK, history
    <3>4. CASE PushBottom
      <4>1. BottomLoc \in 0..Capacity /\ owner.b + 1 \in Nat
        BY DEF TypeOK, BottomLoc
      <4>2. Store(BottomLoc, owner.b + 1)
        BY <3>4 DEF PushBottom
      <4> QED
        BY <3>4, <4>1, <4>2, StoreType DEF PushBottom, TypeOK, history, OwnerIdle, Garbage
    <3> QED
      BY <2>1, <3>1, <3>2, <3>3, <3>4 DEF Push
  <2>2. CASE Pop
    <3>1. CASE PopNone
      BY <3>1 DEF PopNone, TypeOK, vars, memory, history
    <3>2. CASE PopBegin
      <4>0. bottom \in Nat /\ bottom # 0
        BY <3>2 DEF TypeOK, PopBegin
      <4>1. BottomLoc \in 0..Capacity /\ bottom - 1 \in Nat
        BY <4>0 DEF BottomLoc
      <4>2. Store(BottomLoc, bottom - 1)
        BY <3>2 DEF PopBegin
      <4> QED
        BY <3>2, <4>1, <4>2, StoreType DEF PopBegin, TypeOK, history, OwnerIdle, Garbage
    <3>3. CASE PopEmpty
      BY <3>3 DEF PopEmpty, LoadTop, TypeOK, memory
    <3>4. CASE PopTake
      <4>1. buffer[Slot(owner.b)] \in Nat /\ owner.b \in Nat
        BY SlotType DEF TypeOK
      <4>2. Receipt(Owner, owner.b, buffer[Slot(owner.b)])
              \in [by : {Owner} \cup Thieves, at : Nat, task : Nat, again : BOOLEAN]
        BY <4>1, ReceiptType
      <4> QED
        BY <3>4, <4>2 DEF PopTake, LoadTop, Take, TypeOK, memory, OwnerIdle, Garbage
    <3>5. CASE PopLast
      <4>1. buffer[Slot(owner.b)] \in Nat
        BY SlotType DEF TypeOK
      <4> QED
        BY <3>5, <4>1 DEF PopLast, LoadTop, TypeOK, memory
    <3>6. CASE PopWin
      <4>1. /\ top' = owner.t + 1
            /\ takes' = takes \cup {Receipt(Owner, owner.b, owner.task)}
            /\ owner' = [owner EXCEPT !.pc = "popRestore", !.t = owner.t + 1]
            /\ UNCHANGED <<memory, thief, pushed, raceLost, overtook>>
        BY <3>6 DEF PopWin, Take
      <4>2. owner.t + 1 \in Nat
        BY DEF TypeOK
      <4>3. takes' \in SUBSET [by : {Owner} \cup Thieves, at : Nat, task : Nat,
                                again : BOOLEAN]
        BY <4>1, ReceiptType DEF TypeOK
      <4> QED
        BY <4>1, <4>2, <4>3 DEF TypeOK, memory
    <3>7. CASE PopLose
      <4>1. /\ owner' = [owner EXCEPT !.pc = "popRestore", !.t = top + 1]
            /\ raceLost' = TRUE
            /\ UNCHANGED <<top, memory, thief, pushed, takes, overtook>>
        BY <3>7 DEF PopLose
      <4>2. top + 1 \in Nat
        BY DEF TypeOK
      <4> QED
        BY <4>1, <4>2 DEF TypeOK, memory
    <3>8. CASE PopRestore
      <4>1. BottomLoc \in 0..Capacity /\ owner.t \in Nat
        BY DEF TypeOK, BottomLoc
      <4>2. Store(BottomLoc, owner.t)
        BY <3>8 DEF PopRestore
      <4> QED
        BY <3>8, <4>1, <4>2, StoreType DEF PopRestore, TypeOK, history, OwnerIdle, Garbage
    <3> QED
      BY <2>2, <3>1, <3>2, <3>3, <3>4, <3>5, <3>6, <3>7, <3>8 DEF Pop
  <2>3. CASE Drain
    <3> DEFINE Entry == [loc : 0..Capacity, val : Nat]
    <3>1. pending \in Seq(Entry) /\ pending # <<>>
      BY <2>3 DEF Drain, TypeOK, StoreBuffer
    <3>2. Head(pending) \in Entry /\ Tail(pending) \in Seq(Entry)
      <4> HIDE DEF Entry
      <4> QED BY <3>1
    <3>3. /\ Head(pending).loc \in 0..Capacity
          /\ Head(pending).val \in Nat
          /\ pending' \in StoreBuffer
      BY <2>3, <3>2 DEF Drain, StoreBuffer
    <3>4. memBottom' \in Nat /\ memBuffer' \in [Slots -> Nat]
      BY <2>3, <3>3 DEF Drain, SetMem, TypeOK, Slots, BottomLoc
    <3> QED
      BY <2>3, <3>3, <3>4 DEF Drain, TypeOK, history
  <2>4. ASSUME NEW p \in Thieves, Steal(p) PROVE TypeOK'
    <3>1. CASE StealTop(p)
      BY <3>1 DEF StealTop, TypeOK, memory, history, Garbage
    <3>2. CASE StealBottom(p)
      BY <3>2 DEF StealBottom, TypeOK, memory, history, ThiefIdle, Garbage
    <3>3. CASE StealSlot(p)
      <4>1. memBuffer[Slot(thief[p].t)] \in Nat
        BY SlotType DEF TypeOK
      <4>2. /\ thief' = [thief EXCEPT ![p].pc = "cas",
                                      ![p].task = memBuffer[Slot(thief[p].t)]]
            /\ UNCHANGED <<top, memory, owner, history>>
        BY <3>3 DEF StealSlot
      <4>3. thief' \in [Thieves -> [pc : {"idle", "bottom", "slot", "cas"},
                                    t : Nat, task : Nat]]
        <5>1. thief \in [Thieves -> [pc : {"idle", "bottom", "slot", "cas"},
                                     t : Nat, task : Nat]]
          BY DEF TypeOK
        <5>2. [thief[p] EXCEPT !.pc = "cas", !.task = memBuffer[Slot(thief[p].t)]]
                \in [pc : {"idle", "bottom", "slot", "cas"}, t : Nat, task : Nat]
          BY <4>1, <5>1
        <5> QED
          BY <4>2, <5>1, <5>2
      <4> QED
        BY <4>2, <4>3 DEF TypeOK, memory, history
    <3>4. CASE StealWin(p)
      <4>1. thief[p].t \in Nat /\ thief[p].task \in Nat
        BY DEF TypeOK
      <4>2. Receipt(p, thief[p].t, thief[p].task)
              \in [by : {Owner} \cup Thieves, at : Nat, task : Nat, again : BOOLEAN]
        BY <4>1, ReceiptType
      <4> QED
        BY <3>4, <4>2 DEF StealWin, Take, TypeOK, memory, ThiefIdle, Garbage
    <3>5. CASE StealFail(p)
      BY <3>5 DEF StealFail, TypeOK, memory, history, ThiefIdle, Garbage
    <3> QED
      BY <2>4, <3>1, <3>2, <3>3, <3>4, <3>5 DEF Steal
  <2>5. CASE UNCHANGED vars
    BY <2>5 DEF vars, memory, history, TypeOK
  <2> QED
    BY <2>1, <2>2, <2>3, <2>4, <2>5 DEF Next
<1> QED
  BY <1>1, <1>2, PTL DEF Spec

-----------------------------------------------------------------------------
(* Indices and slots.                                                      *)

LEMMA MulAtLeast ==
    ASSUME NEW c \in Nat, NEW k \in Nat, k >= 1
    PROVE  c * k >= c
BY SMT

\* Indices less than Capacity apart fall in different slots.
LEMMA SlotsDiffer ==
    ASSUME NEW i \in Nat, NEW j \in Nat, i < j, j < i + Capacity
    PROVE  Slot(i) # Slot(j)
<1> DEFINE p == i \div Capacity
           q == j \div Capacity
<1> USE DequeAssumption DEF Slot
<1>1. p \in Int /\ q \in Int
  BY SMT
<1>2. i = Capacity * p + (i % Capacity)
  BY SMT
<1>3. j = Capacity * q + (j % Capacity)
  BY SMT
<1>4. SUFFICES ASSUME i % Capacity = j % Capacity PROVE FALSE
  OBVIOUS
<1> HIDE DEF p, q
<1>5. j - i = Capacity * (q - p)
  <2>1. Capacity * (q - p) = Capacity * q - Capacity * p
    BY <1>1, SMT
  <2>2. i % Capacity \in Int
    BY SMT
  <2> QED
    BY <1>1, <1>2, <1>3, <1>4, <2>1, <2>2, SMT
<1>6. q - p >= 1
  <2> SUFFICES ASSUME ~(q - p >= 1) PROVE FALSE
    OBVIOUS
  <2>1. Capacity * (p - q) \in Nat
    BY <1>1
  <2>2. Capacity * (p - q) = 0 - Capacity * (q - p)
    BY <1>1
  <2> QED
    BY <1>1, <1>5, <2>1, <2>2
<1>7. Capacity * (q - p) >= Capacity
  BY <1>1, <1>6, MulAtLeast
<1> QED
  BY <1>5, <1>7

-----------------------------------------------------------------------------
(* What a store does, whichever way it goes.                               *)

\* It reaches memory at once, which agrees with the owner before and after,
\* or it is queued behind the stores that are pending.
LEMMA StoreEffect ==
    ASSUME TypeOK, MemoryInv, NEW loc \in 0..Capacity, NEW val \in Nat,
           Store(loc, val)
    PROVE  /\ loc = BottomLoc => bottom' = val /\ buffer' = buffer
           /\ loc # BottomLoc =>
                 bottom' = bottom /\ buffer' = [buffer EXCEPT ![loc] = val]
           /\ \/ /\ pending = <<>> /\ pending' = <<>>
                 /\ memBottom' = bottom' /\ memBuffer' = buffer'
              \/ /\ memBottom' = memBottom /\ memBuffer' = memBuffer
                 /\ Depth # 0
                 /\ Len(pending) \in Nat
                 /\ Len(pending') = Len(pending) + 1
                 /\ \A k \in 1..Len(pending) : pending'[k] = pending[k]
                 /\ pending'[Len(pending) + 1] = [loc |-> loc, val |-> val]
<1> USE DequeAssumption
<1>1. /\ loc = BottomLoc => bottom' = val /\ buffer' = buffer
      /\ loc # BottomLoc =>
            bottom' = bottom /\ buffer' = [buffer EXCEPT ![loc] = val]
  BY DEF Store, SetOwn
<1>2. CASE Depth = 0 /\ SetMem(loc, val) /\ UNCHANGED pending
  <2>1. pending = <<>>
    BY <1>2 DEF MemoryInv
  <2>2. memBottom = bottom
    BY <2>1 DEF MemoryInv
  <2>3. memBuffer = buffer
    BY <2>1 DEF MemoryInv, TypeOK
  <2> QED
    BY <1>1, <1>2, <2>1, <2>2, <2>3 DEF SetMem
<1>3. CASE /\ Len(pending) < Depth
           /\ pending' = Append(pending, [loc |-> loc, val |-> val])
           /\ UNCHANGED <<memBottom, memBuffer>>
  <2> DEFINE Entry == [loc : 0..Capacity, val : Nat]
             e == [loc |-> loc, val |-> val]
  <2>1. pending \in Seq(Entry) /\ e \in Entry
    BY DEF TypeOK, StoreBuffer
  <2> HIDE DEF Entry, e
  <2>2. /\ Len(pending) \in Nat
        /\ Len(Append(pending, e)) = Len(pending) + 1
        /\ \A k \in 1..Len(pending) : Append(pending, e)[k] = pending[k]
        /\ Append(pending, e)[Len(pending) + 1] = e
    BY <2>1
  <2> QED
    BY <1>1, <1>3, <2>2 DEF e
<1> QED
  BY <1>2, <1>3 DEF Store

LEMMA PendingType ==
    ASSUME TypeOK, NEW k \in 1..Len(pending)
    PROVE  pending[k].loc \in 0..Capacity /\ pending[k].val \in Nat
<1> DEFINE Entry == [loc : 0..Capacity, val : Nat]
<1>1. pending \in Seq(Entry)
  BY DEF TypeOK, StoreBuffer
<1>2. pending[k] \in Entry
  <2> HIDE DEF Entry
  <2> QED BY <1>1
<1> QED
  BY <1>2

LEMMA StoreMemory ==
    ASSUME TypeOK, MemoryInv, NEW loc \in 0..Capacity, NEW val \in Nat,
           Store(loc, val)
    PROVE  MemoryInv'
<1> USE DequeAssumption
<1>1. BottomLoc = Capacity /\ BottomLoc \notin Slots /\ Slots \subseteq 0..Capacity
  BY DEF BottomLoc, Slots
<1>2. buffer \in [Slots -> Nat] /\ (loc # BottomLoc => loc \in Slots)
  BY DEF TypeOK, BottomLoc, Slots
<1>3. CASE pending = <<>> /\ pending' = <<>> /\ memBottom' = bottom' /\ memBuffer' = buffer'
  BY <1>3 DEF MemoryInv
<1>4. CASE /\ memBottom' = memBottom /\ memBuffer' = memBuffer
           /\ Depth # 0
           /\ Len(pending) \in Nat
           /\ Len(pending') = Len(pending) + 1
           /\ \A k \in 1..Len(pending) : pending'[k] = pending[k]
           /\ pending'[Len(pending) + 1] = [loc |-> loc, val |-> val]
  <2> DEFINE n == Len(pending) + 1
  <2>1. n \in 1..Len(pending') /\ pending'[n].loc = loc /\ pending'[n].val = val
    BY <1>4
  <2>2. \A k \in 1..Len(pending') : k = n \/ (k \in 1..Len(pending) /\ pending'[k] = pending[k])
    BY <1>4
  <2>3. memBottom' = bottom' \/ \E k \in 1..Len(pending') : pending'[k].loc = BottomLoc
    BY <1>4, <2>1, <2>2, StoreEffect DEF MemoryInv
  <2>4. ASSUME NEW l \in Slots
        PROVE  memBuffer'[l] = buffer'[l] \/ \E k \in 1..Len(pending') : pending'[k].loc = l
    BY SMTT(20), <1>1, <1>2, <1>4, <2>1, <2>2, StoreEffect DEF MemoryInv
  <2>5. ASSUME NEW k \in 1..Len(pending')
        PROVE  \/ \E j \in (k+1)..Len(pending') : pending'[j].loc = pending'[k].loc
               \/ /\ pending'[k].loc = BottomLoc => pending'[k].val = bottom'
                  /\ pending'[k].loc # BottomLoc => pending'[k].val = buffer'[pending'[k].loc]
    <3>1. CASE k = n
      <4>1. CASE loc = BottomLoc
        BY <2>1, <3>1, <4>1, StoreEffect, ZenonT(30)
      <4>2. CASE loc # BottomLoc
        <5>0. buffer' = [buffer EXCEPT ![loc] = val]
          BY <4>2, StoreEffect
        <5>1. buffer'[loc] = val
          BY <1>2, <4>2, <5>0
        <5> QED
          BY <2>1, <3>1, <4>2, <5>1
      <4> QED
        BY <4>1, <4>2
    <3>2. CASE k \in 1..Len(pending) /\ pending'[k].loc = loc
      BY <1>4, <2>1, <3>2
    <3>3. CASE k \in 1..Len(pending) /\ pending'[k].loc # loc
      <4>1. pending'[k] = pending[k] /\ pending[k].loc # loc
        BY <1>4, <3>3
      <4>2. CASE \E j \in (k+1)..Len(pending) : pending[j].loc = pending[k].loc
        BY <1>4, <4>1, <4>2
      <4>3. CASE /\ pending[k].loc = BottomLoc => pending[k].val = bottom
                 /\ pending[k].loc # BottomLoc => pending[k].val = buffer[pending[k].loc]
        <5>1. CASE pending[k].loc = BottomLoc
          BY <4>1, <4>3, <5>1, StoreEffect
        <5>2. CASE pending[k].loc # BottomLoc
          <6>1. pending[k].loc \in Slots
            BY <3>3, <5>2, PendingType DEF BottomLoc, Slots
          <6>2. buffer'[pending[k].loc] = buffer[pending[k].loc]
            <7>1. CASE loc = BottomLoc
              BY <7>1, StoreEffect
            <7>2. CASE loc # BottomLoc
              <8>1. buffer' = [buffer EXCEPT ![loc] = val]
                BY <7>2, StoreEffect
              <8> QED
                BY <1>2, <4>1, <6>1, <8>1
            <7> QED
              BY <7>1, <7>2
          <6> QED
            BY <4>1, <4>3, <5>2, <6>2
        <5> QED
          BY <5>1, <5>2
      <4> QED
        BY <3>3, <4>2, <4>3 DEF MemoryInv
    <3> QED
      BY <2>2, <3>1, <3>2, <3>3
  <2> QED
    BY <1>4, <2>3, <2>4, <2>5 DEF MemoryInv
<1> QED
  BY <1>3, <1>4, StoreEffect

-----------------------------------------------------------------------------
(* The store buffer drains.                                                *)

LEMMA DrainEffect ==
    ASSUME TypeOK, Drain
    PROVE  /\ Len(pending) \in Nat /\ 1 \in 1..Len(pending)
           /\ Len(pending') = Len(pending) - 1
           /\ \A k \in 1..Len(pending') :
                 pending'[k] = pending[k+1] /\ k+1 \in 1..Len(pending)
           /\ \A k \in 2..Len(pending) :
                 pending[k] = pending'[k-1] /\ k-1 \in 1..Len(pending')
           /\ pending[1].loc = BottomLoc =>
                 memBottom' = pending[1].val /\ memBuffer' = memBuffer
           /\ pending[1].loc # BottomLoc =>
                 /\ memBottom' = memBottom
                 /\ memBuffer' = [memBuffer EXCEPT ![pending[1].loc] = pending[1].val]
<1> DEFINE Entry == [loc : 0..Capacity, val : Nat]
<1>1. pending \in Seq(Entry) /\ pending # <<>> /\ pending' = Tail(pending)
  BY DEF TypeOK, StoreBuffer, Drain
<1> HIDE DEF Entry
<1>2. /\ Len(pending) \in Nat /\ Len(pending) # 0
      /\ Len(pending') = Len(pending) - 1
      /\ Head(pending) = pending[1]
      /\ \A k \in 1..Len(pending') : pending'[k] = pending[k+1]
  BY <1>1
<1>3. \A k \in 2..Len(pending) : pending[k] = pending'[k-1] /\ k-1 \in 1..Len(pending')
  BY <1>2
<1>4. SetMem(pending[1].loc, pending[1].val)
  BY <1>2 DEF Drain
<1>5. 1 \in 1..Len(pending) /\ \A k \in 1..Len(pending') : k+1 \in 1..Len(pending)
  BY <1>2
<1>6. /\ pending[1].loc = BottomLoc =>
            memBottom' = pending[1].val /\ memBuffer' = memBuffer
      /\ pending[1].loc # BottomLoc =>
            /\ memBottom' = memBottom
            /\ memBuffer' = [memBuffer EXCEPT ![pending[1].loc] = pending[1].val]
  BY <1>4 DEF SetMem
<1> QED
  BY <1>2, <1>3, <1>5, <1>6

LEMMA DrainMemory ==
    ASSUME TypeOK, MemoryInv, Drain
    PROVE  MemoryInv'
<1>1. bottom' = bottom /\ buffer' = buffer
  BY DEF Drain
<1>2. /\ 1 \in 1..Len(pending) /\ Len(pending) \in Nat
      /\ \A k \in 2..Len(pending) : pending[k] = pending'[k-1] /\ k-1 \in 1..Len(pending')
      /\ \A k \in 1..Len(pending') : pending'[k] = pending[k+1] /\ k+1 \in 1..Len(pending)
      /\ Len(pending') = Len(pending) - 1
  BY DrainEffect
<1>3. ASSUME NEW k \in 1..Len(pending), k # 1
      PROVE  \E j \in 1..Len(pending') : pending'[j].loc = pending[k].loc
  BY <1>2, <1>3
<1>4. Depth # 0
  BY DEF Drain, MemoryInv
<1>5. \/ \E k \in 1..Len(pending') : pending'[k].loc = pending[1].loc
      \/ /\ pending[1].loc = BottomLoc => pending[1].val = bottom
         /\ pending[1].loc # BottomLoc => pending[1].val = buffer[pending[1].loc]
  <2>1. CASE \E j \in 2..Len(pending) : pending[j].loc = pending[1].loc
    <3>1. PICK j \in 2..Len(pending) : pending[j].loc = pending[1].loc
      BY <2>1
    <3>2. j \in 1..Len(pending) /\ j # 1
      BY <1>2
    <3> QED
      BY <1>3, <3>1, <3>2
  <2> QED
    BY <1>2, <2>1 DEF MemoryInv
<1>6. memBottom' = bottom \/ \E k \in 1..Len(pending') : pending'[k].loc = BottomLoc
  <2>1. CASE pending[1].loc = BottomLoc
    BY <1>5, <2>1, DrainEffect
  <2>2. CASE pending[1].loc # BottomLoc
    <3>1. memBottom' = memBottom
      BY <2>2, DrainEffect
    <3>2. ASSUME NEW k \in 1..Len(pending), pending[k].loc = BottomLoc
          PROVE  \E j \in 1..Len(pending') : pending'[j].loc = BottomLoc
      <4>1. k # 1
        BY <2>2, <3>2
      <4> QED
        BY <1>3, <3>2, <4>1
    <3> QED
      BY <3>1, <3>2 DEF MemoryInv
  <2> QED
    BY <2>1, <2>2
<1>7. ASSUME NEW l \in Slots
      PROVE  memBuffer'[l] = buffer[l] \/ \E k \in 1..Len(pending') : pending'[k].loc = l
  <2>1. CASE pending[1].loc = l
    <3>1. pending[1].loc # BottomLoc
      BY <2>1, DequeAssumption DEF Slots, BottomLoc
    <3>2. memBuffer' = [memBuffer EXCEPT ![l] = pending[1].val]
      BY <2>1, <3>1, DrainEffect
    <3>3. memBuffer'[l] = pending[1].val
      BY <3>2 DEF TypeOK
    <3> QED
      BY <1>5, <2>1, <3>1, <3>3
  <2>2. CASE pending[1].loc # l
    <3>1. memBuffer'[l] = memBuffer[l]
      <4>1. CASE pending[1].loc = BottomLoc
        BY <4>1, DrainEffect
      <4>2. CASE pending[1].loc # BottomLoc
        <5>1. memBuffer' = [memBuffer EXCEPT ![pending[1].loc] = pending[1].val]
          BY <4>2, DrainEffect
        <5> QED
          BY <2>2, <5>1 DEF TypeOK
      <4> QED
        BY <4>1, <4>2
    <3> QED
      BY <1>3, <2>2, <3>1 DEF MemoryInv
  <2> QED
    BY <2>1, <2>2
<1>8. ASSUME NEW k \in 1..Len(pending')
      PROVE  \/ \E j \in (k+1)..Len(pending') : pending'[j].loc = pending'[k].loc
             \/ /\ pending'[k].loc = BottomLoc => pending'[k].val = bottom
                /\ pending'[k].loc # BottomLoc => pending'[k].val = buffer[pending'[k].loc]
  <2>1. pending'[k] = pending[k+1] /\ k+1 \in 1..Len(pending)
    BY <1>2
  <2>2. CASE \E j \in (k+2)..Len(pending) : pending[j].loc = pending[k+1].loc
    <3>1. PICK j \in (k+2)..Len(pending) : pending[j].loc = pending[k+1].loc
      BY <2>2
    <3>2. pending[j] = pending'[j-1] /\ j-1 \in (k+1)..Len(pending')
      BY <1>2
    <3> QED
      BY <2>1, <3>1, <3>2
  <2> QED
    BY <2>1, <2>2 DEF MemoryInv
<1> QED
  BY <1>1, <1>4, <1>6, <1>7, <1>8 DEF MemoryInv

LEMMA DrainSound ==
    ASSUME TypeOK, Sound, Drain
    PROVE  Sound'
<1>1. /\ UNCHANGED <<top, bottom, buffer, owner, thief, takes, pushed>>
      /\ pending # <<>> /\ End' = End
  BY DEF Drain, history, End
<1>2. /\ \A k \in 1..Len(pending') : pending'[k] = pending[k+1] /\ k+1 \in 1..Len(pending)
      /\ 1 \in 1..Len(pending) /\ Len(pending) \in Nat
  BY DrainEffect
<1>3. OwnerInv'
  BY <1>1 DEF Sound, OwnerInv
<1>4. MemoryInv'
  BY DrainMemory DEF Sound
<1>5. BoundInv'
  <2>1. memBottom' <= End
    BY <1>2, DrainEffect DEF Sound, BoundInv
  <2> QED
    BY <1>1, <1>2, <2>1 DEF Sound, BoundInv
<1>6. PublishInv'
  <2> SUFFICES ASSUME NEW k \in 1..Len(pending'), pending'[k].loc # BottomLoc
               PROVE  /\ \A i \in top..(memBottom' - 1) : Slot(i) # pending'[k].loc
                      /\ \A m \in 1..(k-1) : pending'[m].loc = BottomLoc =>
                            \A i \in top..(pending'[m].val - 1) : Slot(i) # pending'[k].loc
    BY <1>1 DEF PublishInv, Slot
  <2>1. /\ pending'[k] = pending[k+1] /\ k+1 \in 1..Len(pending)
        /\ \A i \in top..(memBottom - 1) : Slot(i) # pending[k+1].loc
        /\ \A m \in 1..k : pending[m].loc = BottomLoc =>
              \A i \in top..(pending[m].val - 1) : Slot(i) # pending[k+1].loc
    BY <1>2 DEF Sound, PublishInv
  <2>2. \A i \in top..(memBottom' - 1) : Slot(i) # pending'[k].loc
    <3>1. CASE pending[1].loc = BottomLoc
      BY <2>1, <3>1, DrainEffect
    <3>2. CASE pending[1].loc # BottomLoc
      BY <2>1, <3>2, DrainEffect
    <3> QED
      BY <3>1, <3>2
  <2>3. ASSUME NEW m \in 1..(k-1), pending'[m].loc = BottomLoc
        PROVE  \A i \in top..(pending'[m].val - 1) : Slot(i) # pending'[k].loc
    <3>1. pending'[m] = pending[m+1] /\ m+1 \in 1..k
      <4>1. Len(pending') = Len(pending) - 1
        BY DrainEffect
      <4>2. m \in 1..Len(pending') /\ m+1 \in 1..k
        BY <1>2, <4>1
      <4> QED
        BY <1>2, <4>2
    <3> QED
      BY <2>1, <2>3, <3>1
  <2> QED
    BY <2>2, <2>3
<1>7. LiveInv'
  BY <1>1 DEF Sound, LiveInv, Slot, End
<1>8. ThiefInv'
  BY <1>1, <1>2 DEF Sound, ThiefInv, Slot
<1>9. HandedOutOnce'
  BY <1>1 DEF Sound, HandedOutOnce
<1> QED
  BY <1>3, <1>4, <1>5, <1>6, <1>7, <1>8, <1>9 DEF Sound

-----------------------------------------------------------------------------
(* Steal.                                                                  *)

\* A step that changes nothing but the locals of thieves keeps every part
\* that does not mention them.
LEMMA OnlyThieves ==
    ASSUME Sound, UNCHANGED <<top, memory, owner, history>>
    PROVE  /\ OwnerInv' /\ MemoryInv' /\ BoundInv' /\ PublishInv' /\ LiveInv'
           /\ HandedOutOnce' /\ End' = End
<1>1. /\ UNCHANGED <<top, bottom, buffer, memBottom, memBuffer, pending, owner,
                     pushed, takes>>
      /\ End' = End
  BY DEF memory, history, End
<1>2. OwnerInv' /\ BoundInv'
  BY <1>1 DEF Sound, OwnerInv, BoundInv, Slot
<1>3. MemoryInv' /\ PublishInv'
  BY <1>1 DEF Sound, MemoryInv, PublishInv, Slot
<1>4. LiveInv' /\ HandedOutOnce'
  BY <1>1 DEF Sound, LiveInv, HandedOutOnce, Slot
<1> QED
  BY <1>1, <1>2, <1>3, <1>4

\* A thief that has seen bottom above its t, with t still at the top, is at
\* a live index whose slot is not about to be written.
LEMMA ReadableSlot ==
    ASSUME TypeOK, Sound, top < memBottom
    PROVE  /\ top < End
           /\ \A k \in 1..Len(pending) : pending[k].loc # Slot(top)
<1>1. top \in Nat /\ memBottom \in Nat /\ bottom \in Nat
  BY DEF TypeOK
<1>2. top < End
  BY <1>1 DEF Sound, BoundInv, End
<1>3. top \in top..(memBottom - 1)
  BY <1>1
<1>4. ASSUME NEW k \in 1..Len(pending) PROVE pending[k].loc # Slot(top)
  BY <1>1, <1>3, SlotType DEF Sound, PublishInv
<1> QED
  BY <1>2, <1>4

LEMMA StealKeepsSound ==
    ASSUME TypeOK, Sound, NEW p \in Thieves,
           StealTop(p) \/ StealBottom(p) \/ StealSlot(p) \/ StealFail(p)
    PROVE  Sound'
<1>1. UNCHANGED <<top, memory, owner, history>>
  BY DEF StealTop, StealBottom, StealSlot, StealFail
<1>2. UNCHANGED <<top, bottom, buffer, memBottom, memBuffer, pending>> /\ End' = End
  BY <1>1, OnlyThieves DEF memory
<1>3. top \in Nat /\ thief \in [Thieves -> [pc : {"idle", "bottom", "slot", "cas"},
                                          t : Nat, task : Nat]]
  BY DEF TypeOK
<1>4. ASSUME NEW q \in Thieves, q # p PROVE thief'[q] = thief[q]
  BY <1>3, <1>4 DEF StealTop, StealBottom, StealSlot, StealFail
<1>5. /\ thief'[p].t <= top
      /\ thief'[p].pc \in {"slot", "cas"} /\ thief'[p].t = top =>
            /\ top < End
            /\ \A k \in 1..Len(pending) : pending[k].loc # Slot(top)
      /\ thief'[p].pc = "cas" /\ thief'[p].t = top => thief'[p].task = buffer[Slot(top)]
  <2>1. CASE StealTop(p)
    <3>1. thief'[p].t = top /\ thief'[p].pc = "bottom"
      BY <1>3, <2>1 DEF StealTop
    <3> QED
      BY <1>3, <3>1
  <2>2. CASE StealBottom(p)
    <3>1. CASE thief[p].t >= memBottom
      <4>1. thief'[p].t = 0 /\ thief'[p].pc = "idle"
        BY <1>3, <2>2, <3>1 DEF StealBottom, ThiefIdle
      <4> QED
        BY <1>3, <4>1
    <3>2. CASE ~(thief[p].t >= memBottom)
      <4>1. thief'[p].t = thief[p].t /\ thief'[p].pc = "slot"
        BY <1>3, <2>2, <3>2 DEF StealBottom
      <4>2. memBottom \in Nat /\ thief[p].t \in Nat /\ thief[p].t <= top
        BY <1>3 DEF TypeOK, Sound, ThiefInv
      <4>3. thief[p].t = top => top < memBottom
        BY <1>3, <3>2, <4>2
      <4> QED
        BY <4>1, <4>2, <4>3, ReadableSlot
    <3> QED
      BY <3>1, <3>2
  <2>3. CASE StealSlot(p)
    <3>1. thief[p].pc = "slot" /\ thief'[p].t = thief[p].t /\ thief'[p].pc = "cas"
      BY <1>3, <2>3 DEF StealSlot
    <3>2. thief'[p].task = memBuffer[Slot(thief[p].t)]
      BY <1>3, <2>3 DEF StealSlot
    <3>3. thief[p].t = top =>
             /\ top < End
             /\ \A k \in 1..Len(pending) : pending[k].loc # Slot(top)
      BY <3>1 DEF Sound, ThiefInv
    <3>4. thief[p].t = top => memBuffer[Slot(top)] = buffer[Slot(top)]
      BY <1>3, <3>3, SlotType DEF Sound, MemoryInv
    <3> QED
      BY <3>1, <3>2, <3>3, <3>4 DEF Sound, ThiefInv
  <2>4. CASE StealFail(p)
    <3>1. thief'[p].t = 0 /\ thief'[p].pc = "idle"
      BY <1>3, <2>4 DEF StealFail, ThiefIdle
    <3> QED
      BY <1>3, <3>1
  <2> QED
    BY <2>1, <2>2, <2>3, <2>4
<1>6. ThiefInv'
  <2> SUFFICES ASSUME NEW q \in Thieves
               PROVE  /\ thief'[q].t <= top
                      /\ thief'[q].pc \in {"slot", "cas"} /\ thief'[q].t = top =>
                            /\ top < End
                            /\ \A k \in 1..Len(pending) : pending[k].loc # Slot(top)
                      /\ thief'[q].pc = "cas" /\ thief'[q].t = top =>
                            thief'[q].task = buffer[Slot(top)]
    BY <1>2 DEF ThiefInv, Slot
  <2>1. CASE q = p
    BY <1>5, <2>1
  <2>2. CASE q # p
    BY <1>4, <2>2 DEF Sound, ThiefInv
  <2> QED
    BY <2>1, <2>2
<1> QED
  BY <1>1, <1>6, OnlyThieves DEF Sound

\* A successful exchange hands out the live task at top, to one thief.
LEMMA StealWinSound ==
    ASSUME TypeOK, Sound, NEW p \in Thieves, StealWin(p)
    PROVE  Sound'
<1> DEFINE got == Receipt(p, thief[p].t, thief[p].task)
<1>1. /\ UNCHANGED <<bottom, buffer, memBottom, memBuffer, pending, owner, pushed>>
      /\ End' = End
      /\ thief[p].pc = "cas" /\ thief[p].t = top
      /\ takes' = takes \cup {got}
  BY DEF StealWin, memory, End, Take
<1>2. top \in Nat /\ bottom \in Nat /\ top' = top + 1 /\ End \in Nat
  BY <1>1 DEF StealWin, TypeOK, End
<1>3. top < End /\ thief[p].task = buffer[Slot(top)]
  BY <1>1 DEF Sound, ThiefInv
<1>4. /\ buffer[Slot(top)] \in 1..pushed
      /\ \A x \in takes : x.task # buffer[Slot(top)]
      /\ \A j \in top..(End - 1) : buffer[Slot(j)] = buffer[Slot(top)] => j = top
  BY <1>2, <1>3 DEF Sound, LiveInv
<1>5. OwnerInv'
  <2>1. owner.pc # "popRestore"
    BY <1>2, <1>3 DEF Sound, OwnerInv, End
  <2>2. top' <= End' /\ End' - top' <= Capacity
    BY <1>1, <1>2, <1>3, DequeAssumption DEF Sound, OwnerInv
  <2>3. owner.pc \in {"pushSlot", "pushBottom"} => owner.b = bottom /\ bottom - top' < Capacity
    BY <1>2, DequeAssumption DEF Sound, OwnerInv
  <2> QED
    BY <1>1, <2>1, <2>2, <2>3 DEF Sound, OwnerInv, Slot
<1>6. MemoryInv' /\ BoundInv'
  BY <1>1 DEF Sound, MemoryInv, BoundInv
<1>7. PublishInv'
  <2>1. \A n \in Int : top'..n \subseteq top..n
    BY <1>2
  <2>2. /\ memBottom - 1 \in Int
        /\ \A m \in 1..Len(pending) : pending[m].val - 1 \in Int
    BY SMTT(20), PendingType DEF TypeOK
  <2> SUFFICES ASSUME NEW k \in 1..Len(pending), pending[k].loc # BottomLoc
               PROVE  /\ \A i \in top'..(memBottom - 1) : Slot(i) # pending[k].loc
                      /\ \A m \in 1..(k-1) : pending[m].loc = BottomLoc =>
                            \A i \in top'..(pending[m].val - 1) : Slot(i) # pending[k].loc
    BY <1>1 DEF PublishInv, Slot
  <2>3. Len(pending) \in Nat
    BY DEF TypeOK, StoreBuffer
  <2>4. \A i \in top'..(memBottom - 1) : Slot(i) # pending[k].loc
    BY <2>1, <2>2 DEF Sound, PublishInv
  <2>5. ASSUME NEW m \in 1..(k-1), pending[m].loc = BottomLoc
        PROVE  \A i \in top'..(pending[m].val - 1) : Slot(i) # pending[k].loc
    <3>1. m \in 1..Len(pending)
      BY <2>3
    <3>2. top'..(pending[m].val - 1) \subseteq top..(pending[m].val - 1)
      BY <2>1, <2>2, <3>1
    <3> QED
      BY <2>5, <3>2 DEF Sound, PublishInv
  <2> QED
    BY <2>4, <2>5
<1>8. LiveInv'
  <2>1. \A i \in top'..(End' - 1) : i \in top..(End - 1) /\ i # top
    BY <1>1, <1>2
  <2>2. \A x \in takes' : x \in takes \/ x.task = buffer[Slot(top)]
    BY <1>1, <1>3, ReceiptSays
  <2>3. ASSUME NEW i \in top'..(End' - 1)
        PROVE  /\ buffer[Slot(i)] \in 1..pushed
               /\ \A x \in takes' : x.task # buffer[Slot(i)]
               /\ \A j \in top'..(End' - 1) : buffer[Slot(i)] = buffer[Slot(j)] => i = j
    BY <1>4, <2>1, <2>2 DEF Sound, LiveInv
  <2>4. owner.pc \in {"pushSlot", "pushBottom"} =>
          /\ owner.task \in 1..pushed
          /\ \A x \in takes' : x.task # owner.task
          /\ \A i \in top'..(End' - 1) : buffer[Slot(i)] # owner.task
    <3>1. top \in top..(End - 1)
      BY <1>2, <1>3
    <3> QED
      BY <2>1, <2>2, <3>1 DEF Sound, LiveInv
  <2> QED
    BY <1>1, <2>3, <2>4 DEF Sound, LiveInv, Slot
<1>9. ThiefInv'
  <2> SUFFICES ASSUME NEW q \in Thieves PROVE thief'[q].t <= top' /\ thief'[q].t # top'
    BY DEF ThiefInv
  <2>1. thief[q].t \in Nat /\ thief[q].t <= top
    BY DEF TypeOK, Sound, ThiefInv
  <2>2. thief'[q].t = thief[q].t \/ thief'[q].t = 0
    BY DEF StealWin, ThiefIdle, TypeOK
  <2> QED
    BY <1>2, <2>1, <2>2
<1>10. HandedOutOnce'
  BY <1>1, <1>3, <1>4, ReceiptSays DEF Sound, HandedOutOnce
<1> QED
  BY <1>5, <1>6, <1>7, <1>8, <1>9, <1>10 DEF Sound

-----------------------------------------------------------------------------
(* Push.                                                                   *)

LEMMA PushBeginSound ==
    ASSUME TypeOK, Sound, PushBegin
    PROVE  Sound'
<1>1. /\ UNCHANGED <<top, bottom, buffer, memBottom, memBuffer, pending, thief, takes>>
      /\ owner.pc = "idle" /\ owner'.pc = "pushSlot"
      /\ owner'.b = bottom /\ owner'.task = pushed + 1
      /\ pushed' = pushed + 1
      /\ bottom >= top /\ bottom - top < Capacity
  BY DEF PushBegin, memory, HasRoom
<1>2. End = bottom /\ End' = bottom /\ top \in Nat /\ bottom \in Nat /\ pushed \in Nat
  BY <1>1 DEF End, TypeOK
<1>3. OwnerInv'
  BY <1>1, <1>2, DequeAssumption DEF OwnerInv
<1>4. MemoryInv' /\ BoundInv' /\ PublishInv'
  <2>1. /\ pending' = pending /\ bottom' = bottom /\ top' = top
        /\ memBottom' = memBottom /\ buffer' = buffer /\ memBuffer' = memBuffer
    BY <1>1
  <2>2. MemoryInv'
    BY <2>1 DEF Sound, MemoryInv
  <2>3. BoundInv'
    <3>1. End' = End
      BY <1>2, <2>1
    <3> QED
      BY <2>1, <3>1 DEF Sound, BoundInv
  <2>4. PublishInv'
    BY <2>1 DEF Sound, PublishInv, Slot
  <2> QED
    BY <2>2, <2>3, <2>4
<1>5. LiveInv'
  <2>1. \A x \in takes : x.task \in 1..pushed
    BY DEF Sound, HandedOutOnce
  <2>2. \A i \in top..(End - 1) : buffer[Slot(i)] \in 1..pushed
    BY DEF Sound, LiveInv
  <2>3. pushed + 1 \notin 1..pushed /\ pushed + 1 \in 1..pushed' /\ 1..pushed \subseteq 1..pushed'
    BY <1>1, <1>2
  <2> QED
    BY <1>1, <1>2, <2>1, <2>2, <2>3 DEF Sound, LiveInv, Slot
<1>6. ThiefInv'
  BY <1>1, <1>2 DEF Sound, ThiefInv, Slot
<1>7. HandedOutOnce'
  <2>1. 1..pushed \subseteq 1..pushed'
    BY <1>1, <1>2
  <2> QED
    BY <1>1, <2>1 DEF Sound, HandedOutOnce
<1> QED
  BY <1>3, <1>4, <1>5, <1>6, <1>7 DEF Sound

\* The slot written is Capacity or more away from every live one.
LEMMA PushSlotSound ==
    ASSUME TypeOK, Sound, PushSlot
    PROVE  Sound'
<1> DEFINE s == Slot(bottom)
<1>1. /\ owner.pc = "pushSlot" /\ owner'.pc = "pushBottom"
      /\ owner'.b = owner.b /\ owner'.task = owner.task
      /\ UNCHANGED <<top, thief, pushed, takes>>
      /\ Store(Slot(owner.b), owner.task)
  <2>1. owner'.b = owner.b /\ owner'.task = owner.task /\ owner'.pc = "pushBottom"
    BY DEF PushSlot, TypeOK
  <2> QED
    BY <2>1 DEF PushSlot, history
<1>2. /\ owner.b = bottom /\ End = bottom /\ bottom - top < Capacity /\ top <= bottom
      /\ top \in Nat /\ bottom \in Nat /\ memBottom \in Nat /\ owner.task \in Nat
      /\ Len(pending) \in Nat
  BY <1>1 DEF Sound, OwnerInv, End, TypeOK, StoreBuffer
<1>3. s \in 0..Capacity /\ s \in Slots /\ s # BottomLoc
  BY SMTT(20), <1>2, SlotType, DequeAssumption DEF Slots
<1>4. /\ bottom' = bottom /\ buffer' = [buffer EXCEPT ![s] = owner.task]
      /\ End' = bottom
  <2>1. bottom' = bottom /\ buffer' = [buffer EXCEPT ![s] = owner.task]
    BY <1>1, <1>2, <1>3, StoreEffect DEF Sound
  <2> QED
    BY <1>1, <2>1 DEF End
<1>5. \A i \in top..(bottom - 1) : Slot(i) # s /\ Slot(i) \in Slots
  <2> SUFFICES ASSUME NEW i \in top..(bottom - 1)
               PROVE  Slot(i) # s /\ Slot(i) \in Slots
    OBVIOUS
  <2>1. i \in Nat /\ i < bottom /\ bottom < i + Capacity
    BY <1>2, DequeAssumption
  <2> QED
    BY <1>2, <2>1, SlotsDiffer, SlotType
<1>6. buffer'[s] = owner.task /\ \A i \in top..(bottom - 1) : buffer'[Slot(i)] = buffer[Slot(i)]
  BY <1>3, <1>4, <1>5 DEF TypeOK
<1>7. OwnerInv'
  BY <1>1, <1>2, <1>4 DEF Sound, OwnerInv
<1>8. MemoryInv'
  BY <1>1, <1>2, <1>3, StoreMemory DEF Sound
<1>9. \/ /\ pending' = <<>> /\ memBottom' = bottom
      \/ /\ memBottom' = memBottom
         /\ Len(pending') = Len(pending) + 1
         /\ \A k \in 1..Len(pending) : pending'[k] = pending[k]
         /\ pending'[Len(pending) + 1] = [loc |-> s, val |-> owner.task]
  BY <1>1, <1>2, <1>3, <1>4, StoreEffect DEF Sound
<1>10. /\ memBottom <= bottom
       /\ \A k \in 1..Len(pending) : pending[k].loc = BottomLoc => pending[k].val <= bottom
  BY <1>2 DEF Sound, BoundInv
<1>11. BoundInv'
  <2>1. CASE pending' = <<>> /\ memBottom' = bottom
    BY <1>2, <1>4, <2>1 DEF BoundInv
  <2>2. CASE /\ memBottom' = memBottom
             /\ Len(pending') = Len(pending) + 1
             /\ \A k \in 1..Len(pending) : pending'[k] = pending[k]
             /\ pending'[Len(pending) + 1] = [loc |-> s, val |-> owner.task]
    BY <1>2, <1>3, <1>4, <1>10, <2>2 DEF BoundInv
  <2> QED
    BY <1>9, <2>1, <2>2
<1>12. PublishInv'
  <2>1. CASE pending' = <<>>
    BY <2>1 DEF PublishInv
  <2>2. CASE /\ memBottom' = memBottom
             /\ Len(pending') = Len(pending) + 1
             /\ \A k \in 1..Len(pending) : pending'[k] = pending[k]
             /\ pending'[Len(pending) + 1] = [loc |-> s, val |-> owner.task]
    <3> SUFFICES ASSUME NEW k \in 1..Len(pending'), pending'[k].loc # BottomLoc
                 PROVE  /\ \A i \in top..(memBottom - 1) : Slot(i) # pending'[k].loc
                        /\ \A m \in 1..(k-1) : pending'[m].loc = BottomLoc =>
                              \A i \in top..(pending'[m].val - 1) : Slot(i) # pending'[k].loc
      BY <1>1, <2>2 DEF PublishInv, Slot
    <3>1. CASE k \in 1..Len(pending)
      <4>1. pending'[k] = pending[k] /\ \A m \in 1..(k-1) : pending'[m] = pending[m]
        BY <1>2, <2>2, <3>1
      <4> QED
        BY <3>1, <4>1 DEF Sound, PublishInv
    <3>2. CASE k = Len(pending) + 1
      <4>1. pending'[k].loc = s /\ \A m \in 1..(k-1) : m \in 1..Len(pending) /\ pending'[m] = pending[m]
        BY <1>2, <2>2, <3>2
      <4>2. \A i \in top..(memBottom - 1) : Slot(i) # s
        BY <1>2, <1>5, <1>10
      <4>3. ASSUME NEW m \in 1..(k-1), pending'[m].loc = BottomLoc
            PROVE  \A i \in top..(pending'[m].val - 1) : Slot(i) # s
        <5>1. m \in 1..Len(pending) /\ pending'[m] = pending[m]
          BY <4>1
        <5>2. pending[m].val <= bottom /\ pending[m].val \in Nat
          BY <1>10, <4>3, <5>1, PendingType
        <5> QED
          BY <1>2, <1>5, <5>1, <5>2
      <4> QED
        BY <4>1, <4>2, <4>3
    <3> QED
      BY <1>2, <2>2, <3>1, <3>2
  <2> QED
    BY <1>9, <2>1, <2>2
<1>13. LiveInv'
  <2>1. \A i \in top..(End' - 1) : i \in top..(End - 1) /\ buffer'[Slot(i)] = buffer[Slot(i)]
    BY <1>2, <1>4, <1>6
  <2> QED
    BY <1>1, <1>4, <1>6, <2>1 DEF Sound, LiveInv, Slot
<1>14. ThiefInv'
  <2> SUFFICES ASSUME NEW p \in Thieves,
                      thief[p].pc \in {"slot", "cas"}, thief[p].t = top
               PROVE  /\ top < End'
                      /\ \A k \in 1..Len(pending') : pending'[k].loc # Slot(top)
                      /\ thief[p].pc = "cas" => thief[p].task = buffer'[Slot(top)]
    BY <1>1 DEF Sound, ThiefInv, Slot
  <2>1. /\ top < End
        /\ \A k \in 1..Len(pending) : pending[k].loc # Slot(top)
        /\ thief[p].pc = "cas" => thief[p].task = buffer[Slot(top)]
    BY DEF Sound, ThiefInv
  <2>2. top \in top..(bottom - 1)
    BY <1>2, <2>1
  <2>3. \A k \in 1..Len(pending') : pending'[k].loc # Slot(top)
    <3>1. CASE pending' = <<>>
      BY <3>1
    <3>2. CASE /\ Len(pending') = Len(pending) + 1
               /\ \A k \in 1..Len(pending) : pending'[k] = pending[k]
               /\ pending'[Len(pending) + 1] = [loc |-> s, val |-> owner.task]
      BY <1>2, <1>5, <2>1, <2>2, <3>2
    <3> QED
      BY <1>9, <3>1, <3>2
  <2> QED
    BY <1>2, <1>4, <1>6, <2>1, <2>2, <2>3
<1>15. HandedOutOnce'
  BY <1>1 DEF Sound, HandedOutOnce
<1> QED
  BY <1>7, <1>8, <1>11, <1>12, <1>13, <1>14, <1>15 DEF Sound

LEMMA BottomStore ==
    ASSUME NEW v, Store(BottomLoc, v)
    PROVE  bottom' = v /\ buffer' = buffer
BY DEF Store, SetOwn

\* A store to bottom that neither exceeds End nor lowers it.
LEMMA BottomStoreSound ==
    ASSUME TypeOK, Sound, NEW v \in Nat, Store(BottomLoc, v),
           UNCHANGED <<top, thief, pushed, takes>>,
           v <= End', End <= End', End' \in Nat
    PROVE  /\ bottom' = v /\ buffer' = buffer
           /\ MemoryInv' /\ BoundInv' /\ PublishInv' /\ ThiefInv' /\ HandedOutOnce'
<1>1. BottomLoc \in 0..Capacity
  BY DequeAssumption DEF BottomLoc
<1>2. bottom' = v /\ buffer' = buffer
  BY <1>1, StoreEffect DEF Sound
<1>3. MemoryInv'
  BY <1>1, StoreMemory DEF Sound
<1>4. \/ /\ pending' = <<>> /\ memBottom' = v
      \/ /\ memBottom' = memBottom /\ Len(pending) \in Nat
         /\ Len(pending') = Len(pending) + 1
         /\ \A k \in 1..Len(pending) : pending'[k] = pending[k]
         /\ pending'[Len(pending) + 1] = [loc |-> BottomLoc, val |-> v]
  BY <1>1, <1>2, StoreEffect DEF Sound
<1>5. top \in Nat /\ End \in Nat /\ memBottom \in Nat
  BY DEF TypeOK, End
<1>6. CASE pending' = <<>> /\ memBottom' = v
  <2>1. BoundInv' /\ PublishInv'
    BY <1>6 DEF BoundInv, PublishInv
  <2>2. ThiefInv'
    BY <1>2, <1>5, <1>6 DEF Sound, ThiefInv, Slot
  <2> QED
    BY <1>2, <1>3, <2>1, <2>2 DEF Sound, HandedOutOnce
<1>7. CASE /\ memBottom' = memBottom /\ Len(pending) \in Nat
           /\ Len(pending') = Len(pending) + 1
           /\ \A k \in 1..Len(pending) : pending'[k] = pending[k]
           /\ pending'[Len(pending) + 1] = [loc |-> BottomLoc, val |-> v]
  <2> DEFINE n == Len(pending) + 1
  <2>1. \A k \in 1..Len(pending') : \/ k \in 1..Len(pending) /\ pending'[k] = pending[k]
                                    \/ k = n /\ pending'[k].loc = BottomLoc /\ pending'[k].val = v
    BY <1>7
  <2>2. BoundInv'
    <3>1. memBottom <= End /\ \A k \in 1..Len(pending) :
             pending[k].loc = BottomLoc => pending[k].val <= End /\ pending[k].val \in Nat
      BY PendingType DEF Sound, BoundInv
    <3>2. memBottom' <= End'
      BY <1>5, <1>7, <3>1
    <3>3. ASSUME NEW k \in 1..Len(pending'), pending'[k].loc = BottomLoc
          PROVE  pending'[k].val <= End'
      BY <1>5, <2>1, <3>1, <3>3
    <3> QED
      BY <3>2, <3>3 DEF BoundInv
  <2>3. PublishInv'
    <3> SUFFICES ASSUME NEW k \in 1..Len(pending'), pending'[k].loc # BottomLoc
                 PROVE  /\ \A i \in top..(memBottom - 1) : Slot(i) # pending'[k].loc
                        /\ \A m \in 1..(k-1) : pending'[m].loc = BottomLoc =>
                              \A i \in top..(pending'[m].val - 1) : Slot(i) # pending'[k].loc
      BY <1>7 DEF PublishInv, Slot
    <3>1. k \in 1..Len(pending) /\ pending'[k] = pending[k]
      BY <2>1
    <3>2. \A m \in 1..(k-1) : pending'[m] = pending[m]
      BY <1>7, <3>1
    <3> QED
      BY <3>1, <3>2 DEF Sound, PublishInv
  <2>4. ThiefInv'
    <3> SUFFICES ASSUME NEW p \in Thieves,
                        thief[p].pc \in {"slot", "cas"}, thief[p].t = top
                 PROVE  /\ top < End'
                        /\ \A k \in 1..Len(pending') : pending'[k].loc # Slot(top)
                        /\ thief[p].pc = "cas" => thief[p].task = buffer[Slot(top)]
      BY <1>2 DEF Sound, ThiefInv, Slot
    <3>1. Slot(top) # BottomLoc
      BY <1>5, SlotType
    <3>2. \A k \in 1..Len(pending') : pending'[k].loc # Slot(top)
      BY <2>1, <3>1 DEF Sound, ThiefInv
    <3> QED
      BY <1>5, <3>2 DEF Sound, ThiefInv
  <2> QED
    BY <1>2, <1>3, <2>2, <2>3, <2>4 DEF Sound, HandedOutOnce
<1> QED
  BY <1>4, <1>6, <1>7

LEMMA PushBottomSound ==
    ASSUME TypeOK, Sound, PushBottom
    PROVE  Sound'
<1>1. /\ owner.pc = "pushBottom" /\ owner'.pc = "idle"
      /\ UNCHANGED <<top, thief, pushed, takes>>
      /\ Store(BottomLoc, owner.b + 1)
  BY DEF PushBottom, OwnerIdle, history
<1>2. /\ owner.b = bottom /\ End = bottom /\ bottom - top < Capacity /\ top <= bottom
      /\ top \in Nat /\ bottom \in Nat
  BY <1>1 DEF Sound, OwnerInv, End, TypeOK
<1>3. bottom' = bottom + 1 /\ buffer' = buffer
  BY <1>1, <1>2, BottomStore
<1>4. End' = bottom + 1
  BY <1>1, <1>3 DEF End
<1>5. MemoryInv' /\ BoundInv' /\ PublishInv' /\ ThiefInv' /\ HandedOutOnce'
  BY <1>1, <1>2, <1>4, BottomStoreSound
<1>6. OwnerInv'
  BY <1>1, <1>2, <1>4, DequeAssumption DEF OwnerInv
<1>7. LiveInv'
  <2>1. \A i \in top..(End' - 1) : i \in top..(End - 1) \/ i = bottom
    BY <1>2, <1>4
  <2>2. /\ buffer[Slot(bottom)] = owner.task /\ owner.task \in 1..pushed
        /\ \A x \in takes : x.task # owner.task
        /\ \A i \in top..(End - 1) : buffer[Slot(i)] # owner.task
    BY <1>1 DEF Sound, LiveInv
  <2> QED
    BY <1>1, <1>3, <2>1, <2>2 DEF Sound, LiveInv, Slot
<1> QED
  BY <1>5, <1>6, <1>7 DEF Sound

-----------------------------------------------------------------------------
(* Pop.                                                                    *)

LEMMA PopBeginSound ==
    ASSUME TypeOK, Sound, PopBegin
    PROVE  Sound'
<1>1. /\ owner.pc = "idle" /\ owner'.pc = "popTop" /\ owner'.b = bottom - 1
      /\ UNCHANGED <<top, thief, pushed, takes>>
      /\ Store(BottomLoc, bottom - 1) /\ bottom # 0
  BY DEF PopBegin, OwnerIdle, history
<1>2. End = bottom /\ top <= bottom /\ top \in Nat /\ bottom \in Nat /\ bottom - 1 \in Nat
  BY <1>1 DEF Sound, OwnerInv, End, TypeOK
<1>3. bottom' = bottom - 1 /\ buffer' = buffer
  BY <1>1, <1>2, BottomStore
<1>4. End' = End
  BY <1>1, <1>2, <1>3 DEF End
<1>5. MemoryInv' /\ BoundInv' /\ PublishInv' /\ ThiefInv' /\ HandedOutOnce'
  BY <1>1, <1>2, <1>4, BottomStoreSound
<1>6. OwnerInv'
  BY <1>1, <1>3, <1>4 DEF Sound, OwnerInv
<1>7. LiveInv'
  BY <1>1, <1>3, <1>4 DEF Sound, LiveInv, Slot
<1> QED
  BY <1>5, <1>6, <1>7 DEF Sound

LEMMA PopRestoreSound ==
    ASSUME TypeOK, Sound, PopRestore
    PROVE  Sound'
<1>1. /\ owner.pc = "popRestore" /\ owner'.pc = "idle"
      /\ UNCHANGED <<top, thief, pushed, takes>>
      /\ Store(BottomLoc, owner.t)
  BY DEF PopRestore, OwnerIdle, history
<1>2. owner.t = top /\ End = top /\ top \in Nat /\ bottom \in Nat
  BY <1>1 DEF Sound, OwnerInv, End, TypeOK
<1>3. bottom' = top /\ buffer' = buffer
  BY <1>1, <1>2, BottomStore
<1>4. End' = End
  BY <1>1, <1>2, <1>3 DEF End
<1>5. MemoryInv' /\ BoundInv' /\ PublishInv' /\ ThiefInv' /\ HandedOutOnce'
  BY <1>1, <1>2, <1>4, BottomStoreSound
<1>6. OwnerInv'
  BY <1>1, <1>2, <1>4 DEF Sound, OwnerInv
<1>7. LiveInv'
  BY <1>1, <1>3, <1>4 DEF Sound, LiveInv, Slot
<1> QED
  BY <1>5, <1>6, <1>7 DEF Sound

\* What every Pop knows once its load of top has not overtaken its store.
LEMMA LoadTopFacts ==
    ASSUME TypeOK, Sound, LoadTop, ~overtook'
    PROVE  /\ UNCHANGED <<top, bottom, buffer, memBottom, memBuffer, pending, thief, pushed>>
           /\ pending = <<>> /\ memBottom = bottom
           /\ owner.pc = "popTop" /\ owner.b = bottom /\ End = bottom + 1
           /\ top \in Nat /\ bottom \in Nat /\ top <= bottom + 1
<1>1. pending = <<>> /\ owner.pc = "popTop"
  BY DEF LoadTop
<1>2. memBottom = bottom
  BY <1>1 DEF Sound, MemoryInv
<1> QED
  BY <1>1, <1>2 DEF LoadTop, memory, Sound, OwnerInv, End, TypeOK

LEMMA PopEmptySound ==
    ASSUME TypeOK, Sound, PopEmpty, ~overtook'
    PROVE  Sound'
<1>1. /\ UNCHANGED <<top, bottom, buffer, memBottom, memBuffer, pending, thief, pushed>>
      /\ pending = <<>> /\ owner.b = bottom /\ End = bottom + 1
      /\ top \in Nat /\ bottom \in Nat /\ top <= bottom + 1
  BY LoadTopFacts DEF PopEmpty
<1>2. owner.b < top /\ takes' = takes /\ owner'.pc = "popRestore" /\ owner'.t = top
  BY DEF PopEmpty, TypeOK
<1>3. End' = End /\ top = bottom + 1
  BY <1>1, <1>2 DEF End
<1>4. OwnerInv'
  BY <1>1, <1>2, <1>3 DEF Sound, OwnerInv
<1>5. MemoryInv' /\ BoundInv' /\ PublishInv'
  BY <1>1, <1>3 DEF Sound, MemoryInv, BoundInv, PublishInv, Slot
<1>6. LiveInv'
  <2>1. /\ top' = top /\ End' = End /\ buffer' = buffer /\ takes' = takes /\ pushed' = pushed
        /\ owner'.pc \notin {"pushSlot", "pushBottom"}
    BY <1>1, <1>2, <1>3
  <2> QED
    BY <2>1 DEF Sound, LiveInv, Slot
<1>7. ThiefInv'
  BY <1>1, <1>3 DEF Sound, ThiefInv, Slot
<1>8. HandedOutOnce'
  BY <1>1, <1>2 DEF Sound, HandedOutOnce
<1> QED
  BY <1>4, <1>5, <1>6, <1>7, <1>8 DEF Sound

LEMMA PopLastSound ==
    ASSUME TypeOK, Sound, PopLast, ~overtook'
    PROVE  Sound'
<1>1. /\ UNCHANGED <<top, bottom, buffer, memBottom, memBuffer, pending, thief, pushed>>
      /\ pending = <<>> /\ owner.b = bottom /\ End = bottom + 1
      /\ top \in Nat /\ bottom \in Nat
  BY LoadTopFacts DEF PopLast
<1>2. /\ owner.b = top /\ takes' = takes /\ owner'.pc = "popCas"
      /\ owner'.t = top /\ owner'.b = owner.b /\ owner'.task = buffer[Slot(owner.b)]
  BY DEF PopLast, TypeOK
<1>3. End' = End
  BY <1>1, <1>2 DEF End
<1>4. OwnerInv'
  BY <1>1, <1>2, <1>3 DEF Sound, OwnerInv, Slot
<1>5. MemoryInv' /\ BoundInv' /\ PublishInv'
  BY <1>1, <1>3 DEF Sound, MemoryInv, BoundInv, PublishInv, Slot
<1>6. LiveInv'
  <2>1. /\ top' = top /\ End' = End /\ buffer' = buffer /\ takes' = takes /\ pushed' = pushed
        /\ owner'.pc \notin {"pushSlot", "pushBottom"}
    BY <1>1, <1>2, <1>3
  <2> QED
    BY <2>1 DEF Sound, LiveInv, Slot
<1>7. ThiefInv'
  BY <1>1, <1>3 DEF Sound, ThiefInv, Slot
<1>8. HandedOutOnce'
  BY <1>1, <1>2 DEF Sound, HandedOutOnce
<1> QED
  BY <1>4, <1>5, <1>6, <1>7, <1>8 DEF Sound

\* b > t: no thief can reach index b any more, so no exchange is needed.
LEMMA PopTakeSound ==
    ASSUME TypeOK, Sound, PopTake, ~overtook'
    PROVE  Sound'
<1> DEFINE got == Receipt(Owner, owner.b, buffer[Slot(owner.b)])
<1>1. /\ UNCHANGED <<top, bottom, buffer, memBottom, memBuffer, pending, thief, pushed>>
      /\ pending = <<>> /\ memBottom = bottom /\ owner.b = bottom /\ End = bottom + 1
      /\ top \in Nat /\ bottom \in Nat
  BY LoadTopFacts DEF PopTake
<1>2. bottom > top /\ owner'.pc = "idle" /\ takes' = takes \cup {got}
  BY <1>1 DEF PopTake, Take, OwnerIdle
<1>3. End' = bottom
  BY <1>1, <1>2 DEF End
<1>4. /\ buffer[Slot(bottom)] \in 1..pushed
      /\ \A x \in takes : x.task # buffer[Slot(bottom)]
      /\ \A j \in top..(End - 1) : buffer[Slot(j)] = buffer[Slot(bottom)] => j = bottom
  <2>1. bottom \in top..(End - 1)
    BY <1>1, <1>2
  <2> QED
    BY <2>1 DEF Sound, LiveInv
<1>5. OwnerInv'
  BY <1>1, <1>2, <1>3, DequeAssumption DEF Sound, OwnerInv
<1>6. MemoryInv' /\ BoundInv' /\ PublishInv'
  BY <1>1, <1>3 DEF Sound, MemoryInv, BoundInv, PublishInv, Slot
<1>7. LiveInv'
  <2>1. \A i \in top..(End' - 1) : i \in top..(End - 1) /\ i # bottom
    BY <1>1, <1>3
  <2>2. \A x \in takes' : x \in takes \/ x.task = buffer[Slot(bottom)]
    BY <1>1, <1>2, ReceiptSays
  <2> QED
    BY <1>1, <1>2, <1>4, <2>1, <2>2 DEF Sound, LiveInv, Slot
<1>8. ThiefInv'
  BY <1>1, <1>2, <1>3 DEF Sound, ThiefInv, Slot
<1>9. HandedOutOnce'
  BY <1>1, <1>2, <1>4, ReceiptSays DEF Sound, HandedOutOnce
<1> QED
  BY <1>5, <1>6, <1>7, <1>8, <1>9 DEF Sound

LEMMA PopWinSound ==
    ASSUME TypeOK, Sound, PopWin
    PROVE  Sound'
<1> DEFINE got == Receipt(Owner, owner.b, owner.task)
<1>1. /\ UNCHANGED <<bottom, buffer, memBottom, memBuffer, pending, thief, pushed>>
      /\ owner.pc = "popCas" /\ pending = <<>> /\ top = owner.t
      /\ top' = owner.t + 1 /\ takes' = takes \cup {got}
  BY DEF PopWin, Take, memory
<1>2. owner'.pc = "popRestore" /\ owner'.t = top'
  BY DEF PopWin, TypeOK
<1>3. /\ owner.b = bottom /\ top = bottom /\ top' = bottom + 1
      /\ owner.task = buffer[Slot(bottom)]
      /\ End = bottom + 1 /\ End' = bottom + 1 /\ top \in Nat /\ bottom \in Nat
  BY <1>1, <1>2 DEF Sound, OwnerInv, End, TypeOK
<1>4. /\ buffer[Slot(bottom)] \in 1..pushed
      /\ \A x \in takes : x.task # buffer[Slot(bottom)]
  <2>1. bottom \in top..(End - 1)
    BY <1>3
  <2> QED
    BY <2>1 DEF Sound, LiveInv
<1>5. OwnerInv'
  BY <1>1, <1>2, <1>3, DequeAssumption DEF OwnerInv
<1>6. MemoryInv' /\ BoundInv' /\ PublishInv'
  BY <1>1, <1>3 DEF Sound, MemoryInv, BoundInv, PublishInv, Slot
<1>7. LiveInv'
  <2>1. top'..(End' - 1) = {}
    BY <1>3
  <2> QED
    BY <1>2, <2>1 DEF LiveInv
<1>8. ThiefInv'
  <2> SUFFICES ASSUME NEW q \in Thieves PROVE thief[q].t <= top' /\ thief[q].t # top'
    BY <1>1 DEF ThiefInv
  <2>1. thief[q].t \in Nat /\ thief[q].t <= top
    BY DEF TypeOK, Sound, ThiefInv
  <2> QED
    BY <1>3, <2>1
<1>9. HandedOutOnce'
  BY <1>1, <1>3, <1>4, ReceiptSays DEF Sound, HandedOutOnce
<1> QED
  BY <1>5, <1>6, <1>7, <1>8, <1>9 DEF Sound

-----------------------------------------------------------------------------

\* What has broken the promise stays on record.
LEMMA BrokenForGood ==
    ASSUME raceLost \in BOOLEAN, overtook \in BOOLEAN, [Next]_vars
    PROVE  (raceLost => raceLost') /\ (overtook => overtook')
<1> DEFINE Same == raceLost' = raceLost /\ overtook' = overtook
<1>1. CASE Push
  <2>1. Same
    BY <1>1 DEF Push, PushBegin, PushFull, PushSlot, PushBottom, vars, history
  <2> QED
    BY <2>1
<1>2. CASE Pop
  <2>1. CASE PopNone \/ PopBegin \/ PopRestore \/ PopWin
    <3>1. Same
      BY <2>1 DEF PopNone, PopBegin, PopRestore, PopWin, vars, history
    <3> QED
      BY <3>1
  <2>2. CASE PopEmpty \/ PopTake \/ PopLast
    <3>1. raceLost' = raceLost /\ overtook' = (overtook \/ pending # <<>>)
      BY <2>2 DEF PopEmpty, PopTake, PopLast, LoadTop
    <3> QED
      BY <3>1
  <2>3. CASE PopLose
    <3>1. raceLost' = TRUE /\ overtook' = overtook
      BY <2>3 DEF PopLose
    <3> QED
      BY <3>1
  <2> QED
    BY <1>2, <2>1, <2>2, <2>3 DEF Pop
<1>3. CASE Drain
  <2>1. Same
    BY <1>3 DEF Drain, history
  <2> QED
    BY <2>1
<1>4. ASSUME NEW p \in Thieves, Steal(p)
      PROVE  (raceLost => raceLost') /\ (overtook => overtook')
  <2>1. Same
    BY <1>4 DEF Steal, StealTop, StealBottom, StealSlot, StealWin, StealFail, history
  <2> QED
    BY <2>1
<1>5. CASE UNCHANGED vars
  <2>1. Same
    BY <1>5 DEF vars, history
  <2> QED
    BY <2>1
<1> QED
  BY <1>1, <1>2, <1>3, <1>4, <1>5 DEF Next

\* IInv holds of every state that the deque can reach.
LEMMA DequeSound == Spec => []IInv
<1>1. Init => IInv
  <2> SUFFICES ASSUME Init PROVE IInv
    OBVIOUS
  <2>1. TypeOK
    <3>1. buffer \in [Slots -> Nat] /\ memBuffer \in [Slots -> Nat]
      BY DEF Init, Slots, Garbage
    <3>2. pending \in StoreBuffer /\ takes \in SUBSET [by : {Owner} \cup Thieves,
                                                      at : Nat, task : Nat]
      BY DEF Init, StoreBuffer
    <3> QED
      BY <3>1, <3>2 DEF Init, TypeOK, Garbage, OwnerIdle, ThiefIdle
  <2>2. /\ top = 0 /\ bottom = 0 /\ memBottom = 0 /\ memBuffer = buffer /\ pending = <<>>
        /\ owner.pc = "idle" /\ takes = {} /\ End = 0
        /\ \A p \in Thieves : thief[p].pc = "idle" /\ thief[p].t = 0
    BY DEF Init, OwnerIdle, ThiefIdle, End
  <2>3. OwnerInv /\ MemoryInv /\ BoundInv /\ PublishInv
    BY <2>2, DequeAssumption DEF OwnerInv, MemoryInv, BoundInv, PublishInv
  <2>4. LiveInv /\ ThiefInv /\ HandedOutOnce
    BY <2>2 DEF LiveInv, ThiefInv, HandedOutOnce
  <2> QED
    BY <2>1, <2>3, <2>4 DEF IInv, Sound
<1>2. IInv /\ TypeOK' /\ [Next]_vars => IInv'
  <2> SUFFICES ASSUME TypeOK, Sound, TypeOK', [Next]_vars, ~raceLost', ~overtook'
               PROVE  Sound'
    BY BrokenForGood DEF IInv, TypeOK
  <2>1. CASE UNCHANGED vars
    <3>1. UNCHANGED <<top, memory, owner, history>> /\ UNCHANGED <<bottom, buffer, pending, thief>>
      BY <2>1 DEF vars, memory
    <3> QED
      BY <3>1, OnlyThieves DEF Sound, ThiefInv, Slot
  <2>2. CASE Push
    BY <2>1, <2>2, PushBeginSound, PushSlotSound, PushBottomSound DEF Push, PushFull
  <2>3. CASE Pop
    <3>1. ~PopLose
      BY DEF PopLose
    <3> QED
      BY <2>1, <2>3, <3>1, PopBeginSound, PopEmptySound, PopTakeSound, PopLastSound,
         PopWinSound, PopRestoreSound DEF Pop, PopNone
  <2>4. CASE Drain
    BY <2>4, DrainSound
  <2>5. ASSUME NEW p \in Thieves, Steal(p) PROVE Sound'
    BY <2>5, StealKeepsSound, StealWinSound DEF Steal
  <2> QED
    BY <2>1, <2>2, <2>3, <2>4, <2>5 DEF Next
<1> QED
  BY <1>1, <1>2, DequeTypes, PTL DEF Spec

(***************************************************************************)
(* Whatever the number of thieves, the size of the ring and the depth of   *)
(* the store buffer: until a Pop loses the race for a last element or      *)
(* loads top before its store to bottom is in memory, no task is handed    *)
(* out twice and no slot is read before it was written.                    *)
(***************************************************************************)
THEOREM DequeAtMostOnce == Spec => []AtMostOnceUntilBroken
<1>1. IInv => AtMostOnceUntilBroken
  BY DEF IInv, Sound, AtMostOnceUntilBroken
<1> QED
  BY <1>1, DequeSound, PTL

-----------------------------------------------------------------------------
(* Nothing is lost.                                                        *)

\* A task that was accepted is handed out, or in the owner's hand, or in a slot
\* between top and End.
Kept(n) == \/ \E x \in takes : x.task = n
           \/ n \in InHand
           \/ \E i \in top..(End - 1) : buffer[Slot(i)] = n

KeptInv == \A n \in 1..pushed : Kept(n)

\* Steps that neither hand out nor move anything.
LEMMA NothingMoves ==
    ASSUME KeptInv, UNCHANGED <<top, buffer, takes, pushed>>, End' = End, InHand' = InHand
    PROVE  KeptInv'
BY DEF KeptInv, Kept, Slot

\* A slot at an end of the live ones is given up, and its task handed out.
LEMMA OneHandedOut ==
    ASSUME KeptInv, NEW k, NEW x,
           buffer' = buffer, pushed' = pushed, InHand' = InHand,
           takes' = takes \cup {x}, x.task = buffer[Slot(k)],
           \A i \in top..(End - 1) : i = k \/ i \in top'..(End' - 1)
    PROVE  KeptInv'
BY DEF KeptInv, Kept, Slot

LEMMA PushKeeps ==
    ASSUME TypeOK, Sound, KeptInv, PushBegin \/ PushSlot \/ PushBottom
    PROVE  KeptInv'
<1>1. CASE PushBegin
  <2>1. /\ UNCHANGED <<top, bottom, buffer, takes>> /\ pushed' = pushed + 1
        /\ owner.pc = "idle" /\ owner'.pc = "pushSlot" /\ owner'.task = pushed + 1
        /\ pushed \in Nat
    BY <1>1 DEF PushBegin, memory, TypeOK
  <2>2. End' = End /\ InHand = {} /\ InHand' = {pushed + 1}
    BY <2>1 DEF End, InHand
  <2>3. \A n \in 1..pushed' : n \in 1..pushed \/ n = pushed + 1
    BY <2>1
  <2> QED
    BY <2>1, <2>2, <2>3 DEF KeptInv, Kept, Slot
<1>2. CASE PushSlot
  <2> DEFINE s == Slot(bottom)
  <2>1. /\ owner.pc = "pushSlot" /\ owner'.pc = "pushBottom" /\ owner'.task = owner.task
        /\ UNCHANGED <<top, takes, pushed>> /\ Store(Slot(owner.b), owner.task)
    BY <1>2 DEF PushSlot, TypeOK, history
  <2>2. /\ owner.b = bottom /\ End = bottom /\ bottom - top < Capacity
        /\ top \in Nat /\ bottom \in Nat
    BY <2>1 DEF Sound, OwnerInv, End, TypeOK
  <2>3. s \in Slots /\ s # BottomLoc
    BY <2>2, SlotType
  <2>4. bottom' = bottom /\ buffer' = [buffer EXCEPT ![s] = owner.task]
    BY <2>1, <2>2, <2>3 DEF Store, SetOwn
  <2>5. End' = End /\ InHand' = InHand
    BY <2>1, <2>2, <2>4 DEF End, InHand
  <2>6. ASSUME NEW i \in top..(End - 1) PROVE buffer'[Slot(i)] = buffer[Slot(i)]
    <3>1. i \in Nat /\ i < bottom /\ bottom < i + Capacity
      BY <2>2, DequeAssumption
    <3>2. Slot(i) # s /\ Slot(i) \in Slots
      BY <2>2, <3>1, SlotsDiffer, SlotType
    <3> QED
      BY <2>4, <3>2 DEF TypeOK
  <2> QED
    BY <2>1, <2>5, <2>6 DEF KeptInv, Kept, Slot
<1>3. CASE PushBottom
  <2>1. /\ owner.pc = "pushBottom" /\ owner'.pc = "idle"
        /\ UNCHANGED <<top, takes, pushed>> /\ Store(BottomLoc, owner.b + 1)
    BY <1>3 DEF PushBottom, OwnerIdle, history
  <2>2. /\ owner.b = bottom /\ End = bottom /\ top <= bottom
        /\ top \in Nat /\ bottom \in Nat /\ buffer[Slot(bottom)] = owner.task
    BY <2>1 DEF Sound, OwnerInv, LiveInv, End, TypeOK
  <2>3. bottom' = bottom + 1 /\ buffer' = buffer
    BY <2>1, <2>2, BottomStore
  <2>4. End' = bottom + 1 /\ InHand = {owner.task}
    BY <2>1, <2>3 DEF End, InHand
  <2>5. top..(End - 1) \subseteq top'..(End' - 1) /\ bottom \in top'..(End' - 1)
    BY <2>1, <2>2, <2>4
  <2> QED
    BY <2>1, <2>2, <2>3, <2>4, <2>5 DEF KeptInv, Kept, Slot
<1> QED
  BY <1>1, <1>2, <1>3

LEMMA PopKeeps ==
    ASSUME TypeOK, Sound, KeptInv, Pop, ~PopNone, ~PopLose, ~overtook'
    PROVE  KeptInv'
<1>1. CASE PopBegin \/ PopRestore
  <2>0. /\ UNCHANGED <<top, takes, pushed>>
        /\ owner.pc \in {"idle", "popRestore"} /\ owner'.pc \in {"popTop", "idle"}
    <3>1. CASE PopBegin
      BY <3>1 DEF PopBegin, OwnerIdle, history
    <3>2. CASE PopRestore
      BY <3>2 DEF PopRestore, OwnerIdle, history
    <3> QED
      BY <1>1, <3>1, <3>2
  <2>1. UNCHANGED <<top, takes, pushed>> /\ InHand' = InHand
    BY <2>0 DEF InHand
  <2>2. buffer' = buffer
    BY <1>1, BottomStore DEF PopBegin, PopRestore
  <2>3. End' = End
    <3>1. CASE PopBegin
      <4>1. bottom' = bottom - 1 /\ bottom \in Nat
        BY <3>1, BottomStore DEF PopBegin, TypeOK
      <4> QED
        BY <3>1, <4>1 DEF PopBegin, OwnerIdle, End
    <3>2. CASE PopRestore
      <4>1. bottom' = owner.t /\ owner.t = top /\ End = top
        BY <3>2, BottomStore DEF PopRestore, TypeOK, Sound, OwnerInv, End
      <4> QED
        BY <3>2, <4>1 DEF PopRestore, OwnerIdle, End
    <3> QED
      BY <1>1, <3>1, <3>2
  <2> QED
    BY <2>1, <2>2, <2>3, NothingMoves
<1>2. CASE PopEmpty \/ PopLast
  <2>1. /\ UNCHANGED <<top, bottom, buffer, takes, pushed>> /\ owner.pc = "popTop"
        /\ owner'.pc \in {"popRestore", "popCas"}
    BY <1>2, LoadTopFacts DEF PopEmpty, PopLast, TypeOK
  <2>2. End' = End /\ InHand' = InHand
    BY <2>1 DEF End, InHand
  <2> QED
    BY <2>1, <2>2, NothingMoves
<1>3. CASE PopTake
  <2> DEFINE got == Receipt(Owner, owner.b, buffer[Slot(owner.b)])
  <2>1. /\ UNCHANGED <<top, bottom, buffer, pushed>> /\ owner.pc = "popTop"
        /\ owner.b = bottom /\ End = bottom + 1 /\ top \in Nat /\ bottom \in Nat
        /\ owner'.pc = "idle" /\ takes' = takes \cup {got}
    BY <1>3, LoadTopFacts DEF PopTake, Take, OwnerIdle
  <2>2. End' = bottom /\ InHand' = InHand
    BY <2>1 DEF End, InHand
  <2>3. \A i \in top..(End - 1) : i = bottom \/ i \in top'..(End' - 1)
    BY <2>1, <2>2
  <2>4. got.task = buffer[Slot(bottom)]
    BY <2>1, ReceiptSays
  <2> HIDE DEF got
  <2> QED
    BY <2>1, <2>2, <2>3, <2>4, OneHandedOut
<1>4. CASE PopWin
  <2> DEFINE got == Receipt(Owner, owner.b, owner.task)
  <2>1. /\ UNCHANGED <<bottom, buffer, pushed>> /\ owner.pc = "popCas"
        /\ top' = owner.t + 1 /\ takes' = takes \cup {got} /\ owner'.pc = "popRestore"
    BY <1>4 DEF PopWin, Take, memory, TypeOK
  <2>2. /\ top = bottom /\ owner.t = bottom /\ owner.task = buffer[Slot(bottom)]
        /\ top \in Nat /\ bottom \in Nat
    BY <1>4, <2>1 DEF PopWin, Sound, OwnerInv, TypeOK
  <2>3. End = bottom + 1 /\ End' = End /\ InHand' = InHand
    BY <2>1 DEF End, InHand
  <2>4. \A i \in top..(End - 1) : i = bottom \/ i \in top'..(End' - 1)
    BY <2>1, <2>2, <2>3
  <2>5. got.task = buffer[Slot(bottom)]
    BY <2>2, ReceiptSays
  <2> HIDE DEF got
  <2> QED
    BY <2>1, <2>3, <2>4, <2>5, OneHandedOut
<1> QED
  BY <1>1, <1>2, <1>3, <1>4 DEF Pop

LEMMA StealKeeps ==
    ASSUME TypeOK, Sound, KeptInv, NEW p \in Thieves, Steal(p)
    PROVE  KeptInv'
<1>1. CASE StealTop(p) \/ StealBottom(p) \/ StealSlot(p) \/ StealFail(p)
  <2>1. UNCHANGED <<top, bottom, buffer, owner, takes, pushed>>
    BY <1>1 DEF StealTop, StealBottom, StealSlot, StealFail, memory, history
  <2>2. End' = End /\ InHand' = InHand
    BY <2>1 DEF End, InHand
  <2> QED
    BY <2>1, <2>2, NothingMoves
<1>2. CASE StealWin(p)
  <2> DEFINE got == Receipt(p, thief[p].t, thief[p].task)
  <2>1. /\ UNCHANGED <<bottom, buffer, owner, pushed>> /\ takes' = takes \cup {got}
        /\ thief[p].pc = "cas" /\ thief[p].t = top /\ top' = top + 1
    BY <1>2 DEF StealWin, Take, memory
  <2>2. End' = End /\ InHand' = InHand /\ top \in Nat /\ End \in Nat
    BY <2>1 DEF End, InHand, TypeOK
  <2>3. got.task = buffer[Slot(top)]
    BY <2>1, ReceiptSays DEF Sound, ThiefInv
  <2>4. \A i \in top..(End - 1) : i = top \/ i \in top'..(End' - 1)
    BY <2>1, <2>2
  <2> HIDE DEF got
  <2> QED
    BY <2>1, <2>2, <2>3, <2>4, OneHandedOut
<1> QED
  BY <1>1, <1>2 DEF Steal

\* The indices of Live are those below End while no Pop is about to restore bottom,
\* and there are none of either when one is.
LEMMA LiveSlots ==
    ASSUME TypeOK, Sound
    PROVE  {Live[i] : i \in 1..(LiveEnd - top)} = {buffer[Slot(i)] : i \in top..(End - 1)}
<1>1. top \in Nat /\ bottom \in Nat /\ LiveEnd \in Nat /\ End \in Nat
  BY DEF TypeOK, LiveEnd, End
<1>2. \/ LiveEnd = End
      \/ owner.pc = "popRestore" /\ LiveEnd = bottom /\ End = top /\ top = bottom + 1
  BY <1>1 DEF LiveEnd, End, Sound, OwnerInv
<1>3. CASE LiveEnd = End
  <2>1. \A i \in 1..(LiveEnd - top) : Live[i] = buffer[Slot(top + i - 1)]
    BY DEF Live
  <2>2. \A i \in 1..(LiveEnd - top) : top + i - 1 \in top..(End - 1)
    BY <1>1, <1>3
  <2>3. \A i \in top..(End - 1) : i - top + 1 \in 1..(LiveEnd - top) /\ top + (i - top + 1) - 1 = i
    BY <1>1, <1>3
  <2> QED
    BY <2>1, <2>2, <2>3
<1>4. CASE LiveEnd = bottom /\ End = top /\ top = bottom + 1
  <2>1. 1..(LiveEnd - top) = {} /\ top..(End - 1) = {}
    BY <1>1, <1>4
  <2> QED
    BY <2>1
<1> QED
  BY <1>2, <1>3, <1>4

(***************************************************************************)
(* Until a Pop loses a race or overtakes its own store, every task whose   *)
(* Push was accepted has been handed out, is in a slot between top and     *)
(* bottom, or is being written: for any number of thieves, any capacity    *)
(* and any depth of the store buffer.                                      *)
(***************************************************************************)
THEOREM DequeKeepsTasks == Spec => []NothingLostUntilBroken
<1> DEFINE Whole == ~raceLost /\ ~overtook => KeptInv
<1>1. Init => Whole
  BY DEF Init, KeptInv
<1>2. IInv /\ Whole /\ [Next]_vars => Whole'
  <2> SUFFICES ASSUME TypeOK, Sound, KeptInv, [Next]_vars, ~raceLost', ~overtook'
               PROVE  KeptInv'
    BY BrokenForGood DEF IInv, TypeOK
  <2>1. CASE UNCHANGED vars
    <3>1. /\ UNCHANGED <<top, buffer, takes, pushed>> /\ End' = End /\ InHand' = InHand
      BY <2>1 DEF vars, memory, history, End, InHand
    <3> QED
      BY <3>1, NothingMoves
  <2>2. CASE Push
    BY <2>1, <2>2, PushKeeps DEF Push, PushFull
  <2>3. CASE Pop
    <3>1. ~PopLose
      BY DEF PopLose
    <3> QED
      BY <2>1, <2>3, <3>1, PopKeeps DEF PopNone
  <2>4. CASE Drain
    <3>1. /\ UNCHANGED <<top, buffer, takes, pushed>> /\ End' = End /\ InHand' = InHand
      BY <2>4 DEF Drain, history, End, InHand
    <3> QED
      BY <3>1, NothingMoves
  <2>5. ASSUME NEW p \in Thieves, Steal(p) PROVE KeptInv'
    BY <2>5, StealKeeps
  <2> QED
    BY <2>1, <2>2, <2>3, <2>4, <2>5 DEF Next
<1>3. IInv /\ Whole => NothingLostUntilBroken
  <2> SUFFICES ASSUME TypeOK, Sound, KeptInv
               PROVE  1..pushed = {x.task : x \in takes} \cup InHand
                                  \cup {Live[i] : i \in 1..(LiveEnd - top)}
    BY DEF IInv, NothingLostUntilBroken
  <2>1. \A n \in 1..pushed : n \in {x.task : x \in takes} \cup InHand
                                   \cup {buffer[Slot(i)] : i \in top..(End - 1)}
    BY DEF KeptInv, Kept
  <2>2. \A n \in {x.task : x \in takes} \cup InHand
                 \cup {buffer[Slot(i)] : i \in top..(End - 1)} : n \in 1..pushed
    BY DEF Sound, HandedOutOnce, LiveInv, InHand
  <2> QED
    BY <2>1, <2>2, LiveSlots
<1> QED
  <2> HIDE DEF Whole
  <2> QED
    BY <1>1, <1>2, <1>3, DequeSound, PTL DEF Spec

-----------------------------------------------------------------------------
(* The deque implements TaskDeque.                                         *)

\* What the slots of buf from lo up to hi hold.
Span(buf, lo, hi) == [i \in 1..(hi - lo) |-> buf[Slot(lo + i - 1)]]

LEMMA SpanSeq ==
    ASSUME NEW buf \in [Slots -> Nat], NEW lo \in Nat, NEW hi \in Nat, lo <= hi
    PROVE  /\ Span(buf, lo, hi) \in Seq(Nat) /\ Len(Span(buf, lo, hi)) = hi - lo
           /\ \A i \in 1..(hi - lo) : Span(buf, lo, hi)[i] = buf[Slot(lo + i - 1)]
<1>1. \A i \in 1..(hi - lo) : buf[Slot(lo + i - 1)] \in Nat
  <2> TAKE i \in 1..(hi - lo)
  <2>1. lo + i - 1 \in Nat
    OBVIOUS
  <2> QED
    BY <2>1, SlotType
<1>2. hi - lo \in Nat
  OBVIOUS
<1> QED
  BY <1>1, <1>2 DEF Span

LEMMA SpanAppend ==
    ASSUME NEW buf \in [Slots -> Nat], NEW lo \in Nat, NEW hi \in Nat, lo <= hi
    PROVE  Span(buf, lo, hi + 1) = Append(Span(buf, lo, hi), buf[Slot(hi)])
<1> DEFINE a == Span(buf, lo, hi)
           b == Span(buf, lo, hi + 1)
           v == buf[Slot(hi)]
<1>1. a \in Seq(Nat) /\ Len(a) = hi - lo
      /\ \A i \in 1..(hi - lo) : a[i] = buf[Slot(lo + i - 1)]
  BY SpanSeq
<1>2. b \in Seq(Nat) /\ Len(b) = hi + 1 - lo
      /\ \A i \in 1..(hi + 1 - lo) : b[i] = buf[Slot(lo + i - 1)]
  <2> DEFINE h == hi + 1
  <2>1. h \in Nat /\ lo <= h
    OBVIOUS
  <2> HIDE DEF h
  <2>2. /\ Span(buf, lo, h) \in Seq(Nat) /\ Len(Span(buf, lo, h)) = h - lo
        /\ \A i \in 1..(h - lo) : Span(buf, lo, h)[i] = buf[Slot(lo + i - 1)]
    BY <2>1, SpanSeq
  <2> QED
    BY <2>2 DEF h
<1>3. v \in Nat /\ lo + (hi + 1 - lo) - 1 = hi
  BY SlotType
<1> HIDE DEF a, b
<1>4. \A i \in 1..Len(b) : b[i] = IF i <= Len(a) THEN a[i] ELSE v
  BY <1>1, <1>2, <1>3
<1> HIDE DEF v
<1>5. Append(a, v) \in Seq(Nat) /\ Len(Append(a, v)) = Len(a) + 1
      /\ \A i \in 1..(Len(a) + 1) : Append(a, v)[i] = IF i <= Len(a) THEN a[i] ELSE v
  BY <1>1, <1>3
<1>6. Len(b) = Len(a) + 1
  BY <1>1, <1>2
<1>7. b = Append(a, v)
  BY <1>2, <1>4, <1>5, <1>6, SeqEqual
<1> QED
  BY <1>7 DEF a, b, v

LEMMA SpanFront ==
    ASSUME NEW buf \in [Slots -> Nat], NEW lo \in Nat, NEW hi \in Nat, lo <= hi
    PROVE  LET s == Span(buf, lo, hi + 1) IN
           /\ s # <<>> /\ s[Len(s)] = buf[Slot(hi)]
           /\ SubSeq(s, 1, Len(s) - 1) = Span(buf, lo, hi)
<1> DEFINE a == Span(buf, lo, hi)
           s == Span(buf, lo, hi + 1)
<1>1. a \in Seq(Nat) /\ Len(a) = hi - lo
      /\ \A i \in 1..(hi - lo) : a[i] = buf[Slot(lo + i - 1)]
  BY SpanSeq
<1>2. s \in Seq(Nat) /\ Len(s) = hi + 1 - lo
      /\ \A i \in 1..(hi + 1 - lo) : s[i] = buf[Slot(lo + i - 1)]
  <2> DEFINE h == hi + 1
  <2>1. h \in Nat /\ lo <= h
    OBVIOUS
  <2> HIDE DEF h
  <2>2. /\ Span(buf, lo, h) \in Seq(Nat) /\ Len(Span(buf, lo, h)) = h - lo
        /\ \A i \in 1..(h - lo) : Span(buf, lo, h)[i] = buf[Slot(lo + i - 1)]
    BY <2>1, SpanSeq
  <2> QED
    BY <2>2 DEF h
<1>3. lo + Len(s) - 1 = hi /\ Len(s) \in 1..(hi + 1 - lo) /\ Len(a) = Len(s) - 1
  BY <1>1, <1>2
<1>4. \A i \in 1..Len(a) : a[i] = s[i]
  BY <1>1, <1>2
<1>5. s[Len(s)] = buf[Slot(hi)]
  BY <1>2, <1>3
<1> HIDE DEF a, s
<1>6. /\ SubSeq(s, 1, Len(s) - 1) \in Seq(Nat) /\ Len(SubSeq(s, 1, Len(s) - 1)) = Len(a)
      /\ \A i \in 1..Len(a) : SubSeq(s, 1, Len(s) - 1)[i] = s[i]
  <2>1. Len(a) \in Nat /\ Len(a) = Len(s) - 1
    BY <1>1, <1>2, <1>3
  <2>2. \A i \in 1..Len(a) : s[i] \in Nat
    BY <1>2, <2>1
  <2>3. /\ SubSeq(s, 1, Len(a)) \in Seq(Nat)
        /\ Len(SubSeq(s, 1, Len(a))) = IF 1 <= Len(a) THEN Len(a) - 1 + 1 ELSE 0
        /\ \A i \in 1..(Len(a) - 1 + 1) : SubSeq(s, 1, Len(a))[i] = s[1 + i - 1]
    BY <2>1, <2>2, SubSeqProperties
  <2> QED
    BY <2>1, <2>3
<1>7. SubSeq(s, 1, Len(s) - 1) = a
  BY <1>1, <1>4, <1>6, SeqEqual
<1>8. s # <<>>
  BY <1>2, <1>3
<1> QED
  BY <1>5, <1>7, <1>8 DEF a, s

LEMMA SpanTail ==
    ASSUME NEW buf \in [Slots -> Nat], NEW lo \in Nat, NEW hi \in Nat, lo < hi
    PROVE  LET s == Span(buf, lo, hi) IN
           /\ s # <<>> /\ Head(s) = buf[Slot(lo)]
           /\ Tail(s) = Span(buf, lo + 1, hi)
<1> DEFINE a == Span(buf, lo + 1, hi)
           s == Span(buf, lo, hi)
<1>1. a \in Seq(Nat) /\ Len(a) = hi - (lo + 1)
      /\ \A i \in 1..(hi - (lo + 1)) : a[i] = buf[Slot(lo + 1 + i - 1)]
  <2>1. lo + 1 \in Nat /\ lo + 1 <= hi
    OBVIOUS
  <2> QED
    BY <2>1, SpanSeq
<1>2. s \in Seq(Nat) /\ Len(s) = hi - lo
      /\ \A i \in 1..(hi - lo) : s[i] = buf[Slot(lo + i - 1)]
  <2>1. lo <= hi
    OBVIOUS
  <2> QED
    BY <2>1, SpanSeq
<1>3. Len(a) = Len(s) - 1 /\ 1 \in 1..(hi - lo) /\ lo + 1 - 1 = lo
  BY <1>1, <1>2
<1>4. ASSUME NEW i \in 1..Len(a) PROVE a[i] = s[i + 1]
  <2>1. i + 1 \in 1..(hi - lo) /\ lo + (i + 1) - 1 = lo + 1 + i - 1
    BY <1>1
  <2> QED
    BY <1>1, <1>2, <2>1
<1>5. s[1] = buf[Slot(lo)]
  BY <1>2, <1>3
<1> HIDE DEF a, s
<1>6. s # <<>> /\ Head(s) = s[1]
  BY <1>2, <1>3
<1>7. /\ Tail(s) \in Seq(Nat) /\ Len(Tail(s)) = Len(a)
      /\ \A i \in 1..Len(a) : Tail(s)[i] = s[i + 1]
  BY <1>1, <1>2, <1>3, <1>6
<1>8. Tail(s) = a
  BY <1>1, <1>4, <1>7, SeqEqual
<1> QED
  BY <1>5, <1>6, <1>8 DEF a, s

\* While the promise stands, what TaskDeque holds is the span from top to End.
Intact == ~raceLost /\ ~overtook
LiveIsSpan == Intact => Live = Span(buffer, top, End)

LEMMA LiveShape == IInv => LiveIsSpan
<1> SUFFICES ASSUME TypeOK, Sound PROVE Live = Span(buffer, top, End)
  BY DEF IInv, LiveIsSpan, Intact
<1>1. top \in Nat /\ bottom \in Nat
  BY DEF TypeOK
<1>2. \/ LiveEnd = End
      \/ LiveEnd = bottom /\ End = top /\ top = bottom + 1
  BY <1>1 DEF LiveEnd, End, Sound, OwnerInv
<1>3. CASE LiveEnd = End
  BY <1>3 DEF Live, Span
<1>4. CASE LiveEnd = bottom /\ End = top /\ top = bottom + 1
  <2>1. 1..(LiveEnd - top) = {} /\ 1..(End - top) = {}
    BY <1>1, <1>4
  <2> QED
    BY <2>1 DEF Live, Span
<1> QED
  BY <1>2, <1>3, <1>4

\* The steps of TaskDeque, as they look from here.
LEMMA PromiseKept ==
    ASSUME Intact, Intact', Live' = Live, takes' = takes
    PROVE  UNCHANGED Promise!vars
BY DEF Promise!vars, Intact

LEMMA PromisePush ==
    ASSUME Intact, Intact', NEW k \in Tasks, \A x \in takes : x.task # k,
           \A i \in 1..Len(Live) : Live[i] # k, Len(Live) < Capacity,
           Live' = Append(Live, k), takes' = takes
    PROVE  Promise!Push
<1>1. k \in Tasks \ ({x.task : x \in takes} \cup {Live[i] : i \in 1..Len(Live)})
  OBVIOUS
<1> QED
  BY <1>1 DEF Promise!Push, Promise!Held, Intact

LEMMA PromisePop ==
    ASSUME Intact, Intact', Live # <<>>, Live' = SubSeq(Live, 1, Len(Live) - 1),
           NEW x, takes' = takes \cup {x}, x.task = Live[Len(Live)]
    PROVE  Promise!Pop
<1>1. {y.task : y \in takes'} = {y.task : y \in takes} \cup {Live[Len(Live)]}
  OBVIOUS
<1> QED
  BY <1>1 DEF Promise!Pop, Intact

LEMMA PromiseSteal ==
    ASSUME Intact, Intact', Live # <<>>, Live' = Tail(Live),
           NEW x, takes' = takes \cup {x}, x.task = Head(Live)
    PROVE  Promise!Steal
<1>1. {y.task : y \in takes'} = {y.task : y \in takes} \cup {Head(Live)}
  OBVIOUS
<1> QED
  BY <1>1 DEF Promise!Steal, Intact

\* What a step of a call does to the span is one of those, or nothing.
LEMMA PushImplements ==
    ASSUME TypeOK, Sound, Intact, Intact', LiveIsSpan, LiveIsSpan', pushed \in 0..MaxTasks,
           PushBegin \/ PushSlot \/ PushBottom
    PROVE  Promise!Next \/ UNCHANGED Promise!vars
<1>0. /\ Live = Span(buffer, top, End) /\ Live' = Span(buffer', top', End')
      /\ top \in Nat /\ bottom \in Nat /\ buffer \in [Slots -> Nat]
  BY DEF LiveIsSpan, TypeOK
<1>1. CASE PushBegin
  <2>1. /\ UNCHANGED <<top, bottom, buffer, takes>>
        /\ owner.pc = "idle" /\ owner'.pc = "pushSlot"
    BY <1>1 DEF PushBegin, memory
  <2>2. End' = End
    BY <2>1 DEF End
  <2> QED
    BY <1>0, <2>1, <2>2, PromiseKept
<1>2. CASE PushSlot
  <2> DEFINE s == Slot(bottom)
  <2>1. /\ owner.pc = "pushSlot" /\ owner'.pc = "pushBottom"
        /\ UNCHANGED <<top, takes>> /\ Store(Slot(owner.b), owner.task)
    BY <1>2 DEF PushSlot, TypeOK, history
  <2>2. owner.b = bottom /\ End = bottom /\ bottom - top < Capacity /\ top <= bottom
    BY <2>1 DEF Sound, OwnerInv, End
  <2>3. s \in Slots /\ s # BottomLoc
    BY <1>0, SlotType
  <2>4. bottom' = bottom /\ buffer' = [buffer EXCEPT ![s] = owner.task]
    BY <2>1, <2>2, <2>3 DEF Store, SetOwn
  <2>5. End' = End
    BY <2>1, <2>4 DEF End
  <2>6. ASSUME NEW i \in 1..(End - top)
        PROVE  buffer'[Slot(top + i - 1)] = buffer[Slot(top + i - 1)]
    <3>1. top + i - 1 \in Nat /\ top + i - 1 < bottom /\ bottom < top + i - 1 + Capacity
      BY <1>0, <2>2, DequeAssumption
    <3>2. Slot(top + i - 1) # s /\ Slot(top + i - 1) \in Slots
      BY <1>0, <3>1, SlotsDiffer, SlotType
    <3> QED
      BY <1>0, <2>4, <3>2
  <2>7. Live' = Live
    BY <1>0, <2>1, <2>5, <2>6 DEF Span
  <2> QED
    BY <2>1, <2>7, PromiseKept
<1>3. CASE PushBottom
  <2>1. /\ owner.pc = "pushBottom" /\ owner'.pc = "idle"
        /\ UNCHANGED <<top, takes>> /\ Store(BottomLoc, owner.b + 1)
    BY <1>3 DEF PushBottom, OwnerIdle, history
  <2>2. /\ owner.b = bottom /\ End = bottom /\ bottom - top < Capacity /\ top <= bottom
        /\ buffer[Slot(bottom)] = owner.task /\ owner.task \in 1..pushed
        /\ \A x \in takes : x.task # owner.task
        /\ \A i \in top..(End - 1) : buffer[Slot(i)] # owner.task
    BY <2>1 DEF Sound, OwnerInv, LiveInv, End
  <2>3. bottom' = bottom + 1 /\ buffer' = buffer
    BY <2>1, <2>2, BottomStore
  <2>4. End' = bottom + 1
    BY <2>1, <2>3 DEF End
  <2>5. Live' = Append(Live, owner.task)
    BY <1>0, <2>1, <2>2, <2>3, <2>4, SpanAppend
  <2>6. /\ Len(Live) = End - top
        /\ \A i \in 1..Len(Live) : Live[i] = buffer[Slot(top + i - 1)]
    <3>1. Live = Span(buffer, top, bottom)
      BY <1>0, <2>2
    <3>2. /\ Len(Span(buffer, top, bottom)) = bottom - top
          /\ \A i \in 1..(bottom - top) :
                Span(buffer, top, bottom)[i] = buffer[Slot(top + i - 1)]
      BY ZenonT(40), <1>0, <2>2, SpanSeq
    <3> QED
      BY <2>2, <3>1, <3>2
  <2>7. \A i \in 1..Len(Live) : top + i - 1 \in top..(End - 1)
    BY <1>0, <2>2, <2>6
  <2>8. owner.task \in Tasks /\ Len(Live) < Capacity
    BY <2>2, <2>6, DequeAssumption DEF Tasks
  <2>9. \A i \in 1..Len(Live) : Live[i] # owner.task
    BY <2>2, <2>6, <2>7
  <2> QED
    BY <2>1, <2>2, <2>5, <2>8, <2>9, PromisePush DEF Promise!Next
<1> QED
  BY <1>1, <1>2, <1>3

LEMMA PopImplements ==
    ASSUME TypeOK, Sound, Intact, Intact', LiveIsSpan, LiveIsSpan',
           Pop, ~PopNone, ~PopLose
    PROVE  Promise!Next \/ UNCHANGED Promise!vars
<1>0. /\ Live = Span(buffer, top, End) /\ Live' = Span(buffer', top', End')
      /\ top \in Nat /\ bottom \in Nat /\ buffer \in [Slots -> Nat] /\ ~overtook'
  BY DEF LiveIsSpan, TypeOK, Intact
<1>1. CASE PopBegin
  <2>1. /\ UNCHANGED <<top, takes>> /\ owner.pc = "idle" /\ owner'.pc = "popTop"
        /\ Store(BottomLoc, bottom - 1)
    BY <1>1 DEF PopBegin, OwnerIdle, history
  <2>2. bottom' = bottom - 1 /\ buffer' = buffer
    BY <2>1, BottomStore
  <2>3. End' = End
    BY <1>0, <2>1, <2>2 DEF End
  <2> QED
    BY <1>0, <2>1, <2>2, <2>3, PromiseKept
<1>2. CASE PopRestore
  <2>1. /\ UNCHANGED <<top, takes>> /\ owner.pc = "popRestore" /\ owner'.pc = "idle"
        /\ Store(BottomLoc, owner.t)
    BY <1>2 DEF PopRestore, OwnerIdle, history
  <2>2. bottom' = top /\ buffer' = buffer /\ End = top
    BY <1>0, <2>1, BottomStore DEF Sound, OwnerInv, End
  <2>3. End' = End
    BY <2>1, <2>2 DEF End
  <2> QED
    BY <1>0, <2>1, <2>2, <2>3, PromiseKept
<1>3. CASE PopEmpty \/ PopLast
  <2>1. /\ UNCHANGED <<top, bottom, buffer, takes>> /\ owner.pc = "popTop"
        /\ owner'.pc \in {"popRestore", "popCas"}
    BY <1>3, LoadTopFacts, <1>0 DEF PopEmpty, PopLast, TypeOK
  <2>2. End' = End
    BY <2>1 DEF End
  <2> QED
    BY <1>0, <2>1, <2>2, PromiseKept
<1>4. CASE PopTake
  <2> DEFINE got == Receipt(Owner, owner.b, buffer[Slot(owner.b)])
  <2>1. /\ UNCHANGED <<top, bottom, buffer>>
        /\ owner.b = bottom /\ End = bottom + 1
        /\ owner'.pc = "idle" /\ takes' = takes \cup {got} /\ top < bottom
    BY <1>0, <1>4, LoadTopFacts DEF PopTake, Take, OwnerIdle
  <2>2. End' = bottom
    BY <2>1 DEF End
  <2>3. /\ Live # <<>> /\ Live[Len(Live)] = buffer[Slot(bottom)]
        /\ SubSeq(Live, 1, Len(Live) - 1) = Span(buffer, top, bottom)
    <3>1. Live = Span(buffer, top, bottom + 1) /\ top <= bottom
      BY <1>0, <2>1
    <3> QED
      BY ZenonT(40), <1>0, <3>1, SpanFront
  <2>4. got.task = Live[Len(Live)]
    BY <2>1, <2>3, ReceiptSays
  <2>5. Live' = SubSeq(Live, 1, Len(Live) - 1)
    BY <1>0, <2>1, <2>2, <2>3
  <2> HIDE DEF got
  <2> QED
    BY <2>1, <2>3, <2>4, <2>5, PromisePop DEF Promise!Next
<1>5. CASE PopWin
  <2> DEFINE got == Receipt(Owner, owner.b, owner.task)
  <2>1. /\ UNCHANGED <<bottom, buffer>> /\ owner.pc = "popCas"
        /\ top' = owner.t + 1 /\ takes' = takes \cup {got} /\ owner'.pc = "popRestore"
    BY <1>5 DEF PopWin, Take, memory, TypeOK
  <2>2. top = bottom /\ owner.t = bottom /\ owner.task = buffer[Slot(bottom)]
    BY <1>5, <2>1 DEF PopWin, Sound, OwnerInv
  <2>3. End = bottom + 1 /\ End' = bottom + 1
    BY <2>1 DEF End
  <2>4. /\ Live # <<>> /\ Live[Len(Live)] = buffer[Slot(bottom)]
        /\ SubSeq(Live, 1, Len(Live) - 1) = Span(buffer, top, bottom)
    <3>1. Live = Span(buffer, top, bottom + 1) /\ top <= bottom
      BY <1>0, <2>2, <2>3
    <3> QED
      BY ZenonT(40), <1>0, <3>1, SpanFront
  <2>5. Live' = SubSeq(Live, 1, Len(Live) - 1)
    <3>1. 1..(End' - top') = {} /\ 1..(bottom - top) = {}
      BY <1>0, <2>1, <2>2, <2>3
    <3>2. Live' = Span(buffer, top, bottom)
      BY <1>0, <3>1 DEF Span
    <3> QED
      BY <2>4, <3>2
  <2>6. got.task = Live[Len(Live)]
    BY <2>2, <2>4, ReceiptSays
  <2> HIDE DEF got
  <2> QED
    BY <2>1, <2>4, <2>5, <2>6, PromisePop DEF Promise!Next
<1> QED
  BY <1>1, <1>2, <1>3, <1>4, <1>5 DEF Pop

LEMMA StealImplements ==
    ASSUME TypeOK, Sound, Intact, Intact', LiveIsSpan, LiveIsSpan',
           NEW p \in Thieves, Steal(p)
    PROVE  Promise!Next \/ UNCHANGED Promise!vars
<1>0. /\ Live = Span(buffer, top, End) /\ Live' = Span(buffer', top', End')
      /\ top \in Nat /\ bottom \in Nat /\ End \in Nat /\ buffer \in [Slots -> Nat]
  BY DEF LiveIsSpan, TypeOK, End
<1>1. CASE StealTop(p) \/ StealBottom(p) \/ StealSlot(p) \/ StealFail(p)
  <2>1. UNCHANGED <<top, bottom, buffer, owner, takes>>
    BY <1>1 DEF StealTop, StealBottom, StealSlot, StealFail, memory, history
  <2>2. End' = End
    BY <2>1 DEF End
  <2> QED
    BY <1>0, <2>1, <2>2, PromiseKept
<1>2. CASE StealWin(p)
  <2> DEFINE got == Receipt(p, thief[p].t, thief[p].task)
  <2>1. /\ UNCHANGED <<bottom, buffer, owner>> /\ takes' = takes \cup {got}
        /\ thief[p].pc = "cas" /\ thief[p].t = top /\ top' = top + 1
    BY <1>2 DEF StealWin, Take, memory
  <2>2. top < End /\ thief[p].task = buffer[Slot(top)] /\ End' = End
    BY <2>1 DEF Sound, ThiefInv, End
  <2>3. /\ Live # <<>> /\ Head(Live) = buffer[Slot(top)]
        /\ Tail(Live) = Span(buffer, top + 1, End)
    BY <1>0, <2>2, SpanTail
  <2>4. got.task = Head(Live) /\ Live' = Tail(Live)
    BY <1>0, <2>1, <2>2, <2>3, ReceiptSays
  <2> HIDE DEF got
  <2> QED
    BY <2>1, <2>3, <2>4, PromiseSteal DEF Promise!Next
<1> QED
  BY <1>1, <1>2 DEF Steal

(***************************************************************************)
(* The deque, access by access, implements TaskDeque: every step is one of *)
(* its atomic calls or none, until a Pop loses a race or overtakes its own *)
(* store, which is Break.                                                  *)
(***************************************************************************)
THEOREM DequeImplements == Spec => ImplementsTaskDeque
<1> DEFINE Few == pushed \in 0..MaxTasks
<1>1. Init => Few /\ Promise!Init
  <2> SUFFICES ASSUME Init PROVE Few /\ Promise!Init
    OBVIOUS
  <2>1. Few
    BY DequeAssumption DEF Init
  <2>2. Live = <<>> /\ {x.task : x \in takes} = {} /\ ~raceLost /\ ~overtook
    BY DEF Init, Live, LiveEnd, OwnerIdle
  <2> QED
    BY <2>1, <2>2 DEF Promise!Init
<1>2. Few /\ TypeOK /\ [Next]_vars => Few'
  <2> SUFFICES ASSUME Few, [Next]_vars
               PROVE  \/ pushed' = pushed
                      \/ pushed < MaxTasks /\ pushed' = pushed + 1
    BY DequeAssumption
  <2>1. CASE UNCHANGED vars
    BY <2>1 DEF vars, history
  <2>2. CASE Push
    BY <2>1, <2>2 DEF Push, PushBegin, PushFull, PushSlot, PushBottom, history
  <2>3. CASE Pop
    BY <2>1, <2>3 DEF Pop, PopNone, PopBegin, PopEmpty, PopTake, PopLast, PopWin, PopLose,
                      PopRestore, LoadTop, history
  <2>4. CASE Drain
    BY <2>4 DEF Drain, history
  <2>5. ASSUME NEW p \in Thieves, Steal(p) PROVE pushed' = pushed
    BY <2>5 DEF Steal, StealTop, StealBottom, StealSlot, StealWin, StealFail, history
  <2> QED
    BY <2>1, <2>2, <2>3, <2>4, <2>5 DEF Next
<1>3. IInv /\ LiveIsSpan /\ LiveIsSpan' /\ Few /\ [Next]_vars
      => [Promise!Next]_(Promise!vars)
  <2> SUFFICES ASSUME TypeOK, IInv, LiveIsSpan, LiveIsSpan', Few, [Next]_vars
               PROVE  Promise!Next \/ UNCHANGED Promise!vars
    BY DEF IInv
  <2>1. CASE ~Intact
    <3>1. ~Intact'
      BY <2>1, BrokenForGood DEF Intact, TypeOK
    <3> QED
      BY <2>1, <3>1 DEF Promise!vars, Intact
  <2>2. CASE Intact /\ ~Intact'
    BY <2>2 DEF Promise!Next, Promise!Break, Intact
  <2>3. CASE Intact /\ Intact'
    <3>0. Sound
      BY <2>3 DEF IInv, Intact
    <3>1. CASE UNCHANGED vars
      <4>1. Live' = Live /\ takes' = takes
        BY <3>1 DEF vars, memory, history, Live, LiveEnd, Slot
      <4> QED
        BY <2>3, <4>1, PromiseKept
    <3>2. CASE Push
      BY <2>3, <3>0, <3>1, <3>2, PushImplements DEF Push, PushFull
    <3>3. CASE Pop
      <4>1. ~PopLose
        BY <2>3 DEF PopLose, Intact
      <4> QED
        BY <2>3, <3>0, <3>1, <3>3, <4>1, PopImplements DEF PopNone
    <3>4. CASE Drain
      <4>1. Live' = Live /\ takes' = takes
        BY <3>4 DEF Drain, history, Live, LiveEnd, Slot
      <4> QED
        BY <2>3, <4>1, PromiseKept
    <3>5. ASSUME NEW p \in Thieves, Steal(p) PROVE Promise!Next \/ UNCHANGED Promise!vars
      BY <2>3, <3>0, <3>5, StealImplements
    <3> QED
      BY <3>1, <3>2, <3>3, <3>4, <3>5 DEF Next
  <2> QED
    BY <2>1, <2>2, <2>3
<1> QED
  <2> HIDE DEF Few
  <2> QED
    BY <1>1, <1>2, <1>3, LiveShape, DequeSound, DequeTypes, PTL
       DEF Spec, ImplementsTaskDeque, Promise!Spec

-----------------------------------------------------------------------------
(* A Pop that overtakes its own store.  What IInv says of such a deque is   *)
(* only its types; the places that tasks were pushed to still tell who can *)
(* be handed what.                                                         *)

\* w was accepted, and i is the place that it was pushed to.
Holds(f, w, i) == w \in 1..pushed /\ f[w] = i

\* In the slot of i memory holds what was pushed to i, or one of the stores
\* before the m-th that is pending will put it there.
Written(f, i, m) ==
    \/ Holds(f, memBuffer[Slot(i)], i)
    \/ \E k \in 1..(m - 1) : pending[k].loc = Slot(i) /\ Holds(f, pending[k].val, i)

\* A task is stored in the slot of its place, and no place is ahead of the ring.
PlacesInv(f) ==
    /\ \A w \in 1..pushed : f[w] < top + Capacity
    /\ \A l \in Slots : memBuffer[l] # Garbage =>
          memBuffer[l] \in 1..pushed /\ Slot(f[memBuffer[l]]) = l
    /\ \A k \in 1..Len(pending) : pending[k].loc # BottomLoc =>
          pending[k].val \in 1..pushed /\ Slot(f[pending[k].val]) = pending[k].loc

\* In each slot places only rise.
RisingInv(f) ==
    \A k \in 1..Len(pending) : pending[k].loc # BottomLoc =>
        /\ memBuffer[pending[k].loc] # Garbage =>
              f[memBuffer[pending[k].loc]] <= f[pending[k].val]
        /\ \A j \in 1..(k - 1) : pending[j].loc = pending[k].loc =>
              f[pending[j].val] <= f[pending[k].val]

\* What a bottom lets thieves read was written before it.
VisibleInv(f) ==
    /\ \A i \in top..(memBottom - 1) : Written(f, i, 1)
    /\ \A m \in 1..Len(pending) : pending[m].loc = BottomLoc =>
          \A i \in top..(pending[m].val - 1) : Written(f, i, m)

Seen(f) == PlacesInv(f) /\ RisingInv(f) /\ VisibleInv(f)

\* The last store to a slot is what the owner reads there.
LastInv ==
    \A l \in Slots :
       \/ memBuffer[l] = buffer[l] /\ \A k \in 1..Len(pending) : pending[k].loc # l
       \/ \E k \in 1..Len(pending) : /\ pending[k].loc = l /\ pending[k].val = buffer[l]
                                     /\ \A j \in (k+1)..Len(pending) : pending[j].loc # l

\* From top on the owner's own tasks are in their slots, and it was given none.
OwnerPlaces(f) ==
    /\ End <= top + Capacity
    /\ \A i \in top..(End - 1) : /\ Holds(f, buffer[Slot(i)], i)
                                 /\ ~Given(Owner, buffer[Slot(i)])
    /\ owner.pc \in {"pushSlot", "pushBottom"} =>
          /\ owner.b = bottom /\ bottom < top + Capacity
          /\ Holds(f, owner.task, bottom) /\ ~Given(Owner, owner.task)
    /\ owner.pc = "pushSlot" => \A w \in 1..pushed : f[w] < bottom + Capacity
    /\ owner.pc = "pushBottom" => buffer[Slot(bottom)] = owner.task
    /\ owner.pc \in {"popTop", "popCas"} => owner.b = bottom
    /\ owner.pc = "popCas" => owner.t = bottom /\ owner.task = buffer[Slot(bottom)]
    /\ owner.pc = "popRestore" => owner.t <= top

ThiefPlaces(f) ==
    \A p \in Thieves :
        /\ thief[p].t <= top
        /\ thief[p].pc = "slot" /\ thief[p].t = top => Holds(f, memBuffer[Slot(top)], top)
        /\ thief[p].pc = "cas" /\ thief[p].t = top => Holds(f, thief[p].task, top)

TakePlaces(f) ==
    /\ \A x \in takes : Holds(f, x.task, x.at) /\ ~x.again
    /\ \A x \in takes : x.by # Owner => x.at < top
    /\ \A x, y \in takes : x.by # Owner /\ y.by # Owner /\ x.at = y.at => x = y

Placed(f) == Seen(f) /\ OwnerPlaces(f) /\ ThiefPlaces(f) /\ TakePlaces(f)

PlaceInv == MemoryInv /\ LastInv /\ \E f \in [Nat -> Nat] : Placed(f)

\* Slots do not change.
LEMMA SlotSame == \A i : Slot(i)' = Slot(i)
BY DEF Slot

\* Of two places of one slot, the one that is not a ring ahead is not ahead.
LEMMA SlotBelow ==
    ASSUME NEW i \in Nat, NEW j \in Nat, Slot(i) = Slot(j), i < j + Capacity
    PROVE  i <= j
<1>1. ~(j < i)
  BY SlotsDiffer
<1> QED
  BY <1>1

LEMMA SlotLoc ==
    ASSUME NEW l \in 0..Capacity, l # BottomLoc
    PROVE  l \in Slots
BY DequeAssumption DEF Slots, BottomLoc

LEMMA StoreLast ==
    ASSUME TypeOK, MemoryInv, LastInv, NEW loc \in 0..Capacity, NEW val \in Nat,
           Store(loc, val)
    PROVE  LastInv'
<1>1. /\ loc = BottomLoc => buffer' = buffer
      /\ loc # BottomLoc => loc \in Slots /\ buffer' = [buffer EXCEPT ![loc] = val]
      /\ BottomLoc \notin Slots /\ buffer \in [Slots -> Nat]
  <2>1. BottomLoc \notin Slots /\ (loc # BottomLoc => loc \in Slots)
    BY DequeAssumption DEF Slots, BottomLoc
  <2>2. buffer \in [Slots -> Nat]
    BY DEF TypeOK
  <2>3. /\ loc = BottomLoc => buffer' = buffer
        /\ loc # BottomLoc => buffer' = [buffer EXCEPT ![loc] = val]
    BY StoreEffect
  <2> QED
    BY <2>1, <2>2, <2>3
<1> USE DEF LastInv
<1>2. CASE pending' = <<>> /\ memBuffer' = buffer'
  BY <1>2
<1>3. CASE /\ memBuffer' = memBuffer /\ Len(pending) \in Nat
           /\ Len(pending') = Len(pending) + 1
           /\ \A k \in 1..Len(pending) : pending'[k] = pending[k]
           /\ pending'[Len(pending) + 1] = [loc |-> loc, val |-> val]
  <2> DEFINE n == Len(pending)
  <2>0. n + 1 \in 1..Len(pending') /\ \A k \in 1..n : k \in 1..Len(pending')
    BY <1>3
  <2>1. ASSUME NEW l \in Slots, l = loc
        PROVE  /\ pending'[n + 1].loc = l /\ pending'[n + 1].val = buffer'[l]
               /\ \A j \in (n + 2)..Len(pending') : pending'[j].loc # l
    BY <1>1, <1>3, <2>1
  <2>2. ASSUME NEW l \in Slots, l # loc
        PROVE  /\ buffer'[l] = buffer[l]
               /\ \A k \in 1..Len(pending') :
                     \/ k \in 1..n /\ pending'[k] = pending[k]
                     \/ k = n + 1 /\ pending'[k].loc # l
    BY <1>1, <1>3, <2>2
  <2> SUFFICES ASSUME NEW l \in Slots
               PROVE  \/ /\ memBuffer'[l] = buffer'[l]
                         /\ \A k \in 1..Len(pending') : pending'[k].loc # l
                      \/ \E k \in 1..Len(pending') :
                            /\ pending'[k].loc = l /\ pending'[k].val = buffer'[l]
                            /\ \A j \in (k+1)..Len(pending') : pending'[j].loc # l
    OBVIOUS
  <2>3. CASE l = loc
    BY <1>3, <2>0, <2>1, <2>3
  <2>4. CASE l # loc
    <3>1. CASE memBuffer[l] = buffer[l] /\ \A k \in 1..n : pending[k].loc # l
      BY <1>3, <2>2, <2>4, <3>1
    <3>2. ASSUME NEW k \in 1..n, pending[k].loc = l, pending[k].val = buffer[l],
                 \A j \in (k+1)..n : pending[j].loc # l
          PROVE  /\ pending'[k].loc = l /\ pending'[k].val = buffer'[l]
                 /\ \A j \in (k+1)..Len(pending') : pending'[j].loc # l
      BY <1>3, <2>2, <2>4, <3>2
    <3> QED
      BY <2>0, <3>1, <3>2
  <2> QED
    BY <2>3, <2>4
<1> QED
  BY <1>2, <1>3, StoreEffect

LEMMA DrainLast ==
    ASSUME TypeOK, LastInv, Drain
    PROVE  LastInv'
<1> USE DEF LastInv
<1> DEFINE n == Len(pending)
<1>1. /\ buffer' = buffer /\ n \in Nat /\ Len(pending') = n - 1 /\ 1 \in 1..n
      /\ \A k \in 1..Len(pending') : pending'[k] = pending[k+1] /\ k+1 \in 1..n
      /\ \A k \in 2..n : pending[k] = pending'[k-1] /\ k-1 \in 1..Len(pending')
  BY DrainEffect DEF Drain
<1>2. \A l \in Slots : pending[1].loc # l => memBuffer'[l] = memBuffer[l]
  BY DrainEffect DEF TypeOK
<1>3. \A l \in Slots : pending[1].loc = l => memBuffer'[l] = pending[1].val
  <2>1. BottomLoc \notin Slots
    BY DequeAssumption DEF Slots, BottomLoc
  <2> QED
    BY <2>1, DrainEffect DEF TypeOK
<1> SUFFICES ASSUME NEW l \in Slots
             PROVE  \/ /\ memBuffer'[l] = buffer'[l]
                       /\ \A k \in 1..Len(pending') : pending'[k].loc # l
                    \/ \E k \in 1..Len(pending') :
                          /\ pending'[k].loc = l /\ pending'[k].val = buffer'[l]
                          /\ \A j \in (k+1)..Len(pending') : pending'[j].loc # l
  OBVIOUS
<1>4. CASE memBuffer[l] = buffer[l] /\ \A k \in 1..n : pending[k].loc # l
  BY <1>1, <1>2, <1>4
<1>5. ASSUME NEW k \in 1..n, pending[k].loc = l, pending[k].val = buffer[l],
             \A j \in (k+1)..n : pending[j].loc # l
      PROVE  \/ /\ memBuffer'[l] = buffer'[l]
                /\ \A j \in 1..Len(pending') : pending'[j].loc # l
             \/ \E i \in 1..Len(pending') :
                   /\ pending'[i].loc = l /\ pending'[i].val = buffer'[l]
                   /\ \A j \in (i+1)..Len(pending') : pending'[j].loc # l
  <2>1. CASE k = 1
    <3>1. \A j \in 1..Len(pending') : j + 1 \in (k+1)..n
      BY <1>1, <2>1
    <3> QED
      BY <1>1, <1>3, <1>5, <2>1, <3>1
  <2>2. CASE k # 1
    <3>1. k \in 2..n
      BY <2>2
    <3>2. k - 1 \in 1..Len(pending') /\ pending'[k - 1] = pending[k]
      BY <1>1, <3>1
    <3>3. \A j \in k..Len(pending') : j + 1 \in (k+1)..n /\ j \in 1..Len(pending')
      BY <1>1, <3>1
    <3>4. \A j \in ((k-1)+1)..Len(pending') : pending'[j].loc # l
      BY <1>1, <1>5, <3>3
    <3> QED
      BY <1>1, <1>5, <3>2, <3>4
  <2> QED
    BY <2>1, <2>2
<1> QED
  BY <1>4, <1>5

\* What memory holds of a place that is not behind top stays when a store drains.
LEMMA DrainPlaces ==
    ASSUME TypeOK, NEW f \in [Nat -> Nat], Seen(f), Drain
    PROVE  /\ Seen(f)'
           /\ \A i \in Nat : i >= top /\ Holds(f, memBuffer[Slot(i)], i) =>
                 Holds(f, memBuffer'[Slot(i)], i)
<1> DEFINE n == Len(pending)
           e == pending[1]
<1>1. /\ n \in Nat /\ Len(pending') = n - 1 /\ 1 \in 1..n
      /\ \A k \in 1..Len(pending') : pending'[k] = pending[k+1] /\ k+1 \in 1..n
      /\ \A k \in 2..n : pending[k] = pending'[k-1] /\ k-1 \in 1..Len(pending')
      /\ e.loc = BottomLoc => memBottom' = e.val /\ memBuffer' = memBuffer
      /\ e.loc # BottomLoc => memBottom' = memBottom
  BY DrainEffect
<1>0. Len(pending') \in Nat /\ n = Len(pending') + 1
  <2>1. n \in Nat /\ n >= 1 /\ Len(pending') = n - 1
    BY <1>1
  <2> QED
    BY <2>1
<1>2. top' = top /\ pushed' = pushed /\ top \in Nat /\ pushed \in Nat
  BY DEF Drain, history, TypeOK
<1>3. /\ \A l \in Slots : memBuffer'[l] = IF e.loc = l THEN e.val ELSE memBuffer[l]
      /\ BottomLoc \notin Slots
      /\ \A l \in Slots : memBuffer[l] \in Nat
  <2>1. BottomLoc \notin Slots
    BY DequeAssumption DEF Slots, BottomLoc
  <2> QED
    BY <2>1, DrainEffect DEF TypeOK
<1>4. \A w \in 1..pushed : w # Garbage /\ f[w] \in Nat
  BY <1>2 DEF Garbage
<1>5. \A i \in Nat : Slot(i) \in Slots
  BY SlotType
<1>6. ASSUME NEW i \in Nat, i >= top, Holds(f, memBuffer[Slot(i)], i)
      PROVE  Holds(f, memBuffer'[Slot(i)], i)
  <2>1. CASE e.loc # Slot(i)
    BY <1>3, <1>5, <1>6, <2>1
  <2>2. CASE e.loc = Slot(i)
    <3>1. e.loc # BottomLoc /\ memBuffer'[Slot(i)] = e.val
      BY <1>3, <1>5, <2>2
    <3>2. e.val \in 1..pushed /\ Slot(f[e.val]) = Slot(i) /\ f[e.val] < top + Capacity
      BY <1>1, <2>2, <3>1 DEF Seen, PlacesInv
    <3>3. memBuffer[Slot(i)] # Garbage /\ f[memBuffer[Slot(i)]] = i
      BY <1>4, <1>6 DEF Holds
    <3>4. i <= f[e.val]
      BY <1>1, <2>2, <3>1, <3>3 DEF Seen, RisingInv
    <3>5. f[e.val] < i + Capacity /\ f[e.val] \in Nat
      BY <1>2, <1>4, <1>6, <3>2, DequeAssumption
    <3>6. f[e.val] <= i
      BY <3>2, <3>5, SlotBelow
    <3> QED
      BY <3>1, <3>2, <3>4, <3>5, <3>6 DEF Holds
  <2> QED
    BY <2>1, <2>2
<1>7. PlacesInv(f)'
  <2>1. \A l \in Slots : memBuffer'[l] # Garbage =>
           memBuffer'[l] \in 1..pushed /\ Slot(f[memBuffer'[l]]) = l
    BY <1>1, <1>3 DEF Seen, PlacesInv
  <2>2. \A k \in 1..Len(pending') : pending'[k].loc # BottomLoc =>
           pending'[k].val \in 1..pushed /\ Slot(f[pending'[k].val]) = pending'[k].loc
    <3>1. \A k \in 1..n : pending[k].loc # BottomLoc =>
             pending[k].val \in 1..pushed /\ Slot(f[pending[k].val]) = pending[k].loc
      BY DEF Seen, PlacesInv
    <3> QED
      BY <1>1, <3>1
  <2>3. \A w \in 1..pushed : f[w] < top + Capacity
    BY DEF Seen, PlacesInv
  <2> QED
    BY <1>2, <2>1, <2>2, <2>3, SlotSame DEF PlacesInv
<1>8. RisingInv(f)'
  <2> SUFFICES ASSUME NEW k \in 1..Len(pending'), pending'[k].loc # BottomLoc
               PROVE  /\ memBuffer'[pending'[k].loc] # Garbage =>
                            f[memBuffer'[pending'[k].loc]] <= f[pending'[k].val]
                      /\ \A j \in 1..(k - 1) : pending'[j].loc = pending'[k].loc =>
                            f[pending'[j].val] <= f[pending'[k].val]
    BY DEF RisingInv
  <2>1. /\ pending'[k] = pending[k+1] /\ k + 1 \in 1..n /\ 1 \in 1..((k+1) - 1)
        /\ \A j \in 1..(k - 1) : /\ j \in 1..Len(pending') /\ j + 1 \in 1..((k+1) - 1)
                                 /\ pending'[j] = pending[j + 1]
    <3>1. pending'[k] = pending[k+1] /\ k + 1 \in 1..n /\ Len(pending') \in Nat
      <4>1. k + 1 \in 1..n
        BY <1>0
      <4> QED
        BY <1>0, <1>1, <4>1
    <3>2. 1 \in 1..((k+1) - 1)
      BY <3>1
    <3>3. \A j \in 1..(k - 1) : j \in 1..Len(pending') /\ j + 1 \in 1..((k+1) - 1)
      BY <3>1
    <3> QED
      BY <1>1, <3>1, <3>2, <3>3
  <2>2. /\ memBuffer[pending[k+1].loc] # Garbage =>
              f[memBuffer[pending[k+1].loc]] <= f[pending[k+1].val]
        /\ \A j \in 1..((k+1) - 1) : pending[j].loc = pending[k+1].loc =>
              f[pending[j].val] <= f[pending[k+1].val]
    BY <2>1 DEF Seen, RisingInv
  <2>3. pending[k+1].loc \in Slots
    <3>1. pending[k+1].loc \in 0..Capacity /\ pending[k+1].loc # BottomLoc
      BY <2>1, PendingType
    <3> QED
      BY <3>1, SlotLoc
  <2>4. memBuffer'[pending'[k].loc] # Garbage =>
           f[memBuffer'[pending'[k].loc]] <= f[pending'[k].val]
    <3>1. memBuffer'[pending[k+1].loc] = IF e.loc = pending[k+1].loc THEN e.val
                                         ELSE memBuffer[pending[k+1].loc]
      BY <1>3, <2>3
    <3>2. CASE e.loc = pending[k+1].loc
      <4>1. f[e.val] <= f[pending[k+1].val]
        BY <2>1, <2>2, <3>2
      <4> QED
        BY <2>1, <3>1, <3>2, <4>1
    <3>3. CASE e.loc # pending[k+1].loc
      BY <2>1, <2>2, <3>1, <3>3
    <3> QED
      BY <3>2, <3>3
  <2>5. \A j \in 1..(k - 1) : pending'[j].loc = pending'[k].loc =>
           f[pending'[j].val] <= f[pending'[k].val]
    <3> SUFFICES ASSUME NEW j \in 1..(k - 1), pending'[j].loc = pending'[k].loc
                 PROVE  f[pending'[j].val] <= f[pending'[k].val]
      OBVIOUS
    <3>1. pending[j + 1].loc = pending[k + 1].loc
      BY <2>1
    <3>2. f[pending[j + 1].val] <= f[pending[k + 1].val]
      BY <2>1, <2>2, <3>1
    <3> QED
      BY <2>1, <3>2
  <2> QED
    BY <2>4, <2>5
<1>9. VisibleInv(f)'
  <2>1. ASSUME NEW m \in 1..n, NEW i \in Nat, i >= top, Written(f, i, m)
        PROVE  \/ Holds(f, memBuffer'[Slot(i)], i)
               \/ \E k \in 1..((m - 1) - 1) : /\ pending'[k].loc = Slot(i)
                                             /\ Holds(f, pending'[k].val, i)
    <3>1. CASE Holds(f, memBuffer[Slot(i)], i)
      BY <1>6, <2>1, <3>1
    <3>2. ASSUME NEW k \in 1..(m - 1), pending[k].loc = Slot(i), Holds(f, pending[k].val, i)
          PROVE  \/ Holds(f, memBuffer'[Slot(i)], i)
                 \/ \E j \in 1..((m - 1) - 1) : /\ pending'[j].loc = Slot(i)
                                               /\ Holds(f, pending'[j].val, i)
      <4>1. CASE k = 1
        BY <1>3, <1>5, <3>2, <4>1
      <4>2. CASE k # 1
        <5>1. k \in 2..n /\ k - 1 \in 1..((m - 1) - 1)
          BY <1>1, <4>2
        <5> QED
          BY <1>1, <3>2, <5>1
      <4> QED
        BY <4>1, <4>2
    <3> QED
      BY <2>1, <3>1, <3>2 DEF Written
  <2>2. \A i \in top..(memBottom' - 1) : Holds(f, memBuffer'[Slot(i)], i)
    <3> SUFFICES ASSUME NEW i \in top..(memBottom' - 1) PROVE Holds(f, memBuffer'[Slot(i)], i)
      OBVIOUS
    <3>0. i \in Nat /\ i >= top
      <4>1. memBottom' \in Nat
        <5>1. memBottom \in Nat
          BY DEF TypeOK
        <5>2. e.val \in Nat
          BY <1>1, PendingType
        <5> QED
          BY <1>1, <5>1, <5>2
      <4> QED
        BY <1>2, <4>1
    <3>1. Written(f, i, 1)
      BY <1>1 DEF Seen, VisibleInv
    <3> QED
      <4>1. 1..((1 - 1) - 1) = {}
        OBVIOUS
      <4> QED
        BY <1>1, <3>0, <3>1, <2>1, <4>1
  <2>3. ASSUME NEW m \in 1..Len(pending'), pending'[m].loc = BottomLoc,
               NEW i \in top..(pending'[m].val - 1)
        PROVE  Written(f, i, m)'
    <3>1. m + 1 \in 1..n /\ pending[m + 1] = pending'[m] /\ ((m + 1) - 1) - 1 = m - 1
      <4>1. m + 1 \in 1..n /\ ((m + 1) - 1) - 1 = m - 1
        BY <1>0
      <4> QED
        BY <1>1, <4>1
    <3>2. pending[m + 1].val \in Nat
      BY <3>1, PendingType
    <3>3. i \in Nat /\ i >= top
      BY <1>2, <3>1, <3>2
    <3>4. Written(f, i, m + 1)
      BY <2>3, <3>1 DEF Seen, VisibleInv
    <3>5. \/ Holds(f, memBuffer'[Slot(i)], i)
          \/ \E k \in 1..(m - 1) : pending'[k].loc = Slot(i) /\ Holds(f, pending'[k].val, i)
      BY <2>1, <3>1, <3>3, <3>4
    <3> QED
      BY <1>2, <3>5, SlotSame DEF Written, Holds
  <2>4. \A i \in top..(memBottom' - 1) : Written(f, i, 1)'
    BY <1>2, <2>2, SlotSame DEF Written, Holds
  <2> QED
    BY <1>2, <2>3, <2>4 DEF VisibleInv
<1> QED
  BY <1>6, <1>7, <1>8, <1>9 DEF Seen

\* Memory that has nothing pending reads as the owner reads it.
LEMMA NothingPending ==
    ASSUME TypeOK, MemoryInv, LastInv, pending = <<>>
    PROVE  memBuffer = buffer /\ memBottom = bottom
<1>1. memBottom = bottom
  BY DEF MemoryInv
<1>2. \A l \in Slots : memBuffer[l] = buffer[l]
  BY DEF LastInv
<1> QED
  BY <1>1, <1>2 DEF TypeOK

LEMMA OneMore ==
    ASSUME NEW n \in Nat
    PROVE  /\ \A k \in 1..n : k \in 1..(n + 1)
           /\ \A k \in 1..(n + 1) : k \in 1..n \/ k = n + 1
           /\ \A k \in 1..(n + 1) : \A j \in 1..(k - 1) : j \in 1..n
<1>1. \A k \in 1..(n + 1) : \A j \in 1..(k - 1) : j \in 1..n
  OBVIOUS
<1> QED
  BY <1>1

\* Behind a queue of stores one more is queued.
LEMMA QueuedPlaces ==
    ASSUME TypeOK, NEW f \in [Nat -> Nat], Seen(f), NEW loc \in 0..Capacity, NEW val \in Nat,
           top' = top, pushed' = pushed, memBottom' = memBottom, memBuffer' = memBuffer,
           Len(pending) \in Nat, Len(pending') = Len(pending) + 1,
           \A k \in 1..Len(pending) : pending'[k] = pending[k],
           pending'[Len(pending) + 1] = [loc |-> loc, val |-> val],
           loc # BottomLoc =>
              /\ val \in 1..pushed /\ Slot(f[val]) = loc
              /\ \A u \in 1..pushed : Slot(f[u]) = loc => f[u] <= f[val],
           loc = BottomLoc =>
              \A i \in top..(val - 1) : Written(f, i, Len(pending) + 1)
    PROVE  Seen(f)'
<1> DEFINE n == Len(pending)
<1>1. /\ \A k \in 1..n : k \in 1..Len(pending') /\ pending'[k] = pending[k]
      /\ \A k \in 1..Len(pending') : k \in 1..n \/ k = n + 1
      /\ \A k \in 1..Len(pending') : \A j \in 1..(k - 1) : j \in 1..n
      /\ pending'[n + 1].loc = loc /\ pending'[n + 1].val = val
  <2>1. pending'[n + 1].loc = loc /\ pending'[n + 1].val = val
    OBVIOUS
  <2>2. \A k \in 1..n : pending'[k] = pending[k]
    OBVIOUS
  <2>3. n \in Nat /\ Len(pending') = n + 1
    OBVIOUS
  <2> HIDE DEF n
  <2>4. /\ \A k \in 1..n : k \in 1..(n + 1)
        /\ \A k \in 1..(n + 1) : k \in 1..n \/ k = n + 1
        /\ \A k \in 1..(n + 1) : \A j \in 1..(k - 1) : j \in 1..n
    BY <2>3, OneMore
  <2> QED
    BY <2>1, <2>2, <2>3, <2>4
<1>2. PlacesInv(f)'
  <2>1. ASSUME NEW k \in 1..Len(pending'), pending'[k].loc # BottomLoc
        PROVE  pending'[k].val \in 1..pushed /\ Slot(f[pending'[k].val]) = pending'[k].loc
    BY <1>1, <2>1 DEF Seen, PlacesInv
  <2>2. /\ \A w \in 1..pushed : f[w] < top + Capacity
        /\ \A l \in Slots : memBuffer[l] # Garbage =>
              memBuffer[l] \in 1..pushed /\ Slot(f[memBuffer[l]]) = l
    BY DEF Seen, PlacesInv
  <2> QED
    BY <2>1, <2>2, SlotSame DEF PlacesInv
<1>3. RisingInv(f)'
  <2> SUFFICES ASSUME NEW k \in 1..Len(pending'), pending'[k].loc # BottomLoc
               PROVE  /\ memBuffer[pending'[k].loc] # Garbage =>
                            f[memBuffer[pending'[k].loc]] <= f[pending'[k].val]
                      /\ \A j \in 1..(k - 1) : pending'[j].loc = pending'[k].loc =>
                            f[pending'[j].val] <= f[pending'[k].val]
    BY DEF RisingInv
  <2>1. CASE k \in 1..n
    BY <1>1, <2>1 DEF Seen, RisingInv
  <2>2. CASE k = n + 1
    <3>1. loc # BottomLoc /\ loc \in Slots
      BY <1>1, <2>2, SlotLoc
    <3>2. memBuffer[loc] # Garbage => f[memBuffer[loc]] <= f[val]
      BY <3>1 DEF Seen, PlacesInv
    <3>3. ASSUME NEW j \in 1..(k - 1), pending'[j].loc = loc
          PROVE  f[pending'[j].val] <= f[val]
      <4>1. j \in 1..n /\ pending'[j] = pending[j]
        BY <1>1
      <4> QED
        BY <3>1, <3>3, <4>1 DEF Seen, PlacesInv
    <3> QED
      BY <1>1, <2>2, <3>2, <3>3
  <2> QED
    BY <1>1, <2>1, <2>2
<1>4. VisibleInv(f)'
  <2>1. \A i : Written(f, i, 1) => Written(f, i, 1)'
    <3>1. 1..(1 - 1) = {}
      OBVIOUS
    <3> QED
      BY <3>1, SlotSame DEF Written, Holds
  <2>2. ASSUME NEW m \in 1..Len(pending'), NEW i, Written(f, i, m)
        PROVE  Written(f, i, m)'
    <3>1. \A k \in 1..(m - 1) : pending'[k] = pending[k]
      BY <1>1
    <3> QED
      BY <2>2, <3>1, SlotSame DEF Written, Holds
  <2>3. ASSUME NEW m \in 1..Len(pending'), pending'[m].loc = BottomLoc,
               NEW i \in top..(pending'[m].val - 1)
        PROVE  Written(f, i, m)
    BY <1>1, <2>3 DEF Seen, VisibleInv
  <2>4. \A i \in top..(memBottom - 1) : Written(f, i, 1)
    BY DEF Seen, VisibleInv
  <2> QED
    BY <2>1, <2>2, <2>3, <2>4 DEF VisibleInv
<1> QED
  BY <1>2, <1>3, <1>4 DEF Seen

\* The owner stores the task of place b in its slot.
LEMMA SlotStored ==
    ASSUME TypeOK, MemoryInv, LastInv, NEW f \in [Nat -> Nat], Seen(f), NEW b \in Nat,
           NEW w \in 1..pushed, f[w] = b, \A u \in 1..pushed : f[u] < b + Capacity,
           Store(Slot(b), w), top' = top, pushed' = pushed
    PROVE  /\ Seen(f)'
           /\ \A i \in Nat : i >= top /\ Holds(f, memBuffer[Slot(i)], i) =>
                 Holds(f, memBuffer'[Slot(i)], i)
<1>0. /\ pushed \in Nat /\ top \in Nat /\ w \in Nat /\ Capacity \in Nat
      /\ \A u \in 1..pushed : u # Garbage /\ f[u] \in Nat
  BY DequeAssumption DEF TypeOK, Garbage
<1>1. Slot(b) \in 0..Capacity /\ Slot(b) # BottomLoc /\ Slot(b) \in Slots
  BY SlotType, DequeAssumption DEF Slots
<1>2. \A u \in 1..pushed : Slot(f[u]) = Slot(b) => f[u] <= b
  BY <1>0, SlotBelow
<1>3. CASE /\ pending = <<>> /\ pending' = <<>>
           /\ memBottom' = bottom' /\ memBuffer' = buffer'
  <2>1. /\ memBottom' = memBottom
        /\ \A l \in Slots : memBuffer'[l] = IF l = Slot(b) THEN w ELSE memBuffer[l]
    <3>1. memBuffer = buffer /\ memBottom = bottom
      BY <1>3, NothingPending
    <3> QED
      <4>1. buffer' = [buffer EXCEPT ![Slot(b)] = w] /\ bottom' = bottom
        BY <1>0, <1>1, StoreEffect
      <4> QED
        BY <1>3, <3>1, <4>1 DEF TypeOK
  <2>2. ASSUME NEW i \in Nat, i >= top, Holds(f, memBuffer[Slot(i)], i)
        PROVE  Holds(f, memBuffer'[Slot(i)], i)
    <3>0. Slot(i) \in Slots
      BY SlotType
    <3>1. CASE Slot(i) # Slot(b)
      BY <2>1, <2>2, <3>0, <3>1
    <3>2. CASE Slot(i) = Slot(b)
      <4>1. i <= b
        BY <1>2, <2>2, <3>2 DEF Holds
      <4>2. b < i + Capacity
        <5>1. b < top + Capacity
          BY DEF Seen, PlacesInv
        <5> QED
          BY <1>0, <2>2, <5>1
      <4>3. b <= i
        BY <3>2, <4>2, SlotBelow
      <4>4. b = i
        BY <4>1, <4>3
      <4> QED
        BY <1>1, <2>1, <3>2, <4>4 DEF Holds
    <3> QED
      BY <3>1, <3>2
  <2>3. PlacesInv(f)'
    <3>1. \A l \in Slots : memBuffer'[l] # Garbage =>
             memBuffer'[l] \in 1..pushed /\ Slot(f[memBuffer'[l]]) = l
      BY <2>1 DEF Seen, PlacesInv
    <3>2. \A u \in 1..pushed : f[u] < top + Capacity
      BY DEF Seen, PlacesInv
    <3> QED
      <4>1. 1..Len(pending') = {}
        BY <1>3
      <4> QED
        BY <3>1, <3>2, <4>1, SlotSame DEF PlacesInv
  <2>4. RisingInv(f)'
    BY <1>3 DEF RisingInv
  <2>5. VisibleInv(f)'
    <3>1. ASSUME NEW i \in top..(memBottom - 1) PROVE Written(f, i, 1)'
      <4>1. i \in Nat /\ i >= top
        BY <1>0 DEF TypeOK
      <4>2. Written(f, i, 1) /\ 1..(1 - 1) = {}
        BY DEF Seen, VisibleInv
      <4> QED
        BY <2>2, <4>1, <4>2, SlotSame DEF Written, Holds
    <3> QED
      BY <1>3, <2>1, <3>1 DEF VisibleInv
  <2> QED
    BY <2>2, <2>3, <2>4, <2>5 DEF Seen
<1>4. CASE /\ memBottom' = memBottom /\ memBuffer' = memBuffer
           /\ Len(pending) \in Nat /\ Len(pending') = Len(pending) + 1
           /\ \A k \in 1..Len(pending) : pending'[k] = pending[k]
           /\ pending'[Len(pending) + 1] = [loc |-> Slot(b), val |-> w]
  BY <1>0, <1>1, <1>2, <1>4, QueuedPlaces DEF Holds
<1> QED
  BY <1>0, <1>1, <1>3, <1>4, StoreEffect

\* The owner stores bottom: all that it lets thieves read has been written.
LEMMA BottomStored ==
    ASSUME TypeOK, MemoryInv, LastInv, NEW f \in [Nat -> Nat], Seen(f), NEW v \in Nat,
           Store(BottomLoc, v), top' = top, pushed' = pushed,
           \A i \in top..(v - 1) : Holds(f, buffer[Slot(i)], i)
    PROVE  Seen(f)' /\ memBuffer' = memBuffer
<1>0. BottomLoc \in 0..Capacity /\ top \in Nat
  BY DequeAssumption DEF BottomLoc, TypeOK
<1>1. CASE /\ pending = <<>> /\ pending' = <<>>
           /\ memBottom' = bottom' /\ memBuffer' = buffer'
  <2>1. memBuffer' = memBuffer /\ memBottom' = v /\ memBuffer = buffer
    BY <1>0, <1>1, NothingPending, StoreEffect
  <2>2. PlacesInv(f)'
    BY <1>1, <2>1, SlotSame DEF Seen, PlacesInv
  <2>3. RisingInv(f)'
    BY <1>1 DEF RisingInv
  <2>4. VisibleInv(f)'
    BY <1>1, <2>1, SlotSame DEF VisibleInv, Written, Holds
  <2> QED
    BY <2>1, <2>2, <2>3, <2>4 DEF Seen
<1>2. CASE /\ memBottom' = memBottom /\ memBuffer' = memBuffer
           /\ Len(pending) \in Nat /\ Len(pending') = Len(pending) + 1
           /\ \A k \in 1..Len(pending) : pending'[k] = pending[k]
           /\ pending'[Len(pending) + 1] = [loc |-> BottomLoc, val |-> v]
  <2>1. ASSUME NEW i \in top..(v - 1) PROVE Written(f, i, Len(pending) + 1)
    <3>1. Slot(i) \in Slots
      BY <1>0, SlotType
    <3>2. (Len(pending) + 1) - 1 = Len(pending)
      BY <1>2
    <3> QED
      BY <3>1, <3>2 DEF LastInv, Written
  <2> QED
    BY <1>0, <1>2, <2>1, QueuedPlaces
<1> QED
  BY <1>0, <1>1, <1>2, StoreEffect

\* A higher top, or a new task, asks less of memory.
LEMMA SeenLater ==
    ASSUME TypeOK, NEW f \in [Nat -> Nat], Seen(f), top' \in Nat, top' >= top,
           UNCHANGED <<memBottom, memBuffer, pending, pushed>>
    PROVE  Seen(f)'
<1>0. top \in Nat /\ Capacity \in Nat
  BY DequeAssumption DEF TypeOK
<1>1. PlacesInv(f)'
  <2>1. \A u \in 1..pushed : f[u] < top + Capacity /\ f[u] \in Nat
    <3>1. \A u \in 1..pushed : f[u] < top + Capacity
      BY DEF Seen, PlacesInv
    <3>2. \A u \in 1..pushed : f[u] \in Nat
      BY DEF TypeOK
    <3> QED
      BY <3>1, <3>2
  <2>2. \A u \in 1..pushed : f[u] < top' + Capacity
    BY <1>0, <2>1
  <2> QED
    BY <2>2, SlotSame DEF Seen, PlacesInv
<1>2. RisingInv(f)'
  BY DEF Seen, RisingInv
<1>3. VisibleInv(f)'
  <2>1. \A n \in Int : \A i \in top'..n : i \in top..n
    BY <1>0
  <2>2. memBottom - 1 \in Int /\ \A m \in 1..Len(pending) : pending[m].val - 1 \in Int
    <3>1. \A m \in 1..Len(pending) : pending[m].val \in Nat
      BY PendingType
    <3> QED
      <4>1. memBottom \in Nat
        BY DEF TypeOK
      <4>2. \A x \in Nat : x - 1 \in Int
        OBVIOUS
      <4> QED
        BY <3>1, <4>1, <4>2
  <2>3. \A i, m : Written(f, i, m) => Written(f, i, m)'
    BY SlotSame DEF Written, Holds
  <2> QED
    BY <2>1, <2>2, <2>3 DEF Seen, VisibleInv
<1> QED
  BY <1>1, <1>2, <1>3 DEF Seen

LEMMA GivenSame ==
    ASSUME takes' = takes
    PROVE  \A a, v : Given(a, v)' <=> Given(a, v)
BY DEF Given

LEMMA ThiefKept ==
    ASSUME TypeOK, NEW f, ThiefPlaces(f), UNCHANGED <<thief, top, pushed>>,
           \A i \in Nat : i >= top /\ Holds(f, memBuffer[Slot(i)], i) =>
              Holds(f, memBuffer'[Slot(i)], i)
    PROVE  ThiefPlaces(f)'
<1>1. top \in Nat /\ top >= top
  BY DEF TypeOK
<1> QED
  BY <1>1, SlotSame DEF ThiefPlaces, Holds

LEMMA TakesKept ==
    ASSUME NEW f, TakePlaces(f), UNCHANGED <<takes, top, pushed>>
    PROVE  TakePlaces(f)'
BY DEF TakePlaces, Holds

LEMMA DrainPlaced ==
    ASSUME TypeOK, NEW f \in [Nat -> Nat], Placed(f), Drain
    PROVE  Placed(f)'
<1>1. UNCHANGED <<top, bottom, buffer, owner, thief, takes, pushed>> /\ End' = End
  BY DEF Drain, history, End
<1>2. Seen(f)' /\ ThiefPlaces(f)'
  BY <1>1, DrainPlaces, ThiefKept DEF Placed
<1>3. OwnerPlaces(f)'
  BY <1>1, SlotSame, GivenSame DEF Placed, OwnerPlaces, Holds
<1> QED
  BY <1>1, <1>2, <1>3, TakesKept DEF Placed

\* The new task gets bottom as its place.
LEMMA PushBeginPlaced ==
    ASSUME TypeOK, NEW f \in [Nat -> Nat], Placed(f), PushBegin,
           NEW g, g = [f EXCEPT ![pushed + 1] = bottom]
    PROVE  g \in [Nat -> Nat] /\ Placed(g)'
<1>1. /\ UNCHANGED <<top, bottom, buffer, memBottom, memBuffer, pending, thief, takes>>
      /\ pushed' = pushed + 1 /\ owner.pc = "idle"
      /\ owner'.pc = "pushSlot" /\ owner'.b = bottom /\ owner'.task = pushed + 1
      /\ End = bottom /\ End' = bottom
  BY DEF PushBegin, memory, End
<1>2. /\ top \in Nat /\ bottom \in Nat /\ pushed \in Nat /\ Capacity \in Nat
      /\ top <= bottom /\ bottom < top + Capacity
  BY DequeAssumption DEF PushBegin, HasRoom, TypeOK
<1>3. /\ g \in [Nat -> Nat] /\ g[pushed + 1] = bottom
      /\ \A w \in 1..pushed : g[w] = f[w]
  BY <1>2
<1>4. /\ \A w \in 1..pushed' : w \in 1..pushed \/ w = pushed + 1
      /\ \A w \in 1..pushed : w \in 1..pushed' /\ w # pushed + 1
      /\ pushed + 1 \in 1..pushed'
  BY <1>1, <1>2
<1>5. \A w, i : Holds(f, w, i) => Holds(g, w, i)'
  BY <1>3, <1>4 DEF Holds
<1>6. PlacesInv(g)'
  <2>1. \A w \in 1..pushed' : g[w] < top + Capacity
    <3>1. \A w \in 1..pushed : f[w] < top + Capacity
      BY DEF Placed, Seen, PlacesInv
    <3> QED
      BY <1>2, <1>3, <1>4, <3>1
  <2>2. \A l \in Slots : memBuffer[l] # Garbage =>
           memBuffer[l] \in 1..pushed' /\ Slot(g[memBuffer[l]]) = l
    <3>1. \A l \in Slots : memBuffer[l] # Garbage =>
             memBuffer[l] \in 1..pushed /\ Slot(f[memBuffer[l]]) = l
      BY DEF Placed, Seen, PlacesInv
    <3>2. \A w \in 1..pushed : g[w] = f[w] /\ w \in 1..pushed'
      BY <1>3, <1>4
    <3> QED
      BY <3>1, <3>2
  <2>3. \A k \in 1..Len(pending) : pending[k].loc # BottomLoc =>
           pending[k].val \in 1..pushed' /\ Slot(g[pending[k].val]) = pending[k].loc
    <3>1. \A k \in 1..Len(pending) : pending[k].loc # BottomLoc =>
             pending[k].val \in 1..pushed /\ Slot(f[pending[k].val]) = pending[k].loc
      BY DEF Placed, Seen, PlacesInv
    <3>2. \A w \in 1..pushed : g[w] = f[w] /\ w \in 1..pushed'
      BY <1>3, <1>4
    <3> QED
      BY <3>1, <3>2
  <2> QED
    BY <1>1, <2>1, <2>2, <2>3, SlotSame DEF PlacesInv
<1>7. RisingInv(g)'
  <2> SUFFICES ASSUME NEW k \in 1..Len(pending), pending[k].loc # BottomLoc
               PROVE  /\ memBuffer[pending[k].loc] # Garbage =>
                            g[memBuffer[pending[k].loc]] <= g[pending[k].val]
                      /\ \A j \in 1..(k - 1) : pending[j].loc = pending[k].loc =>
                            g[pending[j].val] <= g[pending[k].val]
    BY <1>1 DEF RisingInv
  <2>1. g[pending[k].val] = f[pending[k].val]
    BY <1>3 DEF Placed, Seen, PlacesInv
  <2>2. pending[k].loc \in Slots
    BY PendingType, SlotLoc
  <2>3. memBuffer[pending[k].loc] # Garbage =>
           g[memBuffer[pending[k].loc]] = f[memBuffer[pending[k].loc]]
    BY <1>3, <2>2 DEF Placed, Seen, PlacesInv
  <2>4. ASSUME NEW j \in 1..(k - 1), pending[j].loc = pending[k].loc
        PROVE  g[pending[j].val] = f[pending[j].val]
    <3>1. j \in 1..Len(pending)
      <4>1. Len(pending) \in Nat
        BY DEF TypeOK, StoreBuffer
      <4> QED
        BY <4>1
    <3> QED
      BY <1>3, <2>4, <3>1 DEF Placed, Seen, PlacesInv
  <2> QED
    BY <2>1, <2>3, <2>4 DEF Placed, Seen, RisingInv
<1>8. VisibleInv(g)'
  <2>1. \A i, m : Written(f, i, m) => Written(g, i, m)'
    BY <1>1, <1>5, SlotSame DEF Written, Holds
  <2> QED
    BY <1>1, <2>1 DEF Placed, Seen, VisibleInv
<1>9. OwnerPlaces(g)'
  <2>1. \A i \in top..(bottom - 1) : Holds(g, buffer[Slot(i)], i)'
    BY <1>1, <1>5 DEF Placed, OwnerPlaces
  <2>2. \A i \in top..(bottom - 1) : ~Given(Owner, buffer[Slot(i)])
    BY <1>1 DEF Placed, OwnerPlaces
  <2>3. ~Given(Owner, pushed + 1)
    BY <1>4 DEF Given, Placed, TakePlaces, Holds
  <2>4. \A w \in 1..pushed' : g[w] < bottom + Capacity
    <3>1. \A w \in 1..pushed : f[w] < top + Capacity /\ f[w] \in Nat
      <4>1. \A w \in 1..pushed : f[w] < top + Capacity
        BY DEF Placed, Seen, PlacesInv
      <4> QED
        BY <1>2, <4>1
    <3>2. \A w \in 1..pushed : f[w] < bottom + Capacity
      BY <1>2, <3>1
    <3> QED
      BY <1>2, <1>3, <1>4, <3>2, DequeAssumption
  <2>5. owner'.task \in 1..pushed' /\ g[owner'.task] = bottom
    BY <1>1, <1>3, <1>4
  <2> QED
    BY <1>1, <1>2, <2>1, <2>2, <2>3, <2>4, <2>5, SlotSame, GivenSame DEF OwnerPlaces, Holds
<1>10. ThiefPlaces(g)'
  BY <1>1, <1>5, SlotSame DEF Placed, ThiefPlaces, Holds
<1>11. TakePlaces(g)'
  BY <1>1, <1>5 DEF Placed, TakePlaces, Holds
<1> QED
  BY <1>3, <1>6, <1>7, <1>8, <1>9, <1>10, <1>11 DEF Placed, Seen

LEMMA PushSlotPlaced ==
    ASSUME TypeOK, MemoryInv, LastInv, NEW f \in [Nat -> Nat], Placed(f), PushSlot
    PROVE  Placed(f)'
<1>1. /\ UNCHANGED <<top, thief, takes, pushed>> /\ owner.pc = "pushSlot"
      /\ owner'.pc = "pushBottom" /\ owner'.b = owner.b /\ owner'.task = owner.task
      /\ Store(Slot(owner.b), owner.task)
  BY DEF PushSlot, history, TypeOK
<1>2. /\ owner.b = bottom /\ bottom < top + Capacity /\ Holds(f, owner.task, bottom)
      /\ ~Given(Owner, owner.task) /\ End = bottom
      /\ \A w \in 1..pushed : f[w] < bottom + Capacity
  BY <1>1 DEF Placed, OwnerPlaces, End
<1>3. top \in Nat /\ bottom \in Nat /\ Capacity \in Nat /\ owner.task \in Nat
  BY DequeAssumption DEF TypeOK
<1>4. Seen(f)' /\ ThiefPlaces(f)'
  <2>1. /\ Seen(f)'
        /\ \A i \in Nat : i >= top /\ Holds(f, memBuffer[Slot(i)], i) =>
              Holds(f, memBuffer'[Slot(i)], i)
    BY <1>1, <1>2, <1>3, SlotStored DEF Placed, Holds
  <2> QED
    BY <1>1, <2>1, ThiefKept DEF Placed
<1>5. OwnerPlaces(f)'
  <2>1. bottom' = bottom /\ buffer' = [buffer EXCEPT ![Slot(bottom)] = owner.task]
    <3>1. Slot(bottom) \in 0..Capacity /\ Slot(bottom) # BottomLoc
      BY <1>3, SlotType DEF Slots
    <3> QED
      BY <1>1, <1>2, <1>3, <3>1, StoreEffect
  <2>2. Slot(bottom) \in Slots /\ buffer \in [Slots -> Nat]
    BY <1>3, SlotType DEF TypeOK
  <2>3. ASSUME NEW i \in top..(bottom - 1) PROVE buffer'[Slot(i)] = buffer[Slot(i)]
    <3>1. i \in Nat /\ i < bottom /\ bottom < i + Capacity
      BY <1>2, <1>3
    <3>2. Slot(i) # Slot(bottom)
      BY <1>3, <3>1, SlotsDiffer
    <3> QED
      BY <2>1, <2>2, <3>1, <3>2, SlotType
  <2>4. buffer'[Slot(bottom)] = owner.task /\ End' = bottom
    BY <1>1, <2>1, <2>2 DEF End
  <2>5. \A i \in top..(bottom - 1) : Holds(f, buffer[Slot(i)], i) /\ ~Given(Owner, buffer[Slot(i)])
    BY <1>2 DEF Placed, OwnerPlaces
  <2>6. End' <= top' + Capacity
    BY <1>1, <1>2, <1>3, <2>4
  <2> QED
    BY <1>1, <1>2, <2>1, <2>3, <2>4, <2>5, <2>6, SlotSame, GivenSame DEF OwnerPlaces, Holds
<1> QED
  BY <1>1, <1>4, <1>5, TakesKept DEF Placed

LEMMA PushBottomPlaced ==
    ASSUME TypeOK, MemoryInv, LastInv, NEW f \in [Nat -> Nat], Placed(f), PushBottom
    PROVE  Placed(f)'
<1>1. /\ UNCHANGED <<top, thief, takes, pushed>> /\ owner.pc = "pushBottom"
      /\ owner'.pc = "idle" /\ Store(BottomLoc, owner.b + 1)
  BY DEF PushBottom, history, OwnerIdle
<1>2. /\ owner.b = bottom /\ bottom < top + Capacity /\ Holds(f, owner.task, bottom)
      /\ ~Given(Owner, owner.task) /\ End = bottom /\ buffer[Slot(bottom)] = owner.task
  BY <1>1 DEF Placed, OwnerPlaces, End
<1>3. /\ top \in Nat /\ bottom \in Nat /\ Capacity \in Nat
      /\ bottom + 1 \in Nat /\ BottomLoc \in 0..Capacity
  BY DequeAssumption DEF TypeOK, BottomLoc
<1>4. \A i \in top..((bottom + 1) - 1) : /\ Holds(f, buffer[Slot(i)], i)
                                        /\ ~Given(Owner, buffer[Slot(i)])
  <2>1. \A i \in top..((bottom + 1) - 1) : i \in top..(bottom - 1) \/ i = bottom
    BY <1>3
  <2> QED
    BY <1>2, <2>1 DEF Placed, OwnerPlaces
<1>5. Seen(f)' /\ memBuffer' = memBuffer
  BY <1>1, <1>2, <1>3, <1>4, BottomStored DEF Placed
<1>6. bottom' = bottom + 1 /\ buffer' = buffer /\ End' = bottom + 1
  BY <1>1, <1>2, <1>3, StoreEffect DEF End
<1>7. OwnerPlaces(f)'
  <2>1. End' <= top' + Capacity
    BY <1>1, <1>2, <1>3, <1>6
  <2> QED
    BY <1>1, <1>4, <1>6, <2>1, SlotSame, GivenSame DEF OwnerPlaces, Holds
<1> QED
  BY <1>1, <1>5, <1>7, ThiefKept, TakesKept DEF Placed

LEMMA PopBeginPlaced ==
    ASSUME TypeOK, MemoryInv, LastInv, NEW f \in [Nat -> Nat], Placed(f), PopBegin
    PROVE  Placed(f)'
<1>1. /\ UNCHANGED <<top, thief, takes, pushed>> /\ owner.pc = "idle" /\ bottom # 0
      /\ owner'.pc = "popTop" /\ owner'.b = bottom - 1 /\ Store(BottomLoc, bottom - 1)
  BY DEF PopBegin, history, OwnerIdle
<1>2. /\ top \in Nat /\ bottom \in Nat /\ bottom - 1 \in Nat /\ BottomLoc \in 0..Capacity
  <2>1. top \in Nat /\ bottom \in Nat /\ BottomLoc \in 0..Capacity
    BY DequeAssumption DEF TypeOK, BottomLoc
  <2> QED
    BY <1>1, <2>1
<1>3. End = bottom /\ \A i \in top..((bottom - 1) - 1) : i \in top..(bottom - 1)
  BY <1>1, <1>2 DEF End
<1>4. Seen(f)' /\ memBuffer' = memBuffer
  BY <1>1, <1>2, <1>3, BottomStored DEF Placed, OwnerPlaces
<1>5. bottom' = bottom - 1 /\ buffer' = buffer
  BY <1>1, <1>2, StoreEffect
<1>6. End' = bottom
  BY <1>1, <1>2, <1>5 DEF End
<1>7. OwnerPlaces(f)'
  BY <1>1, <1>3, <1>5, <1>6, SlotSame, GivenSame DEF Placed, OwnerPlaces, Holds
<1> QED
  BY <1>1, <1>4, <1>7, ThiefKept, TakesKept DEF Placed

\* Nothing was to be seen from top on once bottom is stored back.
LEMMA PopRestorePlaced ==
    ASSUME TypeOK, MemoryInv, LastInv, NEW f \in [Nat -> Nat], Placed(f), PopRestore
    PROVE  Placed(f)'
<1>1. /\ UNCHANGED <<top, thief, takes, pushed>> /\ owner.pc = "popRestore"
      /\ owner'.pc = "idle" /\ Store(BottomLoc, owner.t) /\ owner.t <= top
  BY DEF PopRestore, history, OwnerIdle, Placed, OwnerPlaces
<1>2. /\ top \in Nat /\ owner.t \in Nat /\ BottomLoc \in 0..Capacity /\ Capacity \in Nat
  BY DequeAssumption DEF TypeOK, BottomLoc
<1>3. top..(owner.t - 1) = {}
  BY <1>1, <1>2
<1>4. Seen(f)' /\ memBuffer' = memBuffer
  BY <1>1, <1>2, <1>3, BottomStored DEF Placed
<1>5. End' = owner.t
  BY <1>1, <1>2, StoreEffect DEF End
<1>6. End' <= top' + Capacity /\ top'..(End' - 1) = {}
  BY <1>1, <1>2, <1>3, <1>5
<1>7. OwnerPlaces(f)'
  BY <1>1, <1>6 DEF OwnerPlaces
<1> QED
  BY <1>1, <1>4, <1>7, ThiefKept, TakesKept DEF Placed

\* The owner goes on without being handed anything.
LEMMA PopLoadPlaced ==
    ASSUME TypeOK, NEW f \in [Nat -> Nat], Placed(f), PopEmpty \/ PopLast
    PROVE  Placed(f)'
<1>1. /\ UNCHANGED <<top, bottom, buffer, memBottom, memBuffer, pending, thief, takes, pushed>>
      /\ owner.pc = "popTop" /\ owner'.b = owner.b /\ owner'.t = top
      /\ \/ owner'.pc = "popRestore"
         \/ /\ owner'.pc = "popCas" /\ owner.b = top
            /\ owner'.task = buffer[Slot(owner.b)]
  BY DEF PopEmpty, PopLast, LoadTop, memory, TypeOK
<1>2. owner.b = bottom /\ End' = End /\ top \in Nat
  BY <1>1 DEF Placed, OwnerPlaces, End, TypeOK
<1>3. Seen(f)'
  BY <1>1, <1>2, SeenLater DEF Placed
<1>4. OwnerPlaces(f)'
  BY <1>1, <1>2, SlotSame, GivenSame DEF Placed, OwnerPlaces, Holds
<1> QED
  BY <1>1, <1>3, <1>4, ThiefKept, TakesKept DEF Placed

\* A call is handed the task of place i.
LEMMA TakenPlaces ==
    ASSUME TypeOK, NEW f \in [Nat -> Nat], TakePlaces(f), NEW a, NEW i \in Nat, NEW w,
           Holds(f, w, i), ~Given(a, w), Take(a, i, w), pushed' = pushed,
           \/ a = Owner /\ top' >= top
           \/ a # Owner /\ i = top /\ top' = top + 1,
           top' \in Nat
    PROVE  TakePlaces(f)'
<1> DEFINE got == Receipt(a, i, w)
<1>1. takes' = takes \cup {got} /\ got.by = a /\ got.at = i /\ got.task = w /\ ~got.again
  BY ReceiptSays DEF Take
<1> HIDE DEF got
<1>2. top \in Nat /\ top' >= top /\ \A x \in takes : x.at \in Nat
  BY DEF TypeOK
<1>3. \A x \in takes' : Holds(f, x.task, x.at)' /\ ~x.again
  BY <1>1 DEF TakePlaces, Holds
<1>4. \A x \in takes' : x.by # Owner => x.at < top'
  BY <1>1, <1>2 DEF TakePlaces
<1>5. \A x, y \in takes' : x.by # Owner /\ y.by # Owner /\ x.at = y.at => x = y
  BY <1>1, <1>2 DEF TakePlaces
<1> QED
  BY <1>3, <1>4, <1>5 DEF TakePlaces

LEMMA PopTakePlaced ==
    ASSUME TypeOK, NEW f \in [Nat -> Nat], Placed(f), PopTake
    PROVE  Placed(f)'
<1> DEFINE w == buffer[Slot(bottom)]
<1>1. /\ UNCHANGED <<top, bottom, buffer, memBottom, memBuffer, pending, thief, pushed>>
      /\ owner.pc = "popTop" /\ owner.b > top /\ owner'.pc = "idle"
      /\ Take(Owner, owner.b, buffer[Slot(owner.b)])
  BY DEF PopTake, LoadTop, memory, OwnerIdle
<1>2. /\ owner.b = bottom /\ End = bottom + 1 /\ End' = bottom
      /\ top \in Nat /\ bottom \in Nat /\ Capacity \in Nat
  BY <1>1, DequeAssumption DEF Placed, OwnerPlaces, End, TypeOK
<1>3. bottom \in top..(End - 1) /\ \A i \in top..(End' - 1) : i \in top..(End - 1) /\ i # bottom
  BY <1>1, <1>2
<1>4. Holds(f, w, bottom) /\ ~Given(Owner, w) /\ Take(Owner, bottom, w)
  BY <1>1, <1>2, <1>3 DEF Placed, OwnerPlaces
<1>5. Seen(f)'
  BY <1>1, <1>2, SeenLater DEF Placed
<1>6. TakePlaces(f)'
  BY <1>1, <1>2, <1>4, TakenPlaces DEF Placed
<1>7. \A v : Given(Owner, v)' => Given(Owner, v) \/ v = w
  <2> DEFINE got == Receipt(Owner, bottom, w)
  <2>1. takes' = takes \cup {got} /\ got.task = w
    BY <1>4, ReceiptSays DEF Take
  <2> HIDE DEF got
  <2> QED
    BY <2>1 DEF Given
<1>8. OwnerPlaces(f)'
  <2>1. \A i \in top..(End' - 1) : Holds(f, buffer[Slot(i)], i) /\ ~Given(Owner, buffer[Slot(i)])'
    BY <1>1, <1>3, <1>4, <1>7, SlotSame DEF Placed, OwnerPlaces, Holds
  <2>2. End' <= top' + Capacity
    BY <1>1, <1>2 DEF Placed, OwnerPlaces
  <2> QED
    BY <1>1, <2>1, <2>2, SlotSame DEF OwnerPlaces, Holds
<1> QED
  BY <1>1, <1>5, <1>6, <1>8, ThiefKept DEF Placed

LEMMA PopWinPlaced ==
    ASSUME TypeOK, NEW f \in [Nat -> Nat], Placed(f), PopWin
    PROVE  Placed(f)'
<1>1. /\ UNCHANGED <<bottom, buffer, memBottom, memBuffer, pending, thief, pushed>>
      /\ owner.pc = "popCas" /\ top = owner.t /\ top' = owner.t + 1
      /\ Take(Owner, owner.b, owner.task)
      /\ owner'.pc = "popRestore" /\ owner'.t = owner.t + 1
  BY DEF PopWin, memory, TypeOK
<1>2. /\ owner.b = bottom /\ top = bottom /\ End = bottom + 1 /\ End' = bottom + 1
      /\ owner.task = buffer[Slot(bottom)] /\ top' = bottom + 1
      /\ top \in Nat /\ bottom \in Nat /\ Capacity \in Nat /\ top' \in Nat /\ top' >= top
  <2>1. owner.b = bottom /\ owner.t = bottom /\ owner.task = buffer[Slot(bottom)]
    BY <1>1 DEF Placed, OwnerPlaces
  <2>2. End = bottom + 1 /\ End' = bottom + 1
    BY <1>1 DEF End
  <2>3. bottom \in Nat /\ Capacity \in Nat
    BY DequeAssumption DEF TypeOK
  <2> QED
    BY <1>1, <2>1, <2>2, <2>3
<1>3. bottom \in top..(End - 1) /\ top'..(End' - 1) = {}
  BY <1>2
<1>4. /\ Holds(f, owner.task, bottom) /\ ~Given(Owner, owner.task)
      /\ Take(Owner, bottom, owner.task)
  BY <1>1, <1>2, <1>3 DEF Placed, OwnerPlaces
<1>5. Seen(f)'
  BY <1>1, <1>2, SeenLater DEF Placed
<1>6. TakePlaces(f)'
  BY <1>1, <1>2, <1>4, TakenPlaces DEF Placed
<1>7. OwnerPlaces(f)'
  <2>1. End' <= top' + Capacity /\ owner'.t <= top'
    BY <1>1, <1>2
  <2> QED
    BY <1>1, <1>3, <2>1 DEF OwnerPlaces
<1>8. ThiefPlaces(f)'
  <2>1. \A p \in Thieves : thief[p].t <= top /\ thief[p].t \in Nat
    BY DEF Placed, ThiefPlaces, TypeOK
  <2>2. \A p \in Thieves : thief[p].t <= top' /\ thief[p].t # top'
    BY <1>2, <2>1
  <2> QED
    BY <1>1, <2>2 DEF ThiefPlaces
<1> QED
  BY <1>5, <1>6, <1>7, <1>8 DEF Placed

LEMMA StealPlaced ==
    ASSUME TypeOK, NEW f \in [Nat -> Nat], Placed(f), NEW p \in Thieves,
           StealTop(p) \/ StealBottom(p) \/ StealSlot(p) \/ StealFail(p)
    PROVE  Placed(f)'
<1>1. /\ UNCHANGED <<top, bottom, buffer, memBottom, memBuffer, pending, owner, takes, pushed>>
      /\ top \in Nat
  BY DEF StealTop, StealBottom, StealSlot, StealFail, memory, history, TypeOK
<1>2. Seen(f)'
  BY <1>1, SeenLater DEF Placed
<1>3. End' = End
  BY <1>1 DEF End
<1>4. OwnerPlaces(f)'
  BY <1>1, <1>3, SlotSame, GivenSame DEF Placed, OwnerPlaces, Holds
<1>5. \A q \in Thieves \ {p} : thief'[q] = thief[q]
  BY DEF StealTop, StealBottom, StealSlot, StealFail, TypeOK
<1>6. /\ thief'[p].t <= top
      /\ thief'[p].pc = "slot" /\ thief'[p].t = top => Holds(f, memBuffer[Slot(top)], top)
      /\ thief'[p].pc = "cas" /\ thief'[p].t = top => Holds(f, thief'[p].task, top)
  <2>0. thief[p].t <= top /\ thief[p].t \in Nat /\ memBottom \in Nat
    BY DEF Placed, ThiefPlaces, TypeOK
  <2>1. CASE StealTop(p)
    BY <1>1, <2>1 DEF StealTop, TypeOK
  <2>2. CASE StealBottom(p)
    <3>1. CASE thief[p].t >= memBottom
      BY <1>1, <2>2, <3>1 DEF StealBottom, ThiefIdle, TypeOK
    <3>2. CASE thief[p].t < memBottom
      <4>1. /\ thief'[p].pc = "slot" /\ thief'[p].t = thief[p].t
        BY <2>0, <2>2, <3>2 DEF StealBottom, TypeOK
      <4>2. ASSUME thief[p].t = top PROVE Holds(f, memBuffer[Slot(top)], top)
        <5>1. top \in top..(memBottom - 1) /\ 1..(1 - 1) = {}
          BY <1>1, <2>0, <3>2, <4>2
        <5> QED
          BY <5>1 DEF Placed, Seen, VisibleInv, Written
      <4> QED
        BY <2>0, <4>1, <4>2
    <3> QED
      BY <2>0, <3>1, <3>2
  <2>3. CASE StealSlot(p)
    <3>1. /\ thief[p].pc = "slot" /\ thief'[p].pc = "cas" /\ thief'[p].t = thief[p].t
          /\ thief'[p].task = memBuffer[Slot(thief[p].t)]
      BY <2>3 DEF StealSlot, TypeOK
    <3> QED
      BY <2>0, <3>1 DEF Placed, ThiefPlaces
  <2>4. CASE StealFail(p)
    BY <1>1, <2>4 DEF StealFail, ThiefIdle, TypeOK
  <2> QED
    BY <2>1, <2>2, <2>3, <2>4
<1>7. ThiefPlaces(f)'
  BY <1>1, <1>5, <1>6, SlotSame DEF Placed, ThiefPlaces, Holds
<1> QED
  BY <1>1, <1>2, <1>4, <1>7, TakesKept DEF Placed

LEMMA StealWinPlaced ==
    ASSUME TypeOK, NEW f \in [Nat -> Nat], Placed(f), NEW p \in Thieves, StealWin(p)
    PROVE  Placed(f)'
<1>1. /\ UNCHANGED <<bottom, buffer, memBottom, memBuffer, pending, owner, pushed>>
      /\ thief[p].pc = "cas" /\ thief[p].t = top /\ top' = top + 1
      /\ Take(p, top, thief[p].task) /\ thief' = [thief EXCEPT ![p] = ThiefIdle]
  BY DEF StealWin, memory
<1>2. top \in Nat /\ top' \in Nat /\ top' >= top /\ Capacity \in Nat /\ p # Owner
  BY <1>1, DequeAssumption DEF TypeOK
<1>3. Holds(f, thief[p].task, top)
  BY <1>1 DEF Placed, ThiefPlaces
<1>4. ~Given(p, thief[p].task)
  <2>1. \A x \in takes : x.by = p => f[x.task] = x.at /\ x.at < top
    BY <1>2 DEF Placed, TakePlaces, Holds
  <2> QED
    BY <1>2, <1>3, <2>1 DEF Given, Holds
<1>5. Seen(f)'
  BY <1>1, <1>2, SeenLater DEF Placed
<1>6. TakePlaces(f)'
  BY <1>1, <1>2, <1>3, <1>4, TakenPlaces DEF Placed
<1>7. \A v : Given(Owner, v)' => Given(Owner, v)
  <2> DEFINE got == Receipt(p, top, thief[p].task)
  <2>1. takes' = takes \cup {got} /\ got.by # Owner
    BY <1>1, <1>2, ReceiptSays DEF Take
  <2> HIDE DEF got
  <2> QED
    BY <2>1 DEF Given
<1>8. OwnerPlaces(f)'
  <2>1. End' = End /\ End \in Int /\ bottom \in Int /\ owner.t \in Int
    BY <1>1 DEF End, TypeOK
  <2>2. /\ End' <= top' + Capacity /\ \A i \in top'..(End' - 1) : i \in top..(End - 1)
        /\ bottom < top + Capacity => bottom < top' + Capacity
        /\ owner.t <= top => owner.t <= top'
    <3>1. End <= top + Capacity
      BY DEF Placed, OwnerPlaces
    <3>2. \A i \in top'..(End - 1) : i \in top..(End - 1)
      BY <1>2, <2>1
    <3>3. End <= top' + Capacity
      BY <1>1, <1>2, <2>1, <3>1
    <3>4. /\ bottom < top + Capacity => bottom < top' + Capacity
          /\ owner.t <= top => owner.t <= top'
      BY <1>1, <1>2, <2>1
    <3> QED
      BY <2>1, <3>2, <3>3, <3>4
  <2> QED
    BY <1>1, <1>7, <2>2, SlotSame DEF Placed, OwnerPlaces, Holds
<1>9. ThiefPlaces(f)'
  <2>1. /\ thief'[p].pc = "idle" /\ thief'[p].t = 0
        /\ \A q \in Thieves \ {p} : thief'[q] = thief[q]
    BY <1>1 DEF ThiefIdle, TypeOK
  <2>2. \A q \in Thieves : thief[q].t <= top /\ thief[q].t \in Nat
    BY DEF Placed, ThiefPlaces, TypeOK
  <2>3. \A q \in Thieves \ {p} : thief'[q].t <= top' /\ thief'[q].t # top'
    BY <1>1, <1>2, <2>1, <2>2
  <2> QED
    BY <1>2, <2>1, <2>3 DEF ThiefPlaces
<1> QED
  BY <1>5, <1>6, <1>8, <1>9 DEF Placed

\* Memory follows the owner's view, whatever was overtaken.
LEMMA MemoryFollows ==
    ASSUME TypeOK, MemoryInv, LastInv, [Next]_vars
    PROVE  MemoryInv' /\ LastInv'
<1>1. CASE UNCHANGED <<bottom, buffer, memBottom, memBuffer, pending>>
  BY <1>1 DEF MemoryInv, LastInv
<1>2. ASSUME NEW loc \in 0..Capacity, NEW val \in Nat, Store(loc, val)
      PROVE  MemoryInv' /\ LastInv'
  BY <1>2, StoreMemory, StoreLast
<1>3. BottomLoc \in 0..Capacity /\ \A i \in Nat : Slot(i) \in 0..Capacity
  BY SlotType, DequeAssumption DEF BottomLoc, Slots
<1>4. owner.b \in Nat /\ owner.t \in Nat /\ owner.task \in Nat /\ bottom \in Nat
  BY DEF TypeOK
<1>5. CASE Push
  <2>1. CASE PushBegin \/ PushFull
    BY <1>1, <2>1 DEF PushBegin, PushFull, vars, memory
  <2>2. CASE PushSlot
    BY <1>2, <1>3, <1>4, <2>2 DEF PushSlot
  <2>3. CASE PushBottom
    <3>1. owner.b + 1 \in Nat
      BY <1>4
    <3> QED
      BY <1>2, <1>3, <2>3, <3>1 DEF PushBottom
  <2> QED
    BY <1>5, <2>1, <2>2, <2>3 DEF Push
<1>6. CASE Pop
  <2>1. CASE PopNone \/ PopEmpty \/ PopTake \/ PopLast \/ PopWin \/ PopLose
    BY <1>1, <2>1 DEF PopNone, PopEmpty, PopTake, PopLast, PopWin, PopLose, LoadTop, vars, memory
  <2>2. CASE PopBegin
    <3>1. bottom - 1 \in Nat
      BY <1>4, <2>2 DEF PopBegin
    <3> QED
      BY <1>2, <1>3, <2>2, <3>1 DEF PopBegin
  <2>3. CASE PopRestore
    BY <1>2, <1>3, <1>4, <2>3 DEF PopRestore
  <2> QED
    BY <1>6, <2>1, <2>2, <2>3 DEF Pop
<1>7. CASE Drain
  BY <1>7, DrainMemory, DrainLast
<1>8. ASSUME NEW p \in Thieves, Steal(p) PROVE MemoryInv' /\ LastInv'
  BY <1>1, <1>8 DEF Steal, StealTop, StealBottom, StealSlot, StealWin, StealFail, memory
<1> QED
  BY <1>1, <1>5, <1>6, <1>7, <1>8 DEF Next, vars, memory

\* PlaceInv holds until a Pop loses a race, overtaken or not.
LEMMA DequePlaced == Spec => [](~raceLost => PlaceInv)
<1>1. Init => PlaceInv
  <2> SUFFICES ASSUME Init PROVE PlaceInv
    OBVIOUS
  <2>1. /\ Len(pending) = 0 /\ pushed = 0 /\ top = 0 /\ bottom = 0 /\ memBottom = 0
        /\ takes = {} /\ owner.pc = "idle" /\ memBuffer = buffer
        /\ \A l \in Slots : memBuffer[l] = Garbage
        /\ \A p \in Thieves : thief[p].pc = "idle" /\ thief[p].t = 0
    BY DEF Init, OwnerIdle, ThiefIdle
  <2>2. MemoryInv /\ LastInv
    BY <2>1 DEF MemoryInv, LastInv, Init
  <2>3. \E f : f \in [Nat -> Nat]
    <3>1. [n \in Nat |-> 0] \in [Nat -> Nat]
      OBVIOUS
    <3> QED
      BY <3>1
  <2>4. ASSUME NEW f \in [Nat -> Nat] PROVE Placed(f)
    <3>1. Seen(f)
      BY <2>1 DEF Seen, PlacesInv, RisingInv, VisibleInv
    <3>2. OwnerPlaces(f)
      BY <2>1, DequeAssumption DEF OwnerPlaces, End
    <3>3. ThiefPlaces(f) /\ TakePlaces(f)
      BY <2>1 DEF ThiefPlaces, TakePlaces
    <3> QED
      BY <3>1, <3>2, <3>3 DEF Placed
  <2> QED
    BY <2>2, <2>3, <2>4 DEF PlaceInv
<1>2. TypeOK /\ (~raceLost => PlaceInv) /\ [Next]_vars => (~raceLost' => PlaceInv')
  <2> SUFFICES ASSUME TypeOK, ~raceLost => PlaceInv, [Next]_vars, ~raceLost'
               PROVE  PlaceInv'
    OBVIOUS
  <2>1. ~raceLost
    BY BrokenForGood DEF TypeOK
  <2>2. PICK f \in [Nat -> Nat] : Placed(f)
    BY <2>1 DEF PlaceInv
  <2>3. MemoryInv /\ LastInv /\ MemoryInv' /\ LastInv'
    BY <2>1, MemoryFollows DEF PlaceInv
  <2>4. ASSUME NEW g \in [Nat -> Nat], Placed(g)' PROVE PlaceInv'
    BY <2>3, <2>4 DEF PlaceInv
  <2>5. CASE UNCHANGED vars
    <3>1. /\ UNCHANGED <<top, bottom, buffer, memBottom, memBuffer, pending, owner, thief,
                         takes, pushed>>
          /\ End' = End /\ top \in Nat
      BY <2>5 DEF vars, memory, history, End, TypeOK
    <3>2. Seen(f)'
      BY <2>2, <3>1, SeenLater DEF Placed
    <3>3. OwnerPlaces(f)'
      BY <2>2, <3>1, SlotSame, GivenSame DEF Placed, OwnerPlaces, Holds
    <3> QED
      BY <2>2, <2>4, <3>1, <3>2, <3>3, ThiefKept, TakesKept DEF Placed
  <2>6. CASE Push
    <3>1. CASE PushBegin
      <4> DEFINE g == [f EXCEPT ![pushed + 1] = bottom]
      <4>1. g \in [Nat -> Nat] /\ \E h \in [Nat -> Nat] : Placed(h)'
        BY <2>2, <3>1, PushBeginPlaced
      <4> QED
        BY <2>4, <4>1
    <3> QED
      BY <2>2, <2>3, <2>4, <2>5, <2>6, <3>1, PushSlotPlaced, PushBottomPlaced DEF Push, PushFull
  <2>7. CASE Pop
    <3>1. ~PopLose
      BY DEF PopLose
    <3> QED
      BY <2>2, <2>3, <2>4, <2>5, <2>7, <3>1, PopBeginPlaced, PopLoadPlaced, PopTakePlaced,
         PopWinPlaced, PopRestorePlaced DEF Pop, PopNone
  <2>8. CASE Drain
    BY <2>2, <2>4, <2>8, DrainPlaced
  <2>9. ASSUME NEW p \in Thieves, Steal(p) PROVE PlaceInv'
    BY <2>2, <2>4, <2>9, StealPlaced, StealWinPlaced DEF Steal
  <2> QED
    BY <2>5, <2>6, <2>7, <2>8, <2>9 DEF Next
<1> QED
  BY <1>1, <1>2, DequeTypes, PTL DEF Spec

(***************************************************************************)
(* Whatever the number of thieves, the size of the ring and the depth of   *)
(* the store buffer: until a Pop loses the race for a last element, a task *)
(* that is handed out twice went to the owner once and to one thief once,  *)
(* even if Pops load top before their stores to bottom are in memory.      *)
(***************************************************************************)
THEOREM DequeCollides == Spec => []OnlyOwnerAndThiefCollide
<1>1. TypeOK /\ (~raceLost => PlaceInv) => OnlyOwnerAndThiefCollide
  <2> SUFFICES ASSUME TypeOK, PlaceInv, NEW x \in takes, NEW y \in takes,
                      x.task = y.task, x # y
               PROVE  (x.by = Owner) # (y.by = Owner)
    BY DEF OnlyOwnerAndThiefCollide
  <2>1. PICK f \in [Nat -> Nat] : Placed(f)
    BY DEF PlaceInv
  <2>2. x.at = y.at /\ ~x.again /\ ~y.again
    BY <2>1 DEF Placed, TakePlaces, Holds
  <2>3. ~(x.by # Owner /\ y.by # Owner)
    BY <2>1, <2>2 DEF Placed, TakePlaces
  <2>4. ~(x.by = Owner /\ y.by = Owner)
    <3>1. /\ x \in [by : {Owner} \cup Thieves, at : Nat, task : Nat, again : BOOLEAN]
          /\ y \in [by : {Owner} \cup Thieves, at : Nat, task : Nat, again : BOOLEAN]
      BY DEF TypeOK
    <3>2. x.again = y.again
      BY <2>2, <3>1
    <3> QED
      BY <2>2, <3>1, <3>2
  <2> QED
    BY <2>3, <2>4
<1> QED
  BY <1>1, DequeTypes, DequePlaced, PTL
=============================================================================
