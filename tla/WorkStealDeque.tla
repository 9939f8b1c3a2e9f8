--------------------------- MODULE WorkStealDeque ---------------------------
(***************************************************************************)
(* ecs/concurrency/container/deque.{h,cpp}: the work-stealing deque that   *)
(* is the local task queue of every worker thread.  One owner thread calls *)
(* Push and Pop, any number of thieves call Steal, and every access to the *)
(* shared words top, bottom and buffer is a step of its own.               *)
(*                                                                         *)
(* Pop decrements bottom with a release store and then loads top; nothing  *)
(* orders a store before a later load of another word, and on the x86-64   *)
(* builds the project targets the store may still sit in the owner's store *)
(* buffer when the load is done.  pending is that buffer: Depth = 0 gives  *)
(* the interleavings of a sequentially consistent memory, Depth > 0 those  *)
(* of a machine whose store buffer holds Depth stores.  A compare-exchange *)
(* is a locked instruction: it waits until the buffer is empty.            *)
(***************************************************************************)
EXTENDS Integers, Sequences

CONSTANTS Owner,        \* the thread the deque belongs to
          Thieves,      \* the threads that may steal
          Capacity,     \* slots of the ring (LocalTaskQueueSize)
          Depth,        \* stores the owner's store buffer can hold
          MaxTasks,     \* bound: tasks pushed in a behaviour
          MaxTop        \* bound: no operation starts once top is this high

ASSUME DequeAssumption == /\ Capacity \in Nat \ {0}
                          /\ Depth \in Nat
                          /\ MaxTasks \in Nat
                          /\ MaxTop \in Nat
                          /\ Owner \notin Thieves

VARIABLES top,
          bottom, buffer,       \* as the owner, their only writer, reads them
          memBottom, memBuffer, \* as memory holds them and thieves read them
          pending,              \* the owner's stores not yet in memory
          owner,                \* the owner's call in progress, with its locals
          thief,                \* each thief's call in progress
          pushed,               \* history: tasks whose Push was accepted
          takes,                \* history: who was handed what, from which index
          raceLost,             \* history: a Pop lost the race for the last one
          overtook              \* history: a Pop's load overtook its store

memory == <<bottom, buffer, memBottom, memBuffer, pending>>
history == <<pushed, takes, raceLost, overtook>>
vars == <<top, memory, owner, thief, history>>

\* Tasks are numbered in the order they are pushed.  The buffer comes from
\* resource->allocate and is not cleared: 0 is what an unwritten slot holds.
Tasks == 1..MaxTasks
Garbage == 0

\* What a store can be directed at: the slots of the ring, or bottom.
Slots == 0..(Capacity - 1)
BottomLoc == Capacity

OwnerIdle == [pc |-> "idle", b |-> 0, t |-> 0, task |-> Garbage]
ThiefIdle == [pc |-> "idle", t |-> 0, task |-> Garbage]

Init == /\ top = 0
        /\ bottom = 0 /\ memBottom = 0
        /\ buffer = [i \in Slots |-> Garbage] /\ memBuffer = buffer
        /\ pending = <<>>
        /\ owner = OwnerIdle
        /\ thief = [p \in Thieves |-> ThiefIdle]
        /\ pushed = 0
        /\ takes = {}
        /\ raceLost = FALSE
        /\ overtook = FALSE

-----------------------------------------------------------------------------
(* Stores of the owner: it reads its own last store at once, memory gets   *)
(* the store at once (Depth = 0) or when the store buffer drains.          *)

SetOwn(loc, val) ==
    /\ bottom' = IF loc = BottomLoc THEN val ELSE bottom
    /\ buffer' = IF loc = BottomLoc THEN buffer ELSE [buffer EXCEPT ![loc] = val]

SetMem(loc, val) ==
    /\ memBottom' = IF loc = BottomLoc THEN val ELSE memBottom
    /\ memBuffer' = IF loc = BottomLoc THEN memBuffer
                    ELSE [memBuffer EXCEPT ![loc] = val]

Store(loc, val) ==
    /\ SetOwn(loc, val)
    /\ \/ /\ Depth = 0
          /\ SetMem(loc, val)
          /\ UNCHANGED pending
       \/ /\ Len(pending) < Depth
          /\ pending' = Append(pending, [loc |-> loc, val |-> val])
          /\ UNCHANGED <<memBottom, memBuffer>>

\* The oldest pending store reaches memory, at any time.
Drain ==
    /\ pending # <<>>
    /\ SetMem(Head(pending).loc, Head(pending).val)
    /\ pending' = Tail(pending)
    /\ UNCHANGED <<top, bottom, buffer, owner, thief, history>>

\* The slot an index of type size_t falls in.
Slot(i) == i % Capacity

\* The value at index is returned to actor, perhaps not for the first time.
Given(actor, value) == \E x \in takes : x.by = actor /\ x.task = value
Receipt(actor, index, value) ==
    [by |-> actor, at |-> index, task |-> value, again |-> Given(actor, value)]
Take(actor, index, value) == takes' = takes \cup {Receipt(actor, index, value)}

-----------------------------------------------------------------------------
(* Push(ptr), owner only.                                                  *)

\* Mutant: the full ring takes one more, over the slot at top.
HasRoomOffByOne(b, t) == b >= t /\ b - t <= Capacity

\* ~(b - t >= capacity) on size_t: with b < t the difference wraps around
\* to a huge number, so the deque also counts as full.
HasRoom(b, t) == b >= t /\ b - t < Capacity

PushBegin ==
    /\ owner.pc = "idle"
    /\ pushed < MaxTasks
    /\ HasRoom(bottom, top)
    /\ owner' = [pc |-> "pushSlot", b |-> bottom, t |-> top,
                 task |-> pushed + 1]
    /\ pushed' = pushed + 1
    /\ UNCHANGED <<top, memory, thief, takes, raceLost, overtook>>

\* return false: the caller keeps the task.
PushFull ==
    /\ owner.pc = "idle"
    /\ ~HasRoom(bottom, top)
    /\ UNCHANGED vars

PushSlot ==
    /\ owner.pc = "pushSlot"
    /\ Store(Slot(owner.b), owner.task)
    /\ owner' = [owner EXCEPT !.pc = "pushBottom"]
    /\ UNCHANGED <<top, thief, history>>

PushBottom ==
    /\ owner.pc = "pushBottom"
    /\ Store(BottomLoc, owner.b + 1)
    /\ owner' = OwnerIdle
    /\ UNCHANGED <<top, thief, history>>

Push == PushBegin \/ PushFull \/ PushSlot \/ PushBottom

-----------------------------------------------------------------------------
(* Pop(), owner only.                                                      *)

\* if (b == 0) return nullptr;
PopNone ==
    /\ owner.pc = "idle"
    /\ bottom = 0
    /\ UNCHANGED vars

\* Mutant: the early return for b == 0 is gone.
PopBeginUnguarded ==
    /\ owner.pc = "idle"
    /\ top < MaxTop
    /\ Store(BottomLoc, bottom - 1)
    /\ owner' = [OwnerIdle EXCEPT !.pc = "popTop", !.b = bottom - 1]
    /\ UNCHANGED <<top, thief, history>>

\* b = b - 1; bottom.store(b)
PopBegin ==
    /\ owner.pc = "idle"
    /\ top < MaxTop
    /\ bottom # 0
    /\ Store(BottomLoc, bottom - 1)
    /\ owner' = [OwnerIdle EXCEPT !.pc = "popTop", !.b = bottom - 1]
    /\ UNCHANGED <<top, thief, history>>

\* t = top.load().  With the store of PopBegin still in the store buffer,
\* thieves go on seeing a bottom above the one the owner goes by.
LoadTop == /\ owner.pc = "popTop"
           /\ overtook' = (overtook \/ pending # <<>>)
           /\ UNCHANGED <<top, memory, thief, pushed, raceLost>>

\* if (b < t): bottom is to go back to t.
PopEmpty ==
    /\ LoadTop
    /\ owner.b < top
    /\ owner' = [owner EXCEPT !.pc = "popRestore", !.t = top]
    /\ UNCHANGED takes

\* Mutant: the last element is taken without the exchange.
PopTakeLast ==
    /\ LoadTop
    /\ owner.b >= top
    /\ Take(Owner, owner.b, buffer[Slot(owner.b)])
    /\ owner' = OwnerIdle

\* if (b > t) return task;
PopTake ==
    /\ LoadTop
    /\ owner.b > top
    /\ Take(Owner, owner.b, buffer[Slot(owner.b)])
    /\ owner' = OwnerIdle

\* last element, need to compete with stealers
PopLast ==
    /\ LoadTop
    /\ owner.b = top
    /\ owner' = [owner EXCEPT !.pc = "popCas", !.t = top,
                              !.task = buffer[Slot(owner.b)]]
    /\ UNCHANGED takes

\* The exchange succeeds; bottom is to become t + 1.
PopWin ==
    /\ owner.pc = "popCas"
    /\ pending = <<>>
    /\ top = owner.t
    /\ top' = owner.t + 1
    /\ Take(Owner, owner.b, owner.task)
    /\ owner' = [owner EXCEPT !.pc = "popRestore", !.t = owner.t + 1]
    /\ UNCHANGED <<memory, thief, pushed, raceLost, overtook>>

\* The exchange fails and, as compare_exchange_strong does, has left the
\* present top in t: the t + 1 that bottom is to become is one past top.
PopLose ==
    /\ owner.pc = "popCas"
    /\ pending = <<>>
    /\ top # owner.t
    /\ owner' = [owner EXCEPT !.pc = "popRestore", !.t = top + 1]
    /\ raceLost' = TRUE
    /\ UNCHANGED <<top, memory, thief, pushed, takes, overtook>>

\* The store to bottom that ends every Pop which did not return at (b > t).
PopRestore ==
    /\ owner.pc = "popRestore"
    /\ Store(BottomLoc, owner.t)
    /\ owner' = OwnerIdle
    /\ UNCHANGED <<top, thief, history>>

Pop == \/ PopNone \/ PopBegin \/ PopEmpty \/ PopTake
       \/ PopLast \/ PopWin \/ PopLose \/ PopRestore

-----------------------------------------------------------------------------
(* Steal(), any thief p.                                                   *)

StealTop(p) ==
    /\ thief[p].pc = "idle"
    /\ top < MaxTop
    /\ thief' = [thief EXCEPT ![p] = [pc |-> "bottom", t |-> top,
                                      task |-> Garbage]]
    /\ UNCHANGED <<top, memory, owner, history>>

\* Mutant: the element at bottom itself passes for stored.
StealBottomOffByOne(p) ==
    /\ thief[p].pc = "bottom"
    /\ thief' = [thief EXCEPT ![p] = IF @.t > memBottom THEN ThiefIdle
                                     ELSE [@ EXCEPT !.pc = "slot"]]
    /\ UNCHANGED <<top, memory, owner, history>>

\* if (t >= b) return nullptr;
StealBottom(p) ==
    /\ thief[p].pc = "bottom"
    /\ thief' = [thief EXCEPT ![p] = IF @.t >= memBottom THEN ThiefIdle
                                     ELSE [@ EXCEPT !.pc = "slot"]]
    /\ UNCHANGED <<top, memory, owner, history>>

StealSlot(p) ==
    /\ thief[p].pc = "slot"
    /\ thief' = [thief EXCEPT ![p].pc = "cas",
                              ![p].task = memBuffer[Slot(thief[p].t)]]
    /\ UNCHANGED <<top, memory, owner, history>>

\* Mutant: top is stored without comparing it first.
StealWinUnchecked(p) ==
    /\ thief[p].pc = "cas"
    /\ top' = thief[p].t + 1
    /\ Take(p, thief[p].t, thief[p].task)
    /\ thief' = [thief EXCEPT ![p] = ThiefIdle]
    /\ UNCHANGED <<memory, owner, pushed, raceLost, overtook>>

StealWin(p) ==
    /\ thief[p].pc = "cas"
    /\ top = thief[p].t
    /\ top' = thief[p].t + 1
    /\ Take(p, thief[p].t, thief[p].task)
    /\ thief' = [thief EXCEPT ![p] = ThiefIdle]
    /\ UNCHANGED <<memory, owner, pushed, raceLost, overtook>>

\* top has moved on, or compare_exchange_weak failed spuriously.
StealFail(p) ==
    /\ thief[p].pc = "cas"
    /\ thief' = [thief EXCEPT ![p] = ThiefIdle]
    /\ UNCHANGED <<top, memory, owner, history>>

Steal(p) == \/ StealTop(p) \/ StealBottom(p) \/ StealSlot(p)
            \/ StealWin(p) \/ StealFail(p)

-----------------------------------------------------------------------------
Next == Push \/ Pop \/ Drain \/ \E p \in Thieves : Steal(p)

Spec == Init /\ [][Next]_vars

-----------------------------------------------------------------------------
(* Properties.                                                             *)

StoreBuffer == Seq([loc : 0..Capacity, val : Nat])

TypeOK ==
    /\ top \in Nat
    /\ bottom \in Nat /\ memBottom \in Nat
    /\ buffer \in [Slots -> Nat] /\ memBuffer \in [Slots -> Nat]
    /\ pending \in StoreBuffer
    /\ owner \in [pc : {"idle", "pushSlot", "pushBottom", "popTop", "popCas",
                        "popRestore"},
                  b : Nat, t : Nat, task : Nat]
    /\ thief \in [Thieves -> [pc : {"idle", "bottom", "slot", "cas"},
                              t : Nat, task : Nat]]
    /\ pushed \in Nat
    /\ takes \in SUBSET [by : {Owner} \cup Thieves, at : Nat, task : Nat,
                         again : BOOLEAN]
    /\ raceLost \in BOOLEAN /\ overtook \in BOOLEAN

\* One call returns a task; no second call returns it again, and none
\* returns what an unwritten slot holds.
HandedOutOnce ==
    /\ \A x, y \in takes : x.task = y.task => x = y
    /\ \A x \in takes : x.task \in 1..pushed

(***************************************************************************)
(* A task is handed out at most once, however the owner's Pop and the      *)
(* thieves' Steals interleave over a wrapping ring - as long as no Pop has *)
(* lost the race for a last element and no Pop's load of top has overtaken *)
(* its store to bottom.  These are the only two ways this deque can hand a *)
(* task out twice.                                                         *)
(***************************************************************************)
AtMostOnceUntilBroken == ~raceLost /\ ~overtook => HandedOutOnce

\* The comment at deque.cpp:78, "last element, need to compete with
\* stealers": whoever does not win the element does not get it.
AtMostOnce == HandedOutOnce

\* The indices that still hold tasks: Pop takes one away when its load of
\* top or its exchange decides, not when it stores bottom.
LiveEnd == IF owner.pc \in {"popTop", "popCas"} THEN bottom + 1 ELSE bottom
Live == [i \in 1..(LiveEnd - top) |-> buffer[Slot(top + i - 1)]]

InHand == IF owner.pc \in {"pushSlot", "pushBottom"} THEN {owner.task} ELSE {}

(***************************************************************************)
(* Every task whose Push was accepted is handed out, or is still between   *)
(* top and bottom, or is being written by the Push in progress: full and   *)
(* wrapped rings, failed exchanges and Pops that find nothing lose none.   *)
(***************************************************************************)
NothingLostUntilBroken ==
    ~raceLost /\ ~overtook =>
        1..pushed = {x.task : x \in takes} \cup InHand
                    \cup {Live[i] : i \in 1..(LiveEnd - top)}

(***************************************************************************)
(* Two thieves never get the same task, and the owner never gets one       *)
(* twice: even with the store buffer of the machine, a task handed out     *)
(* twice went once to the owner and once to a thief.                       *)
(***************************************************************************)
OnlyOwnerAndThiefCollide ==
    ~raceLost => \A x, y \in takes :
                     x.task = y.task /\ x # y => (x.by = Owner) # (y.by = Owner)

(***************************************************************************)
(* The deque implements TaskDeque: LIFO for the owner, FIFO for thieves,   *)
(* each call atomic at one of its steps.                                   *)
(***************************************************************************)
Promise == INSTANCE TaskDeque WITH
    items <- IF raceLost \/ overtook THEN <<>> ELSE Live,
    taken <- IF raceLost \/ overtook THEN {} ELSE {x.task : x \in takes},
    intact <- ~(raceLost \/ overtook)

ImplementsTaskDeque == Promise!Spec
=============================================================================
