-------------------------- MODULE ConcurrentQueue --------------------------
(***************************************************************************)
(* moodycamel::ConcurrentQueue (concurrent_queue.h, vendored) as this      *)
(* program uses it: enqueue(task) and try_dequeue(task) without tokens,    *)
(* for WorkerLoop's global queue and MessageLoop's tasks.                  *)
(*                                                                         *)
(* Each enqueueing thread has a sub-queue (an ImplicitProducer) of its own,*)
(* found by ProducerTable: blocks of BlockSize cells, an index from the    *)
(* first cell's number to the block, and four counters.  A dequeuer claims *)
(* a cell by counting itself in before it knows that there is one; if there*)
(* was none it counts itself out with dequeueOvercommit.  An emptied block *)
(* of the initial pool goes to FreeList, any other back to the heap.       *)
(*                                                                         *)
(* Every access to memory that another thread writes is a step, with these *)
(* joined: the stores that only become visible with a later one, the test  *)
(* of a pool index and its increment, the two counters of size_approx, the *)
(* first loads of dequeue (tailIndex and dequeueOvercommit: both are       *)
(* relaxed, and only decide whether it is worth to claim), and the load of *)
(* a block index with that of its tail (any tail of that index will do).   *)
(* Steps are sequentially consistent.  Counters are 64 bits wide and do    *)
(* not wrap.                                                               *)
(***************************************************************************)
EXTENDS Naturals, Sequences, FiniteSets

CONSTANTS Threads, Hash, InitialSizes, MaxProducers, MaxTables,
          BlockSize,   \* BLOCK_SIZE
          IndexSize,   \* IMPLICIT_INITIAL_INDEX_SIZE
          PoolSize,    \* bound: initialBlockPoolSize
          MaxHeap,     \* bound: blocks on the heap at one time
          MaxHeaders,  \* bound: block indexes of one sub-queue
          Plans        \* bound: what is checked from which state, see Init

ASSUME QueueAssumption == /\ IsFiniteSet(Threads)
                          /\ {"invalid_thread_id", "invalid_thread_id2"} \cap Threads = {}
                          /\ Hash \in [Threads -> Nat]
                          /\ InitialSizes \subseteq Nat \ {0}
                          /\ MaxProducers \in Nat
                          /\ Cardinality(Threads) <= MaxProducers
                          /\ MaxTables \in Nat \ {0}
                          /\ BlockSize \in Nat \ {0, 1}
                          /\ IndexSize \in Nat \ {0, 1}
                          /\ PoolSize \in Nat
                          /\ MaxHeap \in Nat
                          /\ MaxHeaders \in Nat \ {0}
                          /\ Plans \subseteq
                               [new: BOOLEAN, pool: 0..PoolSize, size: InitialSizes,
                                of: [Threads -> [enqueues: Nat, dequeues: Nat, exits: Nat]]]

Null == 0
Pool == 1..PoolSize
Heap == (PoolSize+1)..(PoolSize+MaxHeap)
Blocks == Pool \cup Heap
NoKey == 1        \* INVALID_BLOCK_BASE, which is no block's first index
Nothing == <<>>   \* a cell that holds no element

VARIABLES tables, hashCount, resizing, created, inactive,   \* ProducerTable
          step, main, newCount, mine,
          freeListHead, refs, should, next,                 \* FreeList
          at, head, node, nxt, seen, getting,
          sub,        \* the sub-queues
          cell,       \* the cells of each block
          dequeued,   \* elementsCompletelyDequeued of each block
          poolIndex,  \* initialBlockPoolIndex
          heap,       \* the blocks that are allocated on the heap
          my,         \* the threads: where they are in a call, and their locals
          plan,       \* what each thread may still do
          freed       \* how often ~ConcurrentQueue frees each block, <<>> before

Table == INSTANCE ProducerTable
Free == INSTANCE FreeList WITH Nodes <- Pool

tableVars == <<tables, hashCount, resizing, created, inactive, step, main, newCount, mine>>
freeVars == <<freeListHead, refs, should, next, at, head, node, nxt, seen, getting>>
blocks == <<cell, dequeued, poolIndex, heap>>
vars == <<tableVars, freeVars, sub, blocks, my, plan, freed>>

Producers == Table!Producers

\* ImplicitProducer(): a block index of IndexSize unused entries.
NewSub ==
    [tailIndex |-> 0, headIndex |-> 0, optimistic |-> 0, overcommit |-> 0,
     tailBlock |-> Null,
     entries |-> [e \in 1..IndexSize |-> [key |-> NoKey, value |-> Null]],
     headers |-> <<[tail |-> IndexSize - 1,
                    index |-> [i \in 0..(IndexSize-1) |-> i + 1]]>>]

Idle == [pc |-> "out", p |-> 0, i |-> 0, over |-> 0, tail |-> 0, best |-> 0,
         size |-> 0, found |-> 0, entry |-> 0, block |-> Null, header |-> 0,
         alone |-> FALSE, had |-> FALSE]

\* A plan: the sizes of the pool and of the first table, whether the queue is
\* new, and how often each thread enqueues, dequeues and exits from then on.
InitNew == /\ Table!Init
           /\ Table!Capacity(1) = plan.size
           /\ Free!Init
           /\ sub = [p \in Producers |-> NewSub]
           /\ dequeued = [b \in Blocks |-> 0]
           /\ poolIndex = 0

\* The state once the threads, one after another, have each filled a block and
\* emptied it again: the pool's blocks are on the free list.
InitUsed ==
    LET Order == CHOOSE f \in [Threads -> 1..Cardinality(Threads)] :
                          \A t, u \in Threads : t # u => f[t] # f[u]
        size == plan.size
        Left(p) == [NewSub EXCEPT !.tailIndex = BlockSize, !.headIndex = BlockSize,
                                  !.optimistic = BlockSize, !.tailBlock = p,
                                  !.entries[1].key = 0, !.headers[1].tail = 0]
        Table1(place) ==
            [i \in 0..(size-1) |->
               IF \E t \in Threads : place[t] = i
               THEN LET t == CHOOSE u \in Threads : place[u] = i
                    IN  [key |-> t, value |-> Order[t]]
               ELSE Table!Empty(size)[i]]
    IN  /\ \E place \in [Threads -> 0..(size-1)] :
              /\ \A t, u \in Threads : t # u => place[t] # place[u]
              /\ \A t \in Threads : \E k \in 0..(size-1) :
                    /\ place[t] = (Hash[t] + k) % size
                    /\ \A j \in 0..(k-1) : \E u \in Threads :
                          Order[u] < Order[t] /\ place[u] = (Hash[t] + j) % size
              /\ tables = <<Table1(place)>>
        /\ hashCount = Cardinality(Threads)
        /\ resizing = FALSE
        /\ created = Cardinality(Threads)
        /\ inactive = [p \in Producers |-> FALSE]
        /\ step = [t \in Threads |-> "out"]
        /\ main = [t \in Threads |-> 1]
        /\ newCount = [t \in Threads |-> Order[t]]
        /\ mine = [t \in Threads |-> Order[t]]
        /\ freeListHead = plan.pool
        /\ refs = [b \in Pool |-> IF b <= plan.pool THEN 1 ELSE 0]
        /\ should = [b \in Pool |-> FALSE]
        /\ next = [b \in Pool |-> IF b <= plan.pool THEN b - 1 ELSE Null]
        /\ Free!LocalsInit
        /\ sub = [p \in Producers |-> Left(p)]
        /\ dequeued = [b \in Blocks |-> BlockSize]
        /\ poolIndex = plan.pool

Init == /\ plan \in Plans
        /\ IF plan.new THEN InitNew ELSE InitUsed
        /\ cell = [b \in Blocks |-> [i \in 0..(BlockSize-1) |-> Nothing]]
        /\ heap = {}
        /\ my = [t \in Threads |-> Idle]
        /\ freed = <<>>

-----------------------------------------------------------------------------
(* A sub-queue.                                                            *)

FirstOf(i) == i - (i % BlockSize)
Header(p) == sub[p].headers[Len(sub[p].headers)]
Size(index) == Cardinality(DOMAIN index)
NextSlot(h) == (h.tail + 1) % Size(h.index)

\* get_block_index_entry_for_index: the entry whose key is i's block, counted
\* back from the header's tail and from the key that the tail's entry has now.
EntryFor(p, h, tail, i) ==
    LET n == Size(h.index)
        back == (sub[p].entries[h.index[tail]].key - FirstOf(i)) \div BlockSize
    IN  h.index[(tail + n - (back % n)) % n]

\* Mutant: the entries are copied from the start of the old index.
DoubledFlat(s) ==
    LET h == s.headers[Len(s.headers)]
        n == Size(h.index)
        m == Len(s.entries)
    IN  [s EXCEPT
          !.entries = @ \o [e \in 1..n |-> [key |-> NoKey, value |-> Null]],
          !.headers = Append(@,
              [tail |-> n - 1,
               index |-> [i \in 0..(2*n-1) |->
                            IF i < n THEN h.index[i] ELSE m + 1 + i - n]])]

\* new_block_index: twice the size, the old entries first, in their order from
\* the one after the tail.
Doubled(s) ==
    LET h == s.headers[Len(s.headers)]
        n == Size(h.index)
        m == Len(s.entries)
    IN  [s EXCEPT
          !.entries = @ \o [e \in 1..n |-> [key |-> NoKey, value |-> Null]],
          !.headers = Append(@,
              [tail |-> n - 1,
               index |-> [i \in 0..(2*n-1) |->
                            IF i < n THEN h.index[(h.tail + 1 + i) % n]
                                     ELSE m + 1 + i - n]])]

\* The header's tail moves on to entry e, which gets the key i.
WithEntry(s, e, i) == [s EXCEPT !.entries[e].key = i,
                                !.headers[Len(s.headers)].tail = NextSlot(s.headers[Len(s.headers)])]

\* rewind_block_index_tail, and the entry's value goes.
Rewound(s, e) ==
    LET h == Len(s.headers)
        n == Size(s.headers[h].index)
    IN  [s EXCEPT !.headers[h].tail = (@ + n - 1) % n, !.entries[e].value = Null]

-----------------------------------------------------------------------------
(* enqueue.                                                                *)

Set(t, r) == my' = [my EXCEPT ![t] = r]
Go(t, label) == my' = [my EXCEPT ![t].pc = label]
Finish(t) == Set(t, Idle)

CallEnqueue(t) ==
    /\ my[t].pc = "out" /\ step[t] = "out" /\ freed = <<>>
    /\ plan.of[t].enqueues > 0
    /\ plan' = [plan EXCEPT !.of[t].enqueues = @ - 1]
    /\ Table!Call(t)
    /\ Go(t, "lookup")
    /\ UNCHANGED <<freeVars, sub, blocks, freed>>

\* get_or_add_implicit_producer and the callback of an exiting thread.
TableStep(t) == Table!Step(t) /\ UNCHANGED <<freeVars, sub, blocks, my, plan, freed>>
FreeStep(t) == Free!Step(t) /\ UNCHANGED <<tableVars, sub, blocks, my, plan, freed>>

\* enqueue fails without a producer.
FailEnqueue(t) ==
    /\ my[t].pc = "lookup" /\ step[t] = "out"
    /\ mine[t] = Table!NoProducer
    /\ Finish(t)
    /\ UNCHANGED <<tableVars, freeVars, sub, blocks, plan, freed>>

\* t has found its producer p, whose tail is at the first cell of a block.
StartsBlock(t, p) == /\ my[t].pc = "lookup" /\ step[t] = "out"
                     /\ p = mine[t] /\ p # Table!NoProducer
                     /\ sub[p].tailIndex % BlockSize = 0

\* insert_block_index_entry: the entry after the tail if it was never used or
\* its block is gone, else one of a new index; enqueue fails if there is no
\* memory for that.
InsertEntry(t) ==
    /\ StartsBlock(t, mine[t])
    /\ LET p == mine[t]
           h == Header(p)
           e == h.index[NextSlot(h)]
           unused == sub[p].entries[e].key = NoKey \/ sub[p].entries[e].value = Null
       IN  \/ /\ unused
              /\ sub' = [sub EXCEPT ![p] = WithEntry(@, e, sub[p].tailIndex)]
              /\ Set(t, [Idle EXCEPT !.pc = "pool", !.entry = e])
           \/ /\ ~unused /\ Len(sub[p].headers) < MaxHeaders
              /\ sub' = [sub EXCEPT ![p] = Doubled(@)]
              /\ UNCHANGED my
           \/ /\ ~unused
              /\ Finish(t)
              /\ UNCHANGED sub
    /\ UNCHANGED <<tableVars, freeVars, blocks, plan, freed>>

\* requisition_block: the initial pool, while it lasts, then the free list.
TakeFromPool(t) ==
    /\ my[t].pc = "pool"
    /\ \/ /\ poolIndex < plan.pool
          /\ poolIndex' = poolIndex + 1
          /\ Set(t, [my[t] EXCEPT !.pc = "put", !.block = poolIndex + 1])
          /\ UNCHANGED freeVars
       \/ /\ poolIndex >= plan.pool
          /\ Free!CallGet(t)
          /\ Go(t, "get")
          /\ UNCHANGED poolIndex
    /\ UNCHANGED <<tableVars, sub, cell, dequeued, heap, plan, freed>>

\* What the free list gave, or a block from the heap; if that has none the
\* entry is given back and enqueue fails.
TakeBlock(t) ==
    /\ my[t].pc = "get" /\ at[t] = "out"
    /\ \/ /\ node[t] # Null
          /\ Set(t, [my[t] EXCEPT !.pc = "put", !.block = node[t]])
          /\ UNCHANGED <<heap, sub>>
       \/ /\ node[t] = Null
          /\ \E b \in Heap \ heap : /\ heap' = heap \cup {b}
                                    /\ Set(t, [my[t] EXCEPT !.pc = "put", !.block = b])
          /\ UNCHANGED sub
       \/ /\ node[t] = Null
          /\ sub' = [sub EXCEPT ![mine[t]] = Rewound(@, my[t].entry)]
          /\ Finish(t)
          /\ UNCHANGED heap
    /\ UNCHANGED <<tableVars, freeVars, cell, dequeued, poolIndex, plan, freed>>

\* An element is named by its sub-queue and its number there.
Written(b, p, i) == [cell EXCEPT ![b][i % BlockSize] = <<p, i>>]

\* reset_empty, the entry's value, tailBlock, the element; then the store of
\* tailIndex, which shows them all.
PutFirst(t) ==
    /\ my[t].pc = "put"
    /\ LET p == mine[t]  b == my[t].block  i == sub[p].tailIndex IN
       /\ dequeued' = [dequeued EXCEPT ![b] = 0]
       /\ cell' = Written(b, p, i)
       /\ sub' = [sub EXCEPT ![p].entries[my[t].entry].value = b,
                             ![p].tailBlock = b, ![p].tailIndex = i + 1]
    /\ Finish(t)
    /\ UNCHANGED <<tableVars, freeVars, poolIndex, heap, plan, freed>>

\* The element goes to the next cell of tailBlock.
Put(t) ==
    /\ my[t].pc = "lookup" /\ step[t] = "out"
    /\ mine[t] # Table!NoProducer
    /\ LET p == mine[t]  i == sub[p].tailIndex IN
       /\ i % BlockSize # 0
       /\ cell' = Written(sub[p].tailBlock, p, i)
       /\ sub' = [sub EXCEPT ![p].tailIndex = i + 1]
    /\ Finish(t)
    /\ UNCHANGED <<tableVars, freeVars, dequeued, poolIndex, heap, plan, freed>>

-----------------------------------------------------------------------------
(* try_dequeue.                                                            *)

Dequeuing(t) == my[t].pc \in {"score", "load", "test", "claim", "check", "excess",
                              "take index", "find", "entry", "move", "unlink", "add"}
Holds(p) == sub[p].headIndex < sub[p].tailIndex

\* alone and had are history: no other dequeue has been under way since the
\* call began, and the queue held an element then.
CallDequeue(t) ==
    /\ my[t].pc = "out" /\ step[t] = "out" /\ freed = <<>>
    /\ plan.of[t].dequeues > 0
    /\ plan' = [plan EXCEPT !.of[t].dequeues = @ - 1]
    /\ created > 0
    /\ my' = [u \in Threads |->
                IF u = t THEN [Idle EXCEPT
                                 !.pc = "score", !.p = created,
                                 !.alone = \A v \in Threads \ {t} : ~Dequeuing(v),
                                 !.had = \E p \in Producers : Holds(p)]
                ELSE [my[u] EXCEPT !.alone = FALSE]]
    /\ UNCHANGED <<tableVars, freeVars, sub, blocks, freed>>

\* size_approx of one producer after another, up to three that hold something;
\* the fullest is tried first.
Score(t) ==
    /\ my[t].pc = "score"
    /\ LET p == my[t].p
           size == IF Holds(p) THEN sub[p].tailIndex - sub[p].headIndex ELSE 0
           found == IF size > 0 THEN my[t].found + 1 ELSE my[t].found
           best == IF size > my[t].size THEN p ELSE my[t].best
       IN  IF p > 1 /\ found < 3
           THEN Set(t, [my[t] EXCEPT !.p = p - 1, !.found = found, !.best = best,
                                     !.size = IF size > @ THEN size ELSE @])
           ELSE IF found = 0 THEN Finish(t)
           ELSE Set(t, [my[t] EXCEPT !.pc = "load", !.p = best, !.best = best,
                                     !.found = 0, !.size = 0])
    /\ UNCHANGED <<tableVars, freeVars, sub, blocks, plan, freed>>

\* A producer that had nothing: after the best one all others in the order of
\* the list as it is now (found is set on that second walk).
Onwards(t) ==
    LET from == IF my[t].found = 0 THEN created + 1 ELSE my[t].p
        rest == {q \in 1..created : q < from /\ q # my[t].best}
    IN  IF rest = {} THEN Finish(t)
        ELSE Set(t, [my[t] EXCEPT !.pc = "load", !.found = 1, !.i = 0, !.over = 0, !.tail = 0,
                                  !.p = CHOOSE q \in rest : \A r \in rest : r <= q])

\* ImplicitProducer::dequeue: tailIndex and dequeueOvercommit; then a first test.
LoadOver(t) ==
    /\ my[t].pc = "load"
    /\ Set(t, [my[t] EXCEPT !.pc = "test", !.tail = sub[my[t].p].tailIndex,
                            !.over = sub[my[t].p].overcommit])
    /\ UNCHANGED <<tableVars, freeVars, sub, blocks, plan, freed>>

TestOptimistic(t) ==
    /\ my[t].pc = "test"
    /\ IF sub[my[t].p].optimistic < my[t].tail + my[t].over
       THEN Go(t, "claim") ELSE Onwards(t)
    /\ UNCHANGED <<tableVars, freeVars, sub, blocks, plan, freed>>

Claim(t) ==
    /\ my[t].pc = "claim"
    /\ Set(t, [my[t] EXCEPT !.pc = "check", !.i = sub[my[t].p].optimistic])
    /\ sub' = [sub EXCEPT ![my[t].p].optimistic = @ + 1]
    /\ UNCHANGED <<tableVars, freeVars, blocks, plan, freed>>

\* Mutant: the claim is compared with what is overcommitted by now.
CheckLate(t) ==
    /\ my[t].pc = "check"
    /\ Go(t, IF my[t].i < sub[my[t].p].tailIndex + sub[my[t].p].overcommit
             THEN "take index" ELSE "excess")
    /\ UNCHANGED <<tableVars, freeVars, sub, blocks, plan, freed>>

\* The tail again: is there an element for this claim?
Check(t) ==
    /\ my[t].pc = "check"
    /\ Go(t, IF my[t].i < sub[my[t].p].tailIndex + my[t].over
             THEN "take index" ELSE "excess")
    /\ UNCHANGED <<tableVars, freeVars, sub, blocks, plan, freed>>

\* Mutant: a claim without an element is not counted out.
ExcessForgotten(t) ==
    /\ my[t].pc = "excess"
    /\ Onwards(t)
    /\ UNCHANGED <<tableVars, freeVars, sub, blocks, plan, freed>>

Excess(t) ==
    /\ my[t].pc = "excess"
    /\ sub' = [sub EXCEPT ![my[t].p].overcommit = @ + 1]
    /\ Onwards(t)
    /\ UNCHANGED <<tableVars, freeVars, blocks, plan, freed>>

TakeIndex(t) ==
    /\ my[t].pc = "take index"
    /\ Set(t, [my[t] EXCEPT !.pc = "find", !.i = sub[my[t].p].headIndex])
    /\ sub' = [sub EXCEPT ![my[t].p].headIndex = @ + 1]
    /\ UNCHANGED <<tableVars, freeVars, blocks, plan, freed>>

\* The index and its tail; then the key there, the entry and its block.
FindIndex(t) ==
    /\ my[t].pc = "find"
    /\ Set(t, [my[t] EXCEPT !.pc = "entry", !.header = Len(sub[my[t].p].headers),
                            !.tail = Header(my[t].p).tail])
    /\ UNCHANGED <<tableVars, freeVars, sub, blocks, plan, freed>>

FindEntry(t) ==
    /\ my[t].pc = "entry"
    /\ LET p == my[t].p
           e == EntryFor(p, sub[p].headers[my[t].header], my[t].tail, my[t].i)
       IN  Set(t, [my[t] EXCEPT !.pc = "move", !.entry = e, !.block = sub[p].entries[e].value])
    /\ UNCHANGED <<tableVars, freeVars, sub, blocks, plan, freed>>

\* element = std::move(el), and set_empty.
Move(t) ==
    /\ my[t].pc = "move"
    /\ LET b == my[t].block IN
       /\ cell' = [cell EXCEPT ![b][my[t].i % BlockSize] = Nothing]
       /\ dequeued' = [dequeued EXCEPT ![b] = @ + 1]
       /\ IF dequeued[b] = BlockSize - 1 THEN Go(t, "unlink") ELSE Finish(t)
    /\ UNCHANGED <<tableVars, freeVars, sub, poolIndex, heap, plan, freed>>

\* The emptied block leaves the index, for the free list or for the heap.
Unlink(t) ==
    /\ my[t].pc = "unlink"
    /\ LET b == my[t].block IN
       /\ sub' = [sub EXCEPT ![my[t].p].entries[my[t].entry].value = Null]
       /\ IF b \in Heap
          THEN /\ heap' = heap \ {b}
               /\ Finish(t)
               /\ UNCHANGED freeVars
          ELSE /\ Free!CallAdd(t, b)
               /\ Go(t, "add")
               /\ UNCHANGED heap
    /\ UNCHANGED <<tableVars, cell, dequeued, poolIndex, plan, freed>>

EndDequeue(t) ==
    /\ my[t].pc = "add" /\ at[t] = "out"
    /\ Finish(t)
    /\ UNCHANGED <<tableVars, freeVars, sub, blocks, plan, freed>>

-----------------------------------------------------------------------------
(* A thread ends, outside of any call; ~ConcurrentQueue.                   *)

ThreadExit(t) ==
    /\ my[t].pc = "out" /\ freed = <<>>
    /\ plan.of[t].exits > 0
    /\ plan' = [plan EXCEPT !.of[t].exits = @ - 1]
    /\ Table!Exit(t)
    /\ UNCHANGED <<freeVars, sub, blocks, my, freed>>

\* Mutant: the last block goes with the walk like the others.
LeftByWalk(p) ==
    LET s == sub[p]
        h == Header(p)
        BlockOf(i) == s.entries[EntryFor(p, h, h.tail, i)].value
    IN  {BlockOf(i) : i \in s.headIndex..(s.tailIndex - 1)}

\* ~ImplicitProducer: the blocks that its walk from head to tail leaves behind,
\* and the last one if an element was left or it has a free cell.
LeftBy(p) ==
    LET s == sub[p]
        h == Header(p)
        BlockOf(i) == s.entries[EntryFor(p, h, h.tail, i)].value
        left == s.headIndex..(s.tailIndex - 1)
        passed == {BlockOf(i) : i \in {j \in left : FirstOf(j) # FirstOf(s.tailIndex - 1)}}
    IN  IF s.tailBlock # Null /\ (left # {} \/ s.tailIndex % BlockSize # 0)
        THEN passed \cup {s.tailBlock} ELSE passed

\* When no thread uses the queue any more.
Destroy ==
    /\ freed = <<>>
    /\ \A t \in Threads : /\ my[t].pc = "out" /\ step[t] = "out"
                          /\ plan.of[t].enqueues = 0 /\ plan.of[t].dequeues = 0
    /\ freed' = [b \in Blocks |-> Cardinality({p \in 1..created : b \in LeftBy(p)})]
    /\ UNCHANGED <<tableVars, freeVars, sub, blocks, my, plan>>

ThreadStep(t) ==
    \/ CallEnqueue(t) \/ FailEnqueue(t) \/ InsertEntry(t) \/ TakeFromPool(t)
    \/ TakeBlock(t) \/ PutFirst(t) \/ Put(t)
    \/ CallDequeue(t) \/ Score(t) \/ LoadOver(t) \/ TestOptimistic(t)
    \/ Claim(t) \/ Check(t) \/ Excess(t) \/ TakeIndex(t) \/ FindIndex(t)
    \/ FindEntry(t) \/ Move(t) \/ Unlink(t) \/ EndDequeue(t)
    \/ ThreadExit(t) \/ TableStep(t) \/ FreeStep(t)

Next == Destroy \/ \E t \in Threads : ThreadStep(t)

Spec == Init /\ [][Next]_vars

-----------------------------------------------------------------------------

\* A dequeuer that goes on to take an index finds one below the tail: however
\* claims, overcommits and new elements interleave, no more indexes are taken
\* than elements were published.
ClaimsAreBacked == \A p \in Producers : sub[p].headIndex <= sub[p].tailIndex

\* When a dequeuer is about to move an element out, the block its search found
\* holds the element that was put at its index: the block was neither freed nor
\* reused, nor its entry overwritten, while the dequeuer was on its way.
ReadsWhatWasPut ==
    \A t \in Threads : my[t].pc = "move" =>
        cell[my[t].block][my[t].i % BlockSize] = <<my[t].p, my[t].i>>

\* Each block of the pool is in one place at a time, and in some place: not yet
\* handed out, on the free list, named by a sub-queue's index, in the hands of
\* the thread that took it or gives it back, or left to its last reader.
OnePlace ==
    \A b \in 1..plan.pool :
        LET namedBy == {p \in Producers : \E e \in DOMAIN sub[p].entries :
                                            sub[p].entries[e].value = b}
            heldBy == {t \in Threads :
                         \/ my[t].pc = "put" /\ my[t].block = b
                         \/ my[t].pc = "get" /\ at[t] = "out" /\ node[t] = b
                         \/ Free!Popping(t, b) \/ Free!Pushing(t, b)}
            One(condition) == IF condition THEN 1 ELSE 0
        IN  Cardinality(namedBy) + Cardinality(heldBy) + One(b > poolIndex /\ b <= plan.pool)
              + One(b \in Free!Listed) + One(Free!Inheriting(b)) = 1

\* No two threads write to the same sub-queue, whatever threads come and go
\* and however the tables grow meanwhile.
OneWriter == \A t, u \in Threads : t # u /\ mine[t] # Table!NoProducer => mine[t] # mine[u]

\* A try_dequeue that no other one overlaps does not come back without an
\* element when the queue held one as it began.
AloneGetsOne ==
    [][\A t \in Threads :
          my[t].pc \in {"score", "test", "excess"} /\ my'[t].pc = "out"
            => ~(my[t].alone /\ my[t].had)]_vars

\* The destructor frees each block that still belongs to a sub-queue, once.
DestructorFreesOnce ==
    freed # <<>> =>
        \A b \in Blocks :
            freed[b] = Cardinality({p \in Producers : \E e \in DOMAIN sub[p].entries :
                                                        sub[p].entries[e].value = b})
=============================================================================
