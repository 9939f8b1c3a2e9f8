-------------------- MODULE ConcurrentQueueBlocksProofs --------------------
(***************************************************************************)
(* More proofs about ConcurrentQueue, on top of its counters and its block *)
(* index: every block is in one place, in one index, in one thread's hands *)
(* or in the free list; a dequeuer finds its element in the block that its *)
(* search leads to, however late it comes; the destructor frees each block *)
(* that is left, once.  The layers: PlaceInv (where blocks are, and who    *)
(* refers to the nodes of the free list), Reading (what is in the blocks,  *)
(* who is still to move it, and what the readers know of the index), Freed.*)
(***************************************************************************)
EXTENDS ConcurrentQueueProofs

USE DEF Null, Producers, Table!Producers

-----------------------------------------------------------------------------
(* Where each block is.                                                    *)

\* The kind of a block says where it is: never used, named in an index, with a
\* thread that alone has it (held; ready or counted on its way to the free list), in
\* the list, or left to the last of its readers.
Kinds == {"unused", "named", "held", "ready", "counted", "listed", "left"}
OwnedKinds == {"held", "ready", "counted"}
HeapKinds == {"unused", "named", "held"}

\* The block that a thread alone is responsible for, and how far it is with it.
OwnLabels == {"release", "add", "load", "link", "count", "push", "undo"}
Has(t) == IF my[t].pc = "put" THEN my[t].block
          ELSE IF (at[t] = "out" /\ my[t].pc = "get") \/ at[t] \in OwnLabels THEN node[t]
          ELSE Null
As(t) == IF at[t] \in {"load", "link", "count"} THEN "ready"
         ELSE IF at[t] \in {"release", "push", "undo"} THEN "counted"
         ELSE "held"

\* The threads that hold a reference on a node to read its next.
ReadLabels == {"next", "pop", "drop", "release"}
Reads(t, n) == node[t] = n /\ at[t] \in ReadLabels
Readers(n) == {t \in Threads : Reads(t, n)}

\* The blocks that nobody was given yet.
Fresh(b) == IF b \in Pool THEN b > poolIndex ELSE b \notin heap

\* The kinds agree with what the state says: blocks never used, the indexes, the
\* threads.
KindsAt(kind) == /\ kind \in [Blocks -> Kinds]
                 /\ \A b \in Heap : kind[b] \in HeapKinds
FreshAt(kind) == \A b \in Blocks : kind[b] = "unused" <=> Fresh(b)
NamedAt(kind) ==
    /\ \A p \in Producers : \A e, k, b : LiveAt(p, e, k, b) => b \in Blocks /\ kind[b] = "named"
    /\ \A b \in Blocks : kind[b] = "named" => \E p \in Producers : \E e, k : LiveAt(p, e, k, b)
    /\ \A p, q \in Producers : \A e, f, k, l, b : LiveAt(p, e, k, b) /\ LiveAt(q, f, l, b) => p = q /\ e = f
OwnedAt(kind) ==
    /\ \A t \in Threads : Has(t) # Null => Has(t) \in Blocks /\ kind[Has(t)] = As(t)
    /\ \A t, u \in Threads : t # u /\ Has(t) # Null => Has(t) # Has(u)
    /\ \A b \in Blocks : kind[b] \in OwnedKinds => \E t \in Threads : Has(t) = b

\* The free list from its bottom: q[0], ..., q[len - 1].
StackAt(kind, len, q) ==
    /\ len \in Nat
    /\ \A i \in 0..(len-1) : q[i] \in Pool /\ kind[q[i]] = "listed"
    /\ \A i, j \in 0..(len-1) : q[i] = q[j] => i = j
    /\ \A b \in Blocks : kind[b] = "listed" => \E i \in 0..(len-1) : q[i] = b
    /\ freeListHead = IF len = 0 THEN Null ELSE q[len-1]
    /\ \A i \in 0..(len-1) : next[q[i]] = IF i = 0 THEN Null ELSE q[i-1]

\* The references of a node: its readers' and the list's.
ListRef(k) == IF k \in {"listed", "counted"} THEN 1 ELSE 0
CountAt(kind, n) ==
    /\ refs[n] = Cardinality(Readers(n)) + ListRef(kind[n])
    /\ should[n] <=> kind[n] \in {"left", "ready"}
    /\ kind[n] = "left" => Readers(n) # {}
    /\ kind[n] = "ready" => Readers(n) = {}
CountsAt(kind) == \A n \in Pool : CountAt(kind, n)

\* What a call of the free list has read still holds where the exchange relies on
\* it.
LocalAt(t) ==
    /\ at[t] = "hold" => seen[t][1] # 0
    /\ at[t] \in {"pop", "count", "push"} => nxt[t] = next[node[t]]
LocalsOK == \A t \in Threads : LocalAt(t)

PlanOK == /\ plan = [new |-> plan.new, pool |-> plan.pool, size |-> plan.size, of |-> plan.of]
          /\ plan.pool \in 0..PoolSize /\ poolIndex \in 0..plan.pool

\* There is an assignment of kinds, and of the order of the list, that fits.
PlaceAt(kind, len, q) ==
    KindsAt(kind) /\ FreshAt(kind) /\ NamedAt(kind) /\ OwnedAt(kind) /\ StackAt(kind, len, q)
      /\ CountsAt(kind)
PlaceInv == (\E kind, len, q : PlaceAt(kind, len, q)) /\ LocalsOK /\ PlanOK

LEMMA HasApart ==
    ASSUME NEW u, Apart(u)
    PROVE  /\ Has(u)' = Has(u) /\ As(u)' = As(u)
           /\ \A n : Reads(u, n)' <=> Reads(u, n)
BY DEF Apart, FreeApart, CallApart, Has, As, Reads

\* A step of t leaves what the other threads have and read.
OthersStay(t) ==
    \A u \in Threads \ {t} : /\ Has(u)' = Has(u) /\ As(u)' = As(u)
                             /\ \A n : Reads(u, n)' <=> Reads(u, n)
                             /\ FreeApart(u)

\* What a step of t does to what threads own, if only the kinds of what it had
\* and what it has now change to or from owned ones.
LEMMA OwnedStep ==
    ASSUME NEW kind, NEW K, OwnedAt(kind), NEW t \in Threads, OthersStay(t),
           NEW h, h = Has(t), NEW g, g = Has(t)',
           \A x \in Blocks : x # h /\ x # g =>
              K[x] = kind[x] \/ (K[x] \notin OwnedKinds /\ kind[x] \notin OwnedKinds),
           g # Null => g \in Blocks /\ K[g] = As(t)' /\ (g = h \/ kind[g] \notin OwnedKinds),
           h # Null /\ h # g => K[h] \notin OwnedKinds
    PROVE  OwnedAt(K)'
<1>1. \A u : As(u) \in OwnedKinds /\ As(u)' \in OwnedKinds  BY DEF As, OwnedKinds
<1>2. \A u \in Threads \ {t} : Has(u)' = Has(u) /\ As(u)' = As(u)  BY DEF OthersStay
<1>3. \A u \in Threads \ {t} : Has(u) # Null =>
         Has(u) \in Blocks /\ kind[Has(u)] = As(u) /\ Has(u) # h /\ Has(u) # g
  BY <1>1 DEF OwnedAt
<1>4. \A u \in Threads : Has(u)' # Null => Has(u)' \in Blocks /\ K[Has(u)'] = As(u)'
  <2> SUFFICES ASSUME NEW u \in Threads, Has(u)' # Null
               PROVE  Has(u)' \in Blocks /\ K[Has(u)'] = As(u)'
    OBVIOUS
  <2>1. CASE u = t  BY <2>1
  <2>2. CASE u # t
    <3>1. Has(u)' = Has(u) /\ As(u)' = As(u)  BY <1>2, <2>2
    <3>2. Has(u) \in Blocks /\ kind[Has(u)] = As(u) /\ Has(u) # h /\ Has(u) # g
      BY <1>3, <2>2, <3>1
    <3>3. As(u) \in OwnedKinds  BY <1>1
    <3>4. K[Has(u)] = kind[Has(u)]  BY <3>2, <3>3
    <3> QED BY <3>1, <3>2, <3>4
  <2> QED BY <2>1, <2>2
<1>5. \A u, v \in Threads : u # v /\ Has(u)' # Null => Has(u)' # Has(v)'
  <2> SUFFICES ASSUME NEW u \in Threads, NEW v \in Threads, u # v, Has(u)' # Null
               PROVE  Has(u)' # Has(v)'
    OBVIOUS
  <2>1. CASE u = t  BY <1>2, <1>3, <2>1
  <2>2. CASE v = t  BY <1>2, <1>3, <2>2
  <2>3. CASE u # t /\ v # t  BY <1>2, <2>3 DEF OwnedAt
  <2> QED BY <2>1, <2>2, <2>3
<1>6. \A b \in Blocks : K[b] \in OwnedKinds => \E u \in Threads : Has(u)' = b
  <2> SUFFICES ASSUME NEW b \in Blocks, K[b] \in OwnedKinds  PROVE \E u \in Threads : Has(u)' = b
    OBVIOUS
  <2>1. CASE b = g  BY <2>1
  <2>2. CASE b # g
    <3>0. Null \notin Blocks  BY QueueAssumption DEF Blocks, Pool, Heap
    <3>1. b # h  BY <2>2, <3>0
    <3>2. K[b] = kind[b]  BY <2>2, <3>1
    <3>3. PICK u \in Threads : Has(u) = b  BY <3>2 DEF OwnedAt
    <3>4. u # t  BY <3>1, <3>3
    <3> QED BY <1>2, <3>3, <3>4
  <2> QED BY <2>1, <2>2
<1> QED BY <1>4, <1>5, <1>6 DEF OwnedAt

\* The other clauses when what they are about does not change.
LEMMA FreshSame ==
    ASSUME NEW kind, NEW K, FreshAt(kind), poolIndex' = poolIndex, heap' = heap,
           \A x \in Blocks : K[x] = "unused" <=> kind[x] = "unused"
    PROVE  FreshAt(K)'
BY DEF FreshAt, Fresh

LEMMA NamedSame ==
    ASSUME NEW kind, NEW K, NamedAt(kind), \A p \in Producers : SubLive(p),
           \A x \in Blocks : K[x] = "named" <=> kind[x] = "named"
    PROVE  NamedAt(K)'
<1>1. \A p \in Producers : \A e, k, b : LiveAt(p, e, k, b)' <=> LiveAt(p, e, k, b)
  BY DEF SubLive, SameLive, LiveAt
<1>2. \A p \in Producers : \A e, k, b : LiveAt(p, e, k, b)' => b \in Blocks /\ K[b] = "named"
  BY <1>1 DEF NamedAt
<1>3. \A b \in Blocks : K[b] = "named" => \E p \in Producers : \E e, k : LiveAt(p, e, k, b)'
  BY <1>1 DEF NamedAt
<1>4. \A p, q \in Producers : \A e, f, k, l, b :
        LiveAt(p, e, k, b)' /\ LiveAt(q, f, l, b)' => p = q /\ e = f
  <2> SUFFICES ASSUME NEW p \in Producers, NEW q \in Producers, NEW e, NEW f, NEW k, NEW l, NEW b,
                      LiveAt(p, e, k, b)', LiveAt(q, f, l, b)'
               PROVE  p = q /\ e = f
    OBVIOUS
  <2>1. LiveAt(p, e, k, b) /\ LiveAt(q, f, l, b)  BY <1>1
  <2> QED BY <2>1 DEF NamedAt
<1> QED BY <1>2, <1>3, <1>4 DEF NamedAt

LEMMA StackSame ==
    ASSUME NEW kind, NEW K, NEW len, NEW q, StackAt(kind, len, q), freeListHead' = freeListHead,
           \A n \in Pool : kind[n] = "listed" => next'[n] = next[n],
           \A x \in Blocks : K[x] = "listed" <=> kind[x] = "listed"
    PROVE  StackAt(K, len, q)'
<1>1. Pool \subseteq Blocks  BY DEF Blocks
<1> QED BY <1>1 DEF StackAt

\* Steps outside of the free list: only blocks that are not in it change kind.
Outside(kind, K) == \A x \in Blocks : K[x] = kind[x] \/ (K[x] \in HeapKinds /\ kind[x] \in HeapKinds)

\* A step beside the free list, which may move blocks between the other places.
Beside == /\ freeListHead' = freeListHead /\ refs' = refs /\ should' = should /\ next' = next
          /\ (\A n : Readers(n)' = Readers(n)) /\ LocalsOK'
LEMMA OutsideFree ==
    ASSUME Beside, NEW kind, NEW K, NEW len, NEW q, StackAt(kind, len, q),
           CountsAt(kind), Outside(kind, K)
    PROVE  StackAt(K, len, q)' /\ CountsAt(K)' /\ LocalsOK'
<1>1. freeListHead' = freeListHead /\ refs' = refs /\ should' = should /\ next' = next
  BY DEF Beside
<1>2. LocalsOK'  BY DEF Beside
<1>3. \A x \in Blocks : K[x] = "listed" <=> kind[x] = "listed"  BY DEF Outside, HeapKinds
<1>4. StackAt(K, len, q)'  BY <1>1, <1>3, StackSame
<1>5. CountsAt(K)'
  <2> SUFFICES ASSUME NEW n \in Pool  PROVE CountAt(K, n)'  BY DEF CountsAt
  <2>1. Readers(n)' = Readers(n) /\ n \in Blocks  BY DEF Beside, Blocks
  <2>2. CountAt(kind, n)  BY DEF CountsAt
  <2>3. ListRef(K[n]) = ListRef(kind[n]) /\ (K[n] = "left" <=> kind[n] = "left")
        /\ (K[n] = "ready" <=> kind[n] = "ready")
    BY <2>1 DEF ListRef, Outside, HeapKinds
  <2> QED BY <1>1, <2>1, <2>2, <2>3 DEF CountAt
<1> QED BY <1>2, <1>4, <1>5

\* A step beside the free list, or one that only calls it.
LEMMA FreeBeside == ASSUME UNCHANGED freeVars, LocalsOK  PROVE Beside
BY DEF freeVars, LocalsOK, LocalAt, Beside, Readers, Reads
LEMMA CallBeside ==
    ASSUME FreeShape, LocalsOK, NEW t \in Threads, (Free!CallGet(t) \/ \E b : Free!CallAdd(t, b)),
           \A u \in Threads \ {t} : FreeApart(u)
    PROVE  Beside /\ at[t] = "out" /\ at'[t] \in {"head", "add"}
<1>1. /\ freeListHead' = freeListHead /\ refs' = refs /\ should' = should /\ next' = next
      /\ at[t] = "out" /\ at'[t] \in {"head", "add"}
  BY DEF Free!CallGet, Free!CallAdd, Free!Jump, Free!list, FreeShape
<1>2. \A n : ~Reads(t, n) /\ ~Reads(t, n)'  BY <1>1 DEF Reads, ReadLabels
<1>3. \A n : Readers(n)' = Readers(n)
  <2>1. \A u \in Threads \ {t} : \A n : Reads(u, n)' <=> Reads(u, n)  BY DEF FreeApart, Reads
  <2> QED BY <1>2, <2>1 DEF Readers
<1>4. LocalsOK'
  <2>1. LocalAt(t)'  BY <1>1 DEF LocalAt
  <2>2. \A u \in Threads \ {t} : LocalAt(u)'  BY <1>1 DEF LocalsOK, LocalAt, FreeApart
  <2> QED BY <2>1, <2>2 DEF LocalsOK
<1> QED BY <1>1, <1>3, <1>4 DEF Beside

LEMMA NoReader ==
    ASSUME NEW n, Readers(n) = {}, NEW t \in Threads  PROVE ~Reads(t, n)
BY DEF Readers

LEMMA ReadersFinite ==
    ASSUME NEW n  PROVE IsFiniteSet(Readers(n)) /\ Cardinality(Readers(n)) \in Nat
<1>1. Readers(n) \subseteq Threads  BY DEF Readers
<1> QED BY <1>1, QueueAssumption, FS_Subset, FS_CardinalityType

LEMMA ReadersFiniteNext ==
    ASSUME NEW n  PROVE IsFiniteSet(Readers(n)') /\ Cardinality(Readers(n)') \in Nat
<1>1. Readers(n)' \subseteq Threads  BY DEF Readers
<1> QED BY <1>1, QueueAssumption, FS_Subset, FS_CardinalityType

\* The plan only counts down, and the pool's index stays within the pool.
LEMMA PlanNext ==
    ASSUME PlanOK, [Next]_vars  PROVE PlanOK' /\ plan'.pool = plan.pool
<1>0. /\ plan = [new |-> plan.new, pool |-> plan.pool, size |-> plan.size, of |-> plan.of]
      /\ plan.pool \in Nat /\ plan.pool \in 0..PoolSize /\ poolIndex \in 0..plan.pool /\ PoolSize \in Nat
  BY QueueAssumption DEF PlanOK
<1>1. ASSUME NEW x, plan' = [plan EXCEPT !.of = x], poolIndex' = poolIndex
      PROVE  PlanOK' /\ plan'.pool = plan.pool
  <2>1. plan' = [new |-> plan.new, pool |-> plan.pool, size |-> plan.size, of |-> x]
    BY <1>0, <1>1
  <2>2. /\ plan'.new = plan.new /\ plan'.pool = plan.pool /\ plan'.size = plan.size /\ plan'.of = x
    BY <2>1
  <2> QED BY <1>0, <1>1, <2>1, <2>2 DEF PlanOK
<1>2. CASE plan' = plan /\ poolIndex' \in 0..plan.pool
  BY <1>0, <1>2 DEF PlanOK
<1>3. ASSUME NEW t \in Threads, ThreadStep(t)
      PROVE  \/ plan' = plan /\ poolIndex' \in 0..plan.pool
             \/ \E x : plan' = [plan EXCEPT !.of = x] /\ poolIndex' = poolIndex
  <2>1. CASE CallEnqueue(t) \/ CallDequeue(t) \/ ThreadExit(t)
    BY <2>1 DEF CallEnqueue, CallDequeue, ThreadExit, blocks
  <2>2. CASE FailEnqueue(t) \/ InsertEntry(t) \/ TakeBlock(t) \/ PutFirst(t) \/ Put(t)
    BY <1>0, <2>2 DEF FailEnqueue, InsertEntry, TakeBlock, PutFirst, Put, blocks
  <2>3. CASE TakeFromPool(t)
    <3>1. plan' = plan /\ ((poolIndex < plan.pool /\ poolIndex' = poolIndex + 1) \/ poolIndex' = poolIndex)
      BY <2>3 DEF TakeFromPool
    <3> QED BY <1>0, <3>1
  <2>4. CASE Score(t) \/ LoadOver(t) \/ TestOptimistic(t) \/ Claim(t) \/ Check(t) \/ Excess(t)
    BY <1>0, <2>4 DEF Score, LoadOver, TestOptimistic, Claim, Check, Excess, blocks
  <2>5. CASE TakeIndex(t) \/ FindIndex(t) \/ FindEntry(t) \/ Move(t) \/ Unlink(t) \/ EndDequeue(t)
    BY <1>0, <2>5 DEF TakeIndex, FindIndex, FindEntry, Move, Unlink, EndDequeue, blocks
  <2>6. CASE TableStep(t) \/ FreeStep(t)
    BY <1>0, <2>6 DEF TableStep, FreeStep, blocks
  <2> QED BY <1>3, <2>1, <2>2, <2>3, <2>4, <2>5, <2>6 DEF ThreadStep
<1>4. CASE Destroy \/ UNCHANGED vars
  <2>1. plan' = plan /\ poolIndex' = poolIndex  BY <1>4 DEF Destroy, vars, blocks
  <2> QED BY <1>0, <1>2, <2>1
<1> QED BY <1>1, <1>2, <1>3, <1>4 DEF Next

PlaceNow == (\E kind, len, q : PlaceAt(kind, len, q)) /\ LocalsOK

\* A step that moves no block keeps all places.
LEMMA PlaceQuiet ==
    ASSUME NEW kind, NEW len, NEW q, PlaceAt(kind, len, q), NEW t \in Threads,
           Beside, poolIndex' = poolIndex, heap' = heap,
           \A p \in Producers : SubLive(p), OthersStay(t), Has(t)' = Has(t), As(t)' = As(t)
    PROVE  PlaceNow'
<1>1. /\ KindsAt(kind) /\ FreshAt(kind) /\ NamedAt(kind) /\ OwnedAt(kind)
      /\ StackAt(kind, len, q) /\ CountsAt(kind)
  BY DEF PlaceAt
<1>2. Outside(kind, kind)  BY DEF Outside
<1>3. StackAt(kind, len, q)' /\ CountsAt(kind)' /\ LocalsOK'  BY <1>1, <1>2, OutsideFree
<1>4. KindsAt(kind)'  BY <1>1 DEF KindsAt
<1>5. FreshAt(kind)'  BY <1>1, FreshSame
<1>6. NamedAt(kind)'  BY <1>1, NamedSame
<1>7. OwnedAt(kind)'
  <2>1. \A x \in Blocks : kind[x] = kind[x] \/ (kind[x] \notin OwnedKinds /\ kind[x] \notin OwnedKinds)
    OBVIOUS
  <2>2. Has(t) # Null => Has(t) \in Blocks /\ kind[Has(t)] = As(t)  BY <1>1 DEF OwnedAt
  <2>3. PICK h, g : h = Has(t) /\ g = Has(t)'  OBVIOUS
  <2>4. g = h /\ (g # Null => g \in Blocks /\ kind[g] = As(t)')  BY <2>2, <2>3
  <2> QED BY <1>1, <2>1, <2>3, <2>4, OwnedStep
<1> QED BY <1>3, <1>4, <1>5, <1>6, <1>7 DEF PlaceAt, PlaceNow

\* One block changes its kind: what the function is then.
Moved(kind, b, x) == [kind EXCEPT ![b] = x]
MovesTo(K, kind, b, x) == K[b] = x /\ \A y \in Blocks : y # b => K[y] = kind[y]
LEMMA MovedAt ==
    ASSUME NEW kind, KindsAt(kind), NEW b \in Blocks, NEW x \in Kinds, b \in Pool \/ x \in HeapKinds,
           NEW K, K = Moved(kind, b, x)
    PROVE  KindsAt(K)' /\ MovesTo(K, kind, b, x)
<1>1. K \in [Blocks -> Kinds] /\ K[b] = x /\ \A y \in Blocks : y # b => K[y] = kind[y]
  BY DEF Moved, KindsAt
<1>2. Heap \subseteq Blocks /\ Pool \cap Heap = {}
  <2>1. PoolSize \in Nat /\ MaxHeap \in Nat  BY QueueAssumption
  <2> QED BY <2>1 DEF Blocks, Pool, Heap
<1>3. \A y \in Heap : K[y] \in HeapKinds  BY <1>1, <1>2 DEF KindsAt
<1> QED BY <1>1, <1>3 DEF KindsAt, MovesTo

\* A step outside of the free list that moves one block.
LEMMA PlaceMoves ==
    ASSUME NEW kind, NEW len, NEW q, PlaceAt(kind, len, q), NEW t \in Threads,
           Beside, OthersStay(t),
           NEW b \in Blocks, NEW x \in HeapKinds, kind[b] \in HeapKinds,
           NEW K, K = Moved(kind, b, x),
           FreshAt(K)', NamedAt(K)',
           NEW h, h = Has(t), NEW g, g = Has(t)',
           h = Null \/ h = b, g = Null \/ g = b,
           g = b => As(t)' = x /\ (h = b \/ kind[b] # "held"),
           g = Null /\ h = b => x # "held",
           g = Null /\ h = Null => x # "held" /\ kind[b] # "held"
    PROVE  PlaceNow'
<1>1. /\ KindsAt(kind) /\ OwnedAt(kind) /\ StackAt(kind, len, q) /\ CountsAt(kind)
  BY DEF PlaceAt
<1>a. x \in Kinds  BY DEF Kinds, HeapKinds
<1>2. KindsAt(K)' /\ MovesTo(K, kind, b, x)
  BY <1>1, <1>a, MovedAt
<1>b. K[b] = x /\ \A y \in Blocks : y # b => K[y] = kind[y]  BY <1>2 DEF MovesTo
<1>3. Outside(kind, K)  BY <1>b DEF Outside
<1>4. StackAt(K, len, q)' /\ CountsAt(K)' /\ LocalsOK'  BY <1>1, <1>3, OutsideFree
<1>5. \A k \in HeapKinds : k \in OwnedKinds <=> k = "held"  BY DEF HeapKinds, OwnedKinds
<1>0. Null \notin Blocks  BY QueueAssumption DEF Blocks, Pool, Heap
<1>6. OwnedAt(K)'
  <2>1. \A y \in Blocks : y # h /\ y # g =>
           K[y] = kind[y] \/ (K[y] \notin OwnedKinds /\ kind[y] \notin OwnedKinds)
    BY <1>0, <1>b, <1>5
  <2>2. g # Null => g \in Blocks /\ K[g] = As(t)' /\ (g = h \/ kind[g] \notin OwnedKinds)
    BY <1>b, <1>5
  <2>3. h # Null /\ h # g => K[h] \notin OwnedKinds  BY <1>b, <1>5
  <2> QED BY <1>1, <2>1, <2>2, <2>3, OwnedStep
<1> QED BY <1>2, <1>4, <1>6 DEF PlaceAt, PlaceNow

\* What the layers below have proved of a state.
Base == /\ TableInv /\ QueueTypes /\ ClaimInv /\ FreeShape /\ LabelInv
        /\ PutBlocks /\ Unlinks /\ IndexInv

LEMMA StepOthers ==
    ASSUME Base, NEW t \in Threads, ThreadStep(t)
    PROVE  /\ OthersStay(t) /\ IndexStep(t)
           /\ \A u \in Threads \ {t} : Apart(u)
<1>1. \A u \in Threads \ {t} : Apart(u)  BY OthersApart DEF Base
<1>2. OthersStay(t)  BY <1>1, HasApart DEF OthersStay, Apart
<1>3. IndexStep(t)  BY IndexSteps DEF Base
<1> QED BY <1>1, <1>2, <1>3

\* The block becomes the one that is put.
LEMMA PutShape ==
    ASSUME QueueTypes, NEW t \in Threads, NEW b, Set(t, [my[t] EXCEPT !.pc = "put", !.block = b])
    PROVE  my'[t].pc = "put" /\ my'[t].block = b /\ my'[t].entry = my[t].entry
<1> DEFINE c == my[t]
           r == [c EXCEPT !.pc = "put", !.block = b]
<1>1. my'[t] = r  BY DEF Set, QueueTypes
<1>2. CallOK(c)  BY DEF QueueTypes
<1> HIDE DEF c
<1>3. c = [pc |-> c.pc, p |-> c.p, i |-> c.i, over |-> c.over, tail |-> c.tail,
           best |-> c.best, size |-> c.size, found |-> c.found, entry |-> c.entry,
           block |-> c.block, header |-> c.header, alone |-> c.alone, had |-> c.had]
  BY <1>2, CallShape
<1>4. r.pc = "put" /\ r.block = b /\ r.entry = c.entry  BY <1>3
<1> QED BY <1>1, <1>4 DEF c

PutSafe(t) == (my[t].pc = "put" => my[t].block \in Blocks)'
LEMMA PutBlocksKept ==
    ASSUME PutBlocks, NEW t \in Threads, PutSafe(t), \A u \in Threads \ {t} : Apart(u)
    PROVE  PutBlocks'
BY DEF PutBlocks, PutSafe, Apart, CallApart

PlaceStep == PlaceNow' /\ PutBlocks'

\* Steps that leave what the thread has.
LEMMA QuietPlace ==
    ASSUME Base, NEW kind, NEW len, NEW q, PlaceAt(kind, len, q), LocalsOK, NEW t \in Threads,
           ThreadStep(t), ~PutFirst(t), ~Unlink(t), UNCHANGED freeVars,
           poolIndex' = poolIndex, heap' = heap,
           my' = my \/ (my[t].pc \notin {"put", "get"} /\ my'[t].pc \notin {"put", "get"})
    PROVE  PlaceStep
<1>1. OthersStay(t) /\ (\A p \in Producers : SubLive(p)) /\ \A u \in Threads \ {t} : Apart(u)
  BY StepOthers DEF IndexStep
<1>2. Beside  BY FreeBeside
<1>3. at' = at /\ node' = node  BY DEF freeVars
<1>4. Has(t)' = Has(t) /\ As(t)' = As(t)  BY <1>3 DEF Has, As
<1>5. PlaceNow'  BY <1>1, <1>2, <1>4, PlaceQuiet
<1>6. PutBlocks'
  <2>1. PutSafe(t)  BY DEF PutSafe, Base, PutBlocks
  <2> QED BY <1>1, <2>1, PutBlocksKept DEF Base
<1> QED BY <1>5, <1>6 DEF PlaceStep

LEMMA PlaceQuietSteps ==
    ASSUME Base, NEW kind, NEW len, NEW q, PlaceAt(kind, len, q), LocalsOK, NEW t \in Threads,
           ThreadStep(t),
           ~(TakeFromPool(t) \/ TakeBlock(t) \/ PutFirst(t) \/ Unlink(t) \/ FreeStep(t))
    PROVE  PlaceStep
<1>1. CASE CallEnqueue(t)
  <2>1. my[t].pc = "out" /\ Go(t, "lookup") /\ UNCHANGED freeVars /\ poolIndex' = poolIndex /\ heap' = heap
    BY <1>1 DEF CallEnqueue, blocks
  <2>2. my'[t].pc = "lookup"  BY <2>1, GoOK DEF Base
  <2> QED BY <2>1, <2>2, QuietPlace
<1>2. CASE FailEnqueue(t) \/ Put(t)
  <2>1. my[t].pc = "lookup" /\ Set(t, Idle) /\ UNCHANGED freeVars /\ poolIndex' = poolIndex /\ heap' = heap
    BY <1>2 DEF FailEnqueue, Put, Finish, blocks
  <2>2. my'[t].pc = "out"  BY <2>1, SetOK, IdleOK DEF Base, Idle
  <2> QED BY <2>1, <2>2, QuietPlace
<1>3. CASE InsertEntry(t)
  <2>1. /\ my[t].pc = "lookup" /\ UNCHANGED freeVars /\ poolIndex' = poolIndex /\ heap' = heap
        /\ UNCHANGED my \/ Set(t, Idle) \/ \E e : Set(t, [Idle EXCEPT !.pc = "pool", !.entry = e])
    BY <1>3 DEF InsertEntry, StartsBlock, Finish, blocks
  <2>2. \A e : [Idle EXCEPT !.pc = "pool", !.entry = e].pc = "pool"  BY DEF Idle
  <2>3. \A x : Set(t, x) => my'[t] = x  BY DEF Set, QueueTypes, Base
  <2>4. my' = my \/ my'[t].pc \notin {"put", "get"}
    <3>1. Set(t, Idle) => my'[t].pc = "out"  BY <2>3 DEF Idle
    <3>2. (\E e : Set(t, [Idle EXCEPT !.pc = "pool", !.entry = e])) => my'[t].pc = "pool"
      BY <2>2, <2>3
    <3> QED BY <2>1, <3>1, <3>2
  <2> QED BY <2>1, <2>4, QuietPlace
<1>4. CASE CallDequeue(t)
  <2>1. my[t].pc = "out" /\ UNCHANGED freeVars /\ poolIndex' = poolIndex /\ heap' = heap
    BY <1>4 DEF CallDequeue, blocks
  <2>2. my'[t].pc = "score"  BY <1>4, CallDequeueHas DEF CallDequeueEffect, Base, TableInv
  <2> QED BY <2>1, <2>2, QuietPlace
<1>5. CASE DequeueStep(t)
  <2>1. my[t].pc \in Walking /\ UNCHANGED freeVars /\ poolIndex' = poolIndex /\ heap' = heap
    BY <1>5 DEF DequeueStep, Taking, Score, LoadOver, TestOptimistic, Claim, Check, Excess, TakeIndex,
                FindIndex, FindEntry, Move, EndDequeue, Walking, blocks
  <2>2. my'[t].pc \in Walking \cup {"out"}  BY <1>5, PcAfter DEF Base
  <2> QED BY <2>1, <2>2, QuietPlace DEF Walking
<1>6. CASE ThreadExit(t) \/ TableStep(t)
  <2>1. my' = my /\ UNCHANGED freeVars /\ poolIndex' = poolIndex /\ heap' = heap
    BY <1>6 DEF ThreadExit, TableStep, blocks
  <2> QED BY <2>1, QuietPlace
<1> QED BY <1>1, <1>2, <1>3, <1>4, <1>5, <1>6 DEF ThreadStep, DequeueStep, Taking

\* Outside of the free list a thread that is not about to put has nothing.
LEMMA HasOut ==
    ASSUME NEW t, at[t] = "out"
    PROVE  /\ As(t) = "held"
           /\ my[t].pc = "put" => Has(t) = my[t].block
           /\ my[t].pc = "get" => Has(t) = node[t]
           /\ my[t].pc \notin {"put", "get"} => Has(t) = Null
BY DEF As, Has, OwnLabels

LEMMA BlockSets == Null \notin Blocks /\ Pool \subseteq Blocks /\ Heap \subseteq Blocks /\ Pool \cap Heap = {}
<1>1. PoolSize \in Nat /\ MaxHeap \in Nat  BY QueueAssumption
<1> QED BY <1>1 DEF Blocks, Pool, Heap

\* The steps that take a block or give it away: from the pool, from the list or the
\* heap, to an index and out of it.
LEMMA PlaceFromPool ==
    ASSUME Base, NEW kind, NEW len, NEW q, PlaceAt(kind, len, q), LocalsOK, PlanOK,
           NEW t \in Threads, TakeFromPool(t)
    PROVE  PlaceStep
<1>1. /\ my[t].pc = "pool" /\ ThreadStep(t) /\ heap' = heap /\ ~PutFirst(t) /\ ~Unlink(t)
  BY DEF TakeFromPool, ThreadStep, PutFirst, Unlink
<1>2. OthersStay(t) /\ (\A p \in Producers : SubLive(p)) /\ \A u \in Threads \ {t} : Apart(u)
  BY <1>1, StepOthers DEF IndexStep
<1>3. at[t] = "out" /\ Has(t) = Null /\ As(t) = "held"
  <2>1. at[t] = "out"  BY <1>1 DEF Base, LabelInv, LabelAt
  <2> QED BY <1>1, <2>1, HasOut
<1>4. /\ KindsAt(kind) /\ FreshAt(kind) /\ NamedAt(kind)
  BY DEF PlaceAt
<1>5. CASE /\ poolIndex < plan.pool /\ poolIndex' = poolIndex + 1
           /\ Set(t, [my[t] EXCEPT !.pc = "put", !.block = poolIndex + 1])
           /\ UNCHANGED freeVars
  <2>1. PICK b : b = poolIndex + 1  OBVIOUS
  <2>2. b \in Pool /\ poolIndex \in Nat /\ poolIndex < b /\ b = poolIndex + 1
    <3>1. PoolSize \in Nat /\ plan.pool \in 0..PoolSize /\ poolIndex \in 0..plan.pool
      BY QueueAssumption DEF PlanOK
    <3> QED BY <1>5, <2>1, <3>1 DEF Pool
  <2>3. b \in Blocks /\ b # Null /\ b \notin Heap  BY <2>2, BlockSets
  <2>4. kind[b] = "unused"  BY <1>4, <2>2, <2>3 DEF FreshAt, Fresh
  <2>5. my'[t].pc = "put" /\ my'[t].block = b
    BY <1>5, <2>1, PutShape DEF Base
  <2>6. at'[t] = "out"  BY <1>3, <1>5 DEF freeVars
  <2>7. Has(t)' = b /\ As(t)' = "held"  BY <2>5, <2>6 DEF Has, As
  <2>8. PICK K : K = Moved(kind, b, "held")  OBVIOUS
  <2>9. K[b] = "held" /\ \A y \in Blocks : y # b => K[y] = kind[y]
    <3>1. "held" \in Kinds  BY DEF Kinds
    <3> QED BY <1>4, <2>2, <2>3, <2>8, <3>1, MovedAt DEF MovesTo
  <2>10. FreshAt(K)'
    <3> SUFFICES ASSUME NEW y \in Blocks  PROVE K[y] = "unused" <=> Fresh(y)'  BY DEF FreshAt
    <3>1. kind[y] = "unused" <=> Fresh(y)  BY <1>4 DEF FreshAt
    <3>2. CASE y = b  BY <1>5, <2>2, <2>9, <3>2 DEF Fresh
    <3>3. CASE y # b
      <4>1. y \in Pool => y \in Nat  BY DEF Pool
      <4>2. y \in Pool => (y > poolIndex <=> y > poolIndex')  BY <1>5, <2>2, <3>3, <4>1
      <4> QED BY <1>1, <2>9, <3>1, <3>3, <4>2 DEF Fresh
    <3> QED BY <3>2, <3>3
  <2>11. NamedAt(K)'
    <3>1. \A y \in Blocks : K[y] = "named" <=> kind[y] = "named"  BY <2>4, <2>9
    <3> QED BY <1>2, <1>4, <3>1, NamedSame
  <2>12. Beside  BY <1>5, FreeBeside
  <2>13. "held" \in HeapKinds /\ kind[b] \in HeapKinds  BY <2>4 DEF HeapKinds
  <2>14. PlaceNow'
    <3>1. PICK h, g, x : h = Has(t) /\ g = Has(t)' /\ x = "held"  OBVIOUS
    <3>2. /\ h = Null \/ h = b
          /\ g = Null \/ g = b
          /\ g = b => As(t)' = x /\ (h = b \/ kind[b] # "held")
          /\ g = Null /\ h = b => x # "held"
          /\ g = Null /\ h = Null => x # "held" /\ kind[b] # "held"
      BY <1>3, <2>3, <2>4, <2>7, <3>1
    <3>3. x \in HeapKinds /\ K = Moved(kind, b, x)  BY <2>8, <2>13, <3>1
    <3> QED BY <1>2, <2>3, <2>10, <2>11, <2>12, <2>13, <3>1, <3>2, <3>3, PlaceMoves
  <2>15. PutBlocks'
    <3>1. PutSafe(t)  BY <2>3, <2>5 DEF PutSafe
    <3> QED BY <1>2, <3>1, PutBlocksKept DEF Base
  <2> QED BY <2>14, <2>15 DEF PlaceStep
<1>6. CASE Free!CallGet(t) /\ Go(t, "get") /\ UNCHANGED poolIndex
  <2>1. my'[t].pc = "get"  BY <1>6, GoOK DEF Base
  <2>2. Beside /\ at'[t] \in {"head", "add"}
    BY <1>2, <1>6, CallBeside DEF Base, Apart
  <2>3. at'[t] = "head"  BY <1>6 DEF Free!CallGet, Free!Jump, Base, FreeShape
  <2>4. Has(t)' = Null /\ As(t)' = "held"  BY <2>1, <2>3 DEF Has, As, OwnLabels
  <2>5. PlaceNow'  BY <1>1, <1>2, <1>3, <1>6, <2>2, <2>4, PlaceQuiet
  <2>6. PutSafe(t)  BY <2>1 DEF PutSafe
  <2> QED BY <1>2, <2>5, <2>6, PutBlocksKept DEF PlaceStep, Base
<1> QED BY <1>5, <1>6 DEF TakeFromPool

LEMMA PlaceTakeBlock ==
    ASSUME Base, NEW kind, NEW len, NEW q, PlaceAt(kind, len, q), LocalsOK, PlanOK,
           NEW t \in Threads, TakeBlock(t)
    PROVE  PlaceStep
<1>1. /\ my[t].pc = "get" /\ at[t] = "out" /\ ThreadStep(t) /\ poolIndex' = poolIndex
      /\ UNCHANGED freeVars /\ ~PutFirst(t) /\ ~Unlink(t)
  BY DEF TakeBlock, ThreadStep, PutFirst, Unlink
<1>2. OthersStay(t) /\ (\A p \in Producers : SubLive(p)) /\ \A u \in Threads \ {t} : Apart(u)
  BY <1>1, StepOthers DEF IndexStep
<1>3. Has(t) = node[t] /\ As(t) = "held"  BY <1>1, HasOut
<1>4. Beside /\ at'[t] = "out" /\ node'[t] = node[t]  BY <1>1, FreeBeside DEF freeVars
<1>a. As(t)' = "held"  BY <1>4 DEF As
<1>5. CASE node[t] # Null /\ Set(t, [my[t] EXCEPT !.pc = "put", !.block = node[t]]) /\ heap' = heap
  <2>1. my'[t].pc = "put" /\ my'[t].block = node[t]
    BY <1>5, PutShape DEF Base
  <2>2. Has(t)' = node[t]  BY <2>1 DEF Has
  <2>3. PlaceNow'  BY <1>1, <1>2, <1>3, <1>4, <1>5, <1>a, <2>2, PlaceQuiet
  <2>4. node[t] \in Pool  BY <1>5 DEF Base, FreeShape, MaybeNode
  <2>5. PutSafe(t)  BY <2>1, <2>4, BlockSets DEF PutSafe
  <2> QED BY <1>2, <2>3, <2>5, PutBlocksKept DEF PlaceStep, Base
<1>6. CASE node[t] = Null /\ Finish(t) /\ heap' = heap
  <2>1. my'[t].pc = "out"  BY <1>6, SetOK, IdleOK DEF Base, Finish, Idle
  <2>2. Has(t)' = Null  BY <1>4, <2>1 DEF Has, OwnLabels
  <2>3. PlaceNow'  BY <1>1, <1>2, <1>3, <1>4, <1>6, <1>a, <2>2, PlaceQuiet
  <2>5. PutSafe(t)  BY <2>1 DEF PutSafe
  <2> QED BY <1>2, <2>3, <2>5, PutBlocksKept DEF PlaceStep, Base
<1>7. ASSUME node[t] = Null, NEW b \in Heap \ heap, heap' = heap \cup {b},
             Set(t, [my[t] EXCEPT !.pc = "put", !.block = b])
      PROVE  PlaceStep
  <2>1. my'[t].pc = "put" /\ my'[t].block = b  BY <1>7, PutShape DEF Base
  <2>2. b \in Blocks /\ b # Null /\ b \notin Pool  BY <1>7, BlockSets
  <2>3. /\ KindsAt(kind) /\ FreshAt(kind) /\ NamedAt(kind)
    BY DEF PlaceAt
  <2>4. kind[b] = "unused"  BY <1>7, <2>2, <2>3 DEF FreshAt, Fresh
  <2>5. Has(t)' = b  BY <2>1 DEF Has
  <2>6. PICK h, g, x : h = Has(t) /\ g = Has(t)' /\ x = "held"  OBVIOUS
  <2>7. PICK K : K = Moved(kind, b, x)  OBVIOUS
  <2>8. "held" \in HeapKinds /\ "held" \in Kinds /\ kind[b] \in HeapKinds
    BY <2>4 DEF HeapKinds, Kinds
  <2>9. K[b] = "held" /\ \A y \in Blocks : y # b => K[y] = kind[y]
    <3>1. x \in Kinds /\ x \in HeapKinds /\ x = "held"  BY <2>6, <2>8
    <3>2. MovesTo(K, kind, b, x)  BY <2>2, <2>3, <2>7, <3>1, MovedAt
    <3> QED BY <3>1, <3>2 DEF MovesTo
  <2>10. FreshAt(K)'
    <3> SUFFICES ASSUME NEW y \in Blocks  PROVE K[y] = "unused" <=> Fresh(y)'  BY DEF FreshAt
    <3>1. kind[y] = "unused" <=> Fresh(y)  BY <2>3 DEF FreshAt
    <3>2. CASE y = b  BY <1>7, <2>2, <2>9, <3>2 DEF Fresh
    <3>3. CASE y # b  BY <1>1, <1>7, <2>9, <3>1, <3>3 DEF Fresh
    <3> QED BY <3>2, <3>3
  <2>11. NamedAt(K)'
    <3>1. \A y \in Blocks : K[y] = "named" <=> kind[y] = "named"  BY <2>4, <2>9
    <3> QED BY <1>2, <2>3, <3>1, NamedSame
  <2>12. PlaceNow'
    <3>2. /\ h = Null \/ h = b
          /\ g = Null \/ g = b
          /\ g = b => As(t)' = x /\ (h = b \/ kind[b] # "held")
          /\ g = Null /\ h = b => x # "held"
          /\ g = Null /\ h = Null => x # "held" /\ kind[b] # "held"
      BY <1>3, <1>7, <1>a, <2>2, <2>4, <2>5, <2>6
    <3>3. x \in HeapKinds  BY <2>6, <2>8
    <3> QED BY <1>2, <1>4, <2>2, <2>6, <2>7, <2>8, <2>10, <2>11, <3>2, <3>3, PlaceMoves
  <2>13. PutSafe(t)  BY <2>1, <2>2 DEF PutSafe
  <2> QED BY <1>2, <2>12, <2>13, PutBlocksKept DEF PlaceStep, Base
<1> QED BY <1>5, <1>6, <1>7 DEF TakeBlock

\* The index of p names one more block.
LEMMA NamedPut ==
    ASSUME NEW kind, NEW K, NamedAt(kind), NEW b \in Blocks, MovesTo(K, kind, b, "named"),
           kind[b] # "named", NEW p \in Producers, NEW e, NEW k,
           \A r \in Producers : r # p => SubLive(r),
           \A f, l, c : LiveAt(p, f, l, c)' <=> LiveAt(p, f, l, c) \/ (f = e /\ l = k /\ c = b)
    PROVE  NamedAt(K)'
<1>1. \A r \in Producers : r # p => \A f, l, c : LiveAt(r, f, l, c)' <=> LiveAt(r, f, l, c)
  BY DEF SubLive, SameLive, LiveAt
<1>2. \A r \in Producers : \A f, l, c : LiveAt(r, f, l, c)' <=>
        LiveAt(r, f, l, c) \/ (r = p /\ f = e /\ l = k /\ c = b)
  <2> SUFFICES ASSUME NEW r \in Producers
      PROVE \A f, l, c : LiveAt(r, f, l, c)' <=> LiveAt(r, f, l, c) \/ (r = p /\ f = e /\ l = k /\ c = b)
    OBVIOUS
  <2>1. CASE r = p  BY <2>1
  <2>2. CASE r # p  BY <1>1, <2>2
  <2> QED BY <2>1, <2>2
<1>3. \A r \in Producers : \A f, l, c : LiveAt(r, f, l, c) => c \in Blocks /\ kind[c] = "named" /\ c # b
  BY DEF NamedAt
<1>4. K[b] = "named" /\ \A y \in Blocks : y # b => K[y] = kind[y]  BY DEF MovesTo
<1>5. \A r \in Producers : \A f, l, c : LiveAt(r, f, l, c)' => c \in Blocks /\ K[c] = "named"
  BY <1>2, <1>3, <1>4
<1>6. \A c \in Blocks : K[c] = "named" => \E r \in Producers : \E f, l : LiveAt(r, f, l, c)'
  <2> SUFFICES ASSUME NEW c \in Blocks, K[c] = "named"
               PROVE  \E r \in Producers : \E f, l : LiveAt(r, f, l, c)'
    OBVIOUS
  <2>1. CASE c = b
    <3>1. LiveAt(p, e, k, b)'  BY <1>2
    <3> QED BY <2>1, <3>1
  <2>2. CASE c # b
    <3>1. kind[c] = "named"  BY <1>4, <2>2
    <3>2. PICK r \in Producers : \E f, l : LiveAt(r, f, l, c)  BY <3>1 DEF NamedAt
    <3> QED BY <1>2, <3>2
  <2> QED BY <2>1, <2>2
<1>7. \A r, s \in Producers : \A f, g, l, m, c :
        LiveAt(r, f, l, c)' /\ LiveAt(s, g, m, c)' => r = s /\ f = g
  <2> SUFFICES ASSUME NEW r \in Producers, NEW s \in Producers, NEW f, NEW g, NEW l, NEW m, NEW c,
                      LiveAt(r, f, l, c)', LiveAt(s, g, m, c)'
               PROVE  r = s /\ f = g
    OBVIOUS
  <2>1. /\ LiveAt(r, f, l, c) \/ (r = p /\ f = e /\ c = b)
        /\ LiveAt(s, g, m, c) \/ (s = p /\ g = e /\ c = b)
    BY <1>2
  <2>2. CASE c = b  BY <1>3, <2>1, <2>2
  <2>3. CASE c # b
    <3>1. LiveAt(r, f, l, c) /\ LiveAt(s, g, m, c)  BY <2>1, <2>3
    <3> QED BY <3>1 DEF NamedAt
  <2> QED BY <2>2, <2>3
<1> QED BY <1>5, <1>6, <1>7 DEF NamedAt

\* The index of p no longer names a block.
LEMMA NamedUnlink ==
    ASSUME NEW kind, NEW K, NamedAt(kind), NEW b \in Blocks, NEW x, x # "named", MovesTo(K, kind, b, x),
           NEW p \in Producers, NEW e, NEW k, LiveAt(p, e, k, b),
           \A r \in Producers : r # p => SubLive(r),
           \A f, l, c : LiveAt(p, f, l, c)' <=> LiveAt(p, f, l, c) /\ f # e
    PROVE  NamedAt(K)' /\ kind[b] = "named"
<1>1. \A r \in Producers : r # p => \A f, l, c : LiveAt(r, f, l, c)' <=> LiveAt(r, f, l, c)
  BY DEF SubLive, SameLive, LiveAt
<1>2. \A r \in Producers : \A f, l, c : LiveAt(r, f, l, c)' <=>
        LiveAt(r, f, l, c) /\ ~(r = p /\ f = e)
  <2> SUFFICES ASSUME NEW r \in Producers
      PROVE \A f, l, c : LiveAt(r, f, l, c)' <=> LiveAt(r, f, l, c) /\ ~(r = p /\ f = e)
    OBVIOUS
  <2>1. CASE r = p  BY <2>1
  <2>2. CASE r # p  BY <1>1, <2>2
  <2> QED BY <2>1, <2>2
<1>3. \A r \in Producers : \A f, l, c : LiveAt(r, f, l, c) => c \in Blocks /\ kind[c] = "named"
  BY DEF NamedAt
<1>4. K[b] = x /\ \A y \in Blocks : y # b => K[y] = kind[y]  BY DEF MovesTo
<1>5. \A r \in Producers : \A f, l, c : LiveAt(r, f, l, c)' => c \in Blocks /\ K[c] = "named"
  <2> SUFFICES ASSUME NEW r \in Producers, NEW f, NEW l, NEW c, LiveAt(r, f, l, c)'
               PROVE  c \in Blocks /\ K[c] = "named"
    OBVIOUS
  <2>1. LiveAt(r, f, l, c) /\ ~(r = p /\ f = e)  BY <1>2
  <2>2. c # b
    <3>1. c = b => LiveAt(r, f, l, c) /\ LiveAt(p, e, k, c)  BY <2>1
    <3> QED BY <2>1, <3>1 DEF NamedAt
  <2> QED BY <1>3, <1>4, <2>1, <2>2
<1>6. \A c \in Blocks : K[c] = "named" => \E r \in Producers : \E f, l : LiveAt(r, f, l, c)'
  <2> SUFFICES ASSUME NEW c \in Blocks, K[c] = "named"
               PROVE  \E r \in Producers : \E f, l : LiveAt(r, f, l, c)'
    OBVIOUS
  <2>1. c # b /\ kind[c] = "named"  BY <1>4
  <2>0. PICK r \in Producers : \E f, l : LiveAt(r, f, l, c)  BY <2>1 DEF NamedAt
  <2>2. PICK f, l : LiveAt(r, f, l, c)  BY <2>0
  <2>3. ~(r = p /\ f = e)  BY <2>1, <2>2 DEF LiveAt, LiveIn
  <2> QED BY <1>2, <2>2, <2>3
<1>7. \A r, s \in Producers : \A f, g, l, m, c :
        LiveAt(r, f, l, c)' /\ LiveAt(s, g, m, c)' => r = s /\ f = g
  <2> SUFFICES ASSUME NEW r \in Producers, NEW s \in Producers, NEW f, NEW g, NEW l, NEW m, NEW c,
                      LiveAt(r, f, l, c)', LiveAt(s, g, m, c)'
               PROVE  r = s /\ f = g
    OBVIOUS
  <2>1. LiveAt(r, f, l, c) /\ LiveAt(s, g, m, c)  BY <1>2
  <2> QED BY <2>1 DEF NamedAt
<1>8. kind[b] = "named"  BY <1>3
<1> QED BY <1>5, <1>6, <1>7, <1>8 DEF NamedAt

LEMMA PlacePutFirst ==
    ASSUME Base, NEW kind, NEW len, NEW q, PlaceAt(kind, len, q), LocalsOK,
           NEW t \in Threads, PutFirst(t)
    PROVE  PlaceStep
<1>1. /\ my[t].pc = "put" /\ ThreadStep(t) /\ poolIndex' = poolIndex /\ heap' = heap
      /\ UNCHANGED freeVars
  BY DEF PutFirst, ThreadStep
<1>2. OthersStay(t) /\ OnlyPuts(t) /\ \A u \in Threads \ {t} : Apart(u)
  BY <1>1, StepOthers DEF IndexStep
<1>3. PICK b, p : b = my[t].block /\ p = mine[t]  OBVIOUS
<1>4. at[t] = "out"  BY <1>1 DEF Base, LabelInv, LabelAt
<1>5. Has(t) = b /\ As(t) = "held"  BY <1>1, <1>3, <1>4, HasOut
<1>6. /\ b \in Blocks /\ b # Null
  BY <1>1, <1>3, BlockSets DEF Base, PutBlocks
<1>7. /\ KindsAt(kind) /\ FreshAt(kind) /\ NamedAt(kind) /\ OwnedAt(kind)
  BY DEF PlaceAt
<1>8. kind[b] = "held"  BY <1>5, <1>6, <1>7 DEF OwnedAt
<1>9. p \in Producers
  <2>1. mine[t] # 0  BY <1>1 DEF Base, LabelInv, LabelAt, Inserting
  <2> QED BY <1>3, <2>1, OwnSub DEF Base
<1>10. my'[t].pc = "out"
  <2>1. Set(t, Idle)  BY DEF PutFirst, Finish
  <2> QED BY <2>1, SetOK, IdleOK DEF Base, Idle
<1>11. Beside /\ at'[t] = "out"  BY <1>1, <1>4, FreeBeside DEF freeVars
<1>12. Has(t)' = Null  BY <1>10, <1>11 DEF Has, OwnLabels
<1>13. PICK h, g, x : h = Has(t) /\ g = Has(t)' /\ x = "named"  OBVIOUS
<1>14. PICK K : K = Moved(kind, b, x)  OBVIOUS
<1>15. x \in HeapKinds /\ x \in Kinds /\ kind[b] \in HeapKinds  BY <1>8, <1>13 DEF HeapKinds, Kinds
<1>16. MovesTo(K, kind, b, x)  BY <1>6, <1>7, <1>14, <1>15, MovedAt
<1>17. K[b] = "named" /\ \A y \in Blocks : y # b => K[y] = kind[y]  BY <1>13, <1>16 DEF MovesTo
<1>18. FreshAt(K)'
  <2>1. \A y \in Blocks : K[y] = "unused" <=> kind[y] = "unused"  BY <1>8, <1>17
  <2> QED BY <1>1, <1>7, <2>1, FreshSame
<1>19. NamedAt(K)'
  <2>1. \A r \in Producers : r # p => SubLive(r)  BY <1>2, <1>3 DEF OnlyPuts
  <2>2. PICK e, k : e = my[t].entry /\ k = sub[p].tailIndex  OBVIOUS
  <2>3. \A f, l, c : LiveAt(p, f, l, c)' <=> LiveAt(p, f, l, c) \/ (f = e /\ l = k /\ c = b)
    <3>1. \A f, l, c : LiveIn(sub'[p].entries, f, l, c) <=>
              LiveAt(p, f, l, c) \/ (f = e /\ l = k /\ c = b)
      BY <1>2, <1>3, <2>2 DEF OnlyPuts
    <3> QED BY <3>1 DEF LiveAt
  <2>4. MovesTo(K, kind, b, "named") /\ kind[b] # "named"  BY <1>8, <1>13, <1>16
  <2> QED BY <1>6, <1>7, <1>9, <2>1, <2>3, <2>4, NamedPut
<1>20. PlaceNow'
  <2>1. /\ h = Null \/ h = b
        /\ g = Null \/ g = b
        /\ g = b => As(t)' = x /\ (h = b \/ kind[b] # "held")
        /\ g = Null /\ h = b => x # "held"
        /\ g = Null /\ h = Null => x # "held" /\ kind[b] # "held"
    BY <1>5, <1>6, <1>12, <1>13
  <2> QED BY <1>2, <1>6, <1>11, <1>13, <1>14, <1>15, <1>18, <1>19, <2>1, PlaceMoves
<1>21. PutBlocks'
  <2>1. PutSafe(t)  BY <1>10 DEF PutSafe
  <2> QED BY <1>2, <2>1, PutBlocksKept DEF Base
<1> QED BY <1>20, <1>21 DEF PlaceStep

LEMMA PlaceUnlink ==
    ASSUME Base, NEW kind, NEW len, NEW q, PlaceAt(kind, len, q), LocalsOK,
           NEW t \in Threads, Unlink(t)
    PROVE  PlaceStep
<1>1. my[t].pc = "unlink" /\ ThreadStep(t) /\ poolIndex' = poolIndex
  BY DEF Unlink, ThreadStep
<1>2. OthersStay(t) /\ OnlyUnlinks(t) /\ \A u \in Threads \ {t} : Apart(u)
  BY <1>1, StepOthers DEF IndexStep
<1>3. PICK b, p, e : b = my[t].block /\ p = my[t].p /\ e = my[t].entry  OBVIOUS
<1>4. at[t] = "out"  BY <1>1 DEF Base, LabelInv, LabelAt
<1>5. Has(t) = Null /\ As(t) = "held"  BY <1>1, <1>4, HasOut
<1>6. PICK k : LiveAt(p, e, k, b)  BY <1>1, <1>3 DEF Base, Unlinks
<1>7. /\ KindsAt(kind) /\ FreshAt(kind) /\ NamedAt(kind) /\ OwnedAt(kind)
  BY DEF PlaceAt
<1>9. p \in Producers
  <2>1. my[t].pc \in Walking  BY <1>1 DEF Walking
  <2> QED BY <1>3, <2>1, WalkerAt DEF Base, TableInv
<1>8. b \in Blocks /\ b # Null /\ kind[b] = "named"  BY <1>6, <1>7, <1>9, BlockSets DEF NamedAt
<1>10. my'[t].pc \in Walking \cup {"out"}  BY PcAfter DEF Base, DequeueStep, Taking
<1>11. ASSUME NEW x \in {"unused", "held"}, NEW K, K = Moved(kind, b, x)
       PROVE  /\ MovesTo(K, kind, b, x) /\ NamedAt(K)'
              /\ x \in HeapKinds /\ kind[b] \in HeapKinds
  <2>1. x \in HeapKinds /\ x \in Kinds /\ kind[b] \in HeapKinds /\ x # "named"
    BY <1>8 DEF HeapKinds, Kinds
  <2>2. MovesTo(K, kind, b, x)  BY <1>7, <1>8, <1>11, <2>1, MovedAt
  <2>3. \A r \in Producers : r # p => SubLive(r)  BY <1>2, <1>3 DEF OnlyUnlinks
  <2>4. \A f, l, c : LiveAt(p, f, l, c)' <=> LiveAt(p, f, l, c) /\ f # e
    <3>1. \A f, l, c : LiveIn(sub'[p].entries, f, l, c) <=> LiveAt(p, f, l, c) /\ f # e
      BY <1>2, <1>3 DEF OnlyUnlinks
    <3> QED BY <3>1 DEF LiveAt
  <2>5. NamedAt(K)'  BY <1>6, <1>7, <1>8, <1>9, <2>1, <2>2, <2>3, <2>4, NamedUnlink
  <2> QED BY <2>1, <2>2, <2>5
<1>12. PutBlocks'
  <2>1. PutSafe(t)  BY <1>10 DEF PutSafe, Walking
  <2> QED BY <1>2, <2>1, PutBlocksKept DEF Base
<1>13. CASE b \in Heap /\ heap' = heap \ {b} /\ UNCHANGED freeVars
  <2>1. Beside /\ at'[t] = "out"  BY <1>4, <1>13, FreeBeside DEF freeVars
  <2>2. Has(t)' = Null  BY <1>10, <2>1 DEF Has, OwnLabels, Walking
  <2>3. PICK h, g, x : h = Has(t) /\ g = Has(t)' /\ x = "unused"  OBVIOUS
  <2>4. PICK K : K = Moved(kind, b, x)  OBVIOUS
  <2>5. MovesTo(K, kind, b, x) /\ NamedAt(K)' /\ x \in HeapKinds /\ kind[b] \in HeapKinds
    BY <1>11, <2>3, <2>4
  <2>6. K[b] = "unused" /\ \A y \in Blocks : y # b => K[y] = kind[y]  BY <2>3, <2>5 DEF MovesTo
  <2>7. FreshAt(K)'
    <3> SUFFICES ASSUME NEW y \in Blocks  PROVE K[y] = "unused" <=> Fresh(y)'  BY DEF FreshAt
    <3>1. kind[y] = "unused" <=> Fresh(y)  BY <1>7 DEF FreshAt
    <3>2. CASE y = b
      <4>1. b \notin Pool  BY <1>13, BlockSets
      <4> QED BY <1>13, <2>6, <3>2, <4>1 DEF Fresh
    <3>3. CASE y # b  BY <1>1, <1>13, <2>6, <3>1, <3>3 DEF Fresh
    <3> QED BY <3>2, <3>3
  <2>8. PlaceNow'
    <3>1. /\ h = Null \/ h = b
          /\ g = Null \/ g = b
          /\ g = b => As(t)' = x /\ (h = b \/ kind[b] # "held")
          /\ g = Null /\ h = b => x # "held"
          /\ g = Null /\ h = Null => x # "held" /\ kind[b] # "held"
      BY <1>5, <1>8, <2>2, <2>3
    <3> QED BY <1>2, <1>8, <2>1, <2>3, <2>4, <2>5, <2>7, <3>1, PlaceMoves
  <2> QED BY <1>12, <2>8 DEF PlaceStep
<1>14. CASE b \notin Heap /\ Free!CallAdd(t, b) /\ Go(t, "add") /\ UNCHANGED heap
  <2>1. Beside  BY <1>2, <1>14, CallBeside DEF Base, Apart
  <2>2. at'[t] = "add" /\ node'[t] = b
    BY <1>14 DEF Free!CallAdd, Free!Jump, Base, FreeShape
  <2>3. Has(t)' = b /\ As(t)' = "held"  BY <1>10, <2>2 DEF Has, As, OwnLabels, Walking
  <2>4. PICK h, g, x : h = Has(t) /\ g = Has(t)' /\ x = "held"  OBVIOUS
  <2>5. PICK K : K = Moved(kind, b, x)  OBVIOUS
  <2>6. MovesTo(K, kind, b, x) /\ NamedAt(K)' /\ x \in HeapKinds /\ kind[b] \in HeapKinds
    BY <1>11, <2>4, <2>5
  <2>7. K[b] = "held" /\ \A y \in Blocks : y # b => K[y] = kind[y]  BY <2>4, <2>6 DEF MovesTo
  <2>8. FreshAt(K)'
    <3>1. \A y \in Blocks : K[y] = "unused" <=> kind[y] = "unused"  BY <1>8, <2>7
    <3> QED BY <1>1, <1>7, <1>14, <3>1, FreshSame
  <2>9. PlaceNow'
    <3>1. /\ h = Null \/ h = b
          /\ g = Null \/ g = b
          /\ g = b => As(t)' = x /\ (h = b \/ kind[b] # "held")
          /\ g = Null /\ h = b => x # "held"
          /\ g = Null /\ h = Null => x # "held" /\ kind[b] # "held"
      BY <1>5, <1>8, <2>3, <2>4
    <3> QED BY <1>2, <1>8, <2>1, <2>4, <2>5, <2>6, <2>8, <3>1, PlaceMoves
  <2> QED BY <1>12, <2>9 DEF PlaceStep
<1> QED BY <1>3, <1>13, <1>14 DEF Unlink

\* Every step outside of the free list.
LEMMA PlaceOutside ==
    ASSUME Base, NEW kind, NEW len, NEW q, PlaceAt(kind, len, q), LocalsOK, PlanOK,
           NEW t \in Threads, ThreadStep(t), ~FreeStep(t)
    PROVE  PlaceStep
BY PlaceQuietSteps, PlaceFromPool, PlaceTakeBlock, PlacePutFirst, PlaceUnlink

-----------------------------------------------------------------------------
(* The steps of the free list.                                             *)

ListKinds == Kinds \ {"unused", "named"}

\* What a step of the free list does not touch.
LEMMA FreeFrame ==
    ASSUME Base, NEW t \in Threads, FreeStep(t)
    PROVE  /\ Free!Step(t) /\ my' = my /\ poolIndex' = poolIndex /\ heap' = heap
           /\ OthersStay(t) /\ (\A p \in Producers : SubLive(p)) /\ PutBlocks'
           /\ my[t].pc \in {"get", "add"} /\ (getting[t] <=> my[t].pc = "get")
           /\ my[t].pc = "get" => at[t] # "add"
           /\ my[t].pc = "add" => at[t] \in AddLabels
           /\ at[t] # "out"
<1>1. /\ Free!Step(t) /\ my' = my /\ poolIndex' = poolIndex /\ heap' = heap
      /\ sub' = sub /\ ThreadStep(t)
  BY DEF FreeStep, blocks, ThreadStep
<1>2. OthersStay(t)  BY <1>1, StepOthers
<1>3. \A p \in Producers : SubLive(p)  BY <1>1 DEF SubLive, SameLive
<1>4. PutBlocks'  BY <1>1 DEF Base, PutBlocks
<1>5. at[t] # "out"  BY <1>1, FreeStepMoves DEF Base, FreeMoves
<1> QED BY <1>1, <1>2, <1>3, <1>4, <1>5 DEF Base, LabelInv, LabelAt

\* What the thread has while it is in the free list, and as it leaves it.
LEMMA HasIn ==
    ASSUME NEW t, my[t].pc \in {"get", "add"}
    PROVE  /\ at[t] \in OwnLabels => Has(t) = node[t]
           /\ at[t] \notin OwnLabels /\ at[t] # "out" => Has(t) = Null
           /\ at[t] = "out" /\ my[t].pc = "add" => Has(t) = Null
           /\ at[t] = "out" /\ my[t].pc = "get" => Has(t) = node[t]
BY DEF Has, OwnLabels
LEMMA HasInNext ==
    ASSUME NEW t, my' = my, my[t].pc \in {"get", "add"}
    PROVE  /\ at'[t] \in OwnLabels => Has(t)' = node'[t]
           /\ at'[t] \notin OwnLabels /\ at'[t] # "out" => Has(t)' = Null
           /\ at'[t] = "out" /\ my[t].pc = "add" => Has(t)' = Null
           /\ at'[t] = "out" /\ my[t].pc = "get" => Has(t)' = node'[t]
BY DEF Has, OwnLabels

LEMMA LocalsKept ==
    ASSUME LocalsOK, NEW t \in Threads, OthersStay(t), next' = next, LocalAt(t)'
    PROVE  LocalsOK'
BY DEF LocalsOK, LocalAt, OthersStay, FreeApart

\* The counts of the nodes that t does not have to do with.
OnlyNode(t, b) ==
    /\ \A n : n # b => ~Reads(t, n) /\ ~Reads(t, n)'
    /\ \A n \in Pool : n # b => refs'[n] = refs[n] /\ should'[n] = should[n]
LEMMA CountsKept ==
    ASSUME NEW kind, NEW K, CountsAt(kind), NEW t \in Threads, OthersStay(t), NEW b, OnlyNode(t, b),
           \A y \in Blocks : y # b => K[y] = kind[y],
           b \in Pool => CountAt(K, b)'
    PROVE  CountsAt(K)'
<1> SUFFICES ASSUME NEW n \in Pool  PROVE CountAt(K, n)'  BY DEF CountsAt
<1>1. CASE n = b  BY <1>1
<1>2. CASE n # b
  <2>1. Readers(n)' = Readers(n)  BY <1>2 DEF OnlyNode, Readers, OthersStay
  <2>2. K[n] = kind[n] /\ CountAt(kind, n) /\ refs'[n] = refs[n] /\ should'[n] = should[n]
    BY <1>2, BlockSets DEF CountsAt, OnlyNode
  <2> QED BY <2>1, <2>2 DEF CountAt
<1> QED BY <1>1, <1>2

\* How many readers a node has after a step.
LEMMA ReadersStep ==
    ASSUME NEW t \in Threads, OthersStay(t), NEW n
    PROVE  /\ (Reads(t, n) <=> Reads(t, n)') => Readers(n)' = Readers(n)
           /\ ~Reads(t, n) /\ Reads(t, n)' =>
                Cardinality(Readers(n)') = Cardinality(Readers(n)) + 1
           /\ Reads(t, n) /\ ~Reads(t, n)' =>
                /\ Cardinality(Readers(n)') = Cardinality(Readers(n)) - 1
                /\ Readers(n)' = Readers(n) \ {t}
<1>1. \A u \in Threads \ {t} : Reads(u, n)' <=> Reads(u, n)  BY DEF OthersStay
<1>2. (Reads(t, n) <=> Reads(t, n)') => Readers(n)' = Readers(n)
  BY <1>1 DEF Readers
<1>3. ~Reads(t, n) /\ Reads(t, n)' => Readers(n)' = Readers(n) \cup {t} /\ t \notin Readers(n)
  BY <1>1 DEF Readers
<1>4. Reads(t, n) /\ ~Reads(t, n)' => Readers(n)' = Readers(n) \ {t} /\ t \in Readers(n)
  BY <1>1 DEF Readers
<1>5. IsFiniteSet(Readers(n))  BY ReadersFinite
<1> HIDE DEF Readers
<1>6. \A x \in {Readers(n)} : t \notin x => Cardinality(x \cup {t}) = Cardinality(x) + 1
  BY <1>5, FS_AddElement
<1>7. \A x \in {Readers(n)} : t \in x => Cardinality(x \ {t}) = Cardinality(x) - 1
  BY <1>5, FS_RemoveElement
<1> QED BY <1>2, <1>3, <1>4, <1>6, <1>7

LEMMA NoReaders ==
    ASSUME NEW n  PROVE Cardinality(Readers(n)) = 0 <=> Readers(n) = {}
BY ReadersFinite, FS_EmptySet
LEMMA NoReadersNext ==
    ASSUME NEW n  PROVE Cardinality(Readers(n)') = 0 <=> Readers(n)' = {}
BY ReadersFiniteNext, FS_EmptySet

\* A step in the list that moves no block.
LEMMA FreeSame ==
    ASSUME Base, NEW kind, NEW len, NEW q, PlaceAt(kind, len, q), NEW t \in Threads, FreeStep(t),
           Has(t)' = Has(t), As(t)' = As(t),
           StackAt(kind, len, q)', CountsAt(kind)', LocalsOK'
    PROVE  PlaceStep
<1>1. /\ KindsAt(kind) /\ FreshAt(kind) /\ NamedAt(kind) /\ OwnedAt(kind)
  BY DEF PlaceAt
<1>2. /\ poolIndex' = poolIndex /\ heap' = heap
      /\ OthersStay(t) /\ (\A p \in Producers : SubLive(p)) /\ PutBlocks'
  BY FreeFrame
<1>4. KindsAt(kind)'  BY <1>1 DEF KindsAt
<1>5. FreshAt(kind)'  BY <1>1, <1>2, FreshSame
<1>6. NamedAt(kind)'  BY <1>1, <1>2, NamedSame
<1>7. OwnedAt(kind)'
  <2>1. \A x \in Blocks : kind[x] = kind[x] \/ (kind[x] \notin OwnedKinds /\ kind[x] \notin OwnedKinds)
    OBVIOUS
  <2>2. Has(t) # Null => Has(t) \in Blocks /\ kind[Has(t)] = As(t)  BY <1>1 DEF OwnedAt
  <2>3. PICK h, g : h = Has(t) /\ g = Has(t)'  OBVIOUS
  <2>4. g = h /\ (g # Null => g \in Blocks /\ kind[g] = As(t)')  BY <2>2, <2>3
  <2> QED BY <1>1, <1>2, <2>1, <2>3, <2>4, OwnedStep
<1> QED BY <1>2, <1>4, <1>5, <1>6, <1>7 DEF PlaceAt, PlaceNow, PlaceStep

\* A step in the list that moves one block of the pool.
MayOwn(b, k, x, h, g, a) ==
    /\ h \in {Null, b} /\ g \in {Null, b}
    /\ g = b => a = x /\ (h = b \/ k \notin OwnedKinds)
    /\ g = Null /\ h = b => x \notin OwnedKinds
    /\ g = Null /\ h = Null => x \notin OwnedKinds /\ k \notin OwnedKinds

\* A step of the free list that moves one block from one kind to another.
LEMMA FreeMovesBlock ==
    ASSUME Base, NEW kind, NEW len, NEW q, PlaceAt(kind, len, q), NEW t \in Threads, FreeStep(t),
           NEW b \in Pool, NEW k, k = kind[b], k \in ListKinds, NEW x \in ListKinds,
           NEW K, K = Moved(kind, b, x),
           MayOwn(b, k, x, Has(t), Has(t)', As(t)'),
           NEW L, NEW Q, StackAt(K, L, Q)', OnlyNode(t, b), CountAt(K, b)', LocalsOK'
    PROVE  PlaceStep
<1>1. /\ KindsAt(kind) /\ FreshAt(kind) /\ NamedAt(kind) /\ OwnedAt(kind) /\ CountsAt(kind)
  BY DEF PlaceAt
<1>2. /\ poolIndex' = poolIndex /\ heap' = heap
      /\ OthersStay(t) /\ (\A p \in Producers : SubLive(p)) /\ PutBlocks'
  BY FreeFrame
<1>3. b \in Blocks /\ b # Null /\ x \in Kinds  BY BlockSets DEF ListKinds
<1>4. KindsAt(K)' /\ MovesTo(K, kind, b, x)  BY <1>1, <1>3, MovedAt
<1>5. K[b] = x /\ \A y \in Blocks : y # b => K[y] = kind[y]  BY <1>4 DEF MovesTo
<1>6. FreshAt(K)'
  <2>1. \A y \in Blocks : K[y] = "unused" <=> kind[y] = "unused"  BY <1>5 DEF ListKinds
  <2> QED BY <1>1, <1>2, <2>1, FreshSame
<1>7. NamedAt(K)'
  <2>1. \A y \in Blocks : K[y] = "named" <=> kind[y] = "named"  BY <1>5 DEF ListKinds
  <2> QED BY <1>1, <1>2, <2>1, NamedSame
<1>8. CountsAt(K)'  BY <1>1, <1>2, <1>5, CountsKept
<1>9. OwnedAt(K)'
  <2>0. PICK h, g : h = Has(t) /\ g = Has(t)'  OBVIOUS
  <2>m. MayOwn(b, k, x, h, g, As(t)')  BY <2>0
  <2>1. \A y \in Blocks : y # h /\ y # g =>
           K[y] = kind[y] \/ (K[y] \notin OwnedKinds /\ kind[y] \notin OwnedKinds)
    BY <1>3, <1>5, <2>m DEF MayOwn
  <2>2. g # Null => g \in Blocks /\ K[g] = As(t)' /\ (g = h \/ kind[g] \notin OwnedKinds)
    BY <1>3, <1>5, <2>m DEF MayOwn
  <2>3. h # Null /\ h # g => K[h] \notin OwnedKinds  BY <1>3, <1>5, <2>m DEF MayOwn
  <2> QED BY <1>1, <1>2, <2>0, <2>1, <2>2, <2>3, OwnedStep
<1> QED BY <1>2, <1>4, <1>6, <1>7, <1>8, <1>9 DEF PlaceAt, PlaceNow, PlaceStep

LEMMA NodeAt ==
    ASSUME Base, NEW t \in Threads, at[t] \notin {"out", "head", "refs"}
    PROVE  node[t] \in Pool /\ node[t] \in Blocks /\ node[t] # Null
<1>1. at[t] \in WithNode /\ node[t] \in MaybeNode  BY DEF Base, FreeShape, WithNode
<1>2. node[t] # Null  BY <1>1 DEF Base, FreeShape
<1> QED BY <1>1, <1>2, BlockSets DEF MaybeNode

\* Steps that only read the list.
LEMMA FreeCalm ==
    ASSUME Base, NEW kind, NEW len, NEW q, PlaceAt(kind, len, q), LocalsOK, NEW t \in Threads, FreeStep(t),
           freeListHead' = freeListHead, refs' = refs, should' = should, next' = next,
           \A n : Reads(t, n)' <=> Reads(t, n),
           Has(t)' = Has(t), As(t)' = As(t), LocalAt(t)'
    PROVE  PlaceStep
<1>1. OthersStay(t)  BY FreeFrame
<1>2. StackAt(kind, len, q)'  BY StackSame DEF PlaceAt
<1>3. LocalsOK'  BY <1>1, LocalsKept
<1>4. CountsAt(kind)'
  <2>1. \A n : Readers(n)' = Readers(n)  BY <1>1 DEF Readers, OthersStay
  <2> QED BY <2>1 DEF PlaceAt, CountsAt, CountAt
<1> QED BY <1>2, <1>3, <1>4, FreeSame

\* Each step of FreeList keeps the places; those that exchange the head or a count
\* move one block.
LEMMA PlaceLoadHead ==
    ASSUME Base, NEW kind, NEW len, NEW q, PlaceAt(kind, len, q), LocalsOK,
           NEW t \in Threads, FreeStep(t), Free!LoadHead(t)
    PROVE  PlaceStep
<1>1. my' = my /\ my[t].pc \in {"get", "add"} /\ (my[t].pc = "add" => at[t] \in AddLabels)
  BY FreeFrame
<1>2. /\ at[t] = "head" /\ freeListHead' = freeListHead /\ refs' = refs /\ should' = should /\ next' = next
      /\ (at'[t] = "out" /\ node'[t] = Null) \/ at'[t] = "refs"
  BY DEF Free!LoadHead, Free!Return, Free!Jump, Free!list, Base, FreeShape
<1>3. my[t].pc = "get"  BY <1>1, <1>2 DEF AddLabels
<1>4. Has(t)' = Has(t) /\ As(t)' = As(t)
  BY <1>1, <1>2, <1>3, HasIn, HasInNext DEF OwnLabels, As
<1>5. LocalAt(t)' /\ \A n : Reads(t, n)' <=> Reads(t, n)  BY <1>2 DEF LocalAt, Reads, ReadLabels
<1> QED BY <1>2, <1>4, <1>5, FreeCalm

LEMMA PlaceLoadRefs ==
    ASSUME Base, NEW kind, NEW len, NEW q, PlaceAt(kind, len, q), LocalsOK,
           NEW t \in Threads, FreeStep(t), Free!LoadRefs(t)
    PROVE  PlaceStep
<1>1. my' = my /\ my[t].pc \in {"get", "add"}
  BY FreeFrame
<1>2. /\ at[t] = "refs" /\ freeListHead' = freeListHead /\ refs' = refs /\ should' = should /\ next' = next
      /\ at'[t] = IF refs[head[t]] = 0 THEN "head" ELSE "hold"
      /\ seen'[t] = <<refs[head[t]], should[head[t]]>>
  BY DEF Free!LoadRefs, Free!Jump, Free!list, Base, FreeShape
<1>4. Has(t)' = Has(t) /\ As(t)' = As(t)
  BY <1>1, <1>2, HasIn, HasInNext DEF OwnLabels, As
<1>5. LocalAt(t)' /\ \A n : Reads(t, n)' <=> Reads(t, n)  BY <1>2 DEF LocalAt, Reads, ReadLabels
<1> QED BY <1>2, <1>4, <1>5, FreeCalm

LEMMA PlaceLoadNext ==
    ASSUME Base, NEW kind, NEW len, NEW q, PlaceAt(kind, len, q), LocalsOK,
           NEW t \in Threads, FreeStep(t), Free!LoadNext(t)
    PROVE  PlaceStep
<1>1. my' = my /\ my[t].pc \in {"get", "add"}
  BY FreeFrame
<1>2. /\ at[t] = "next" /\ freeListHead' = freeListHead /\ refs' = refs /\ should' = should /\ next' = next
      /\ at'[t] = "pop" /\ node' = node /\ nxt'[t] = next[node[t]]
  BY DEF Free!LoadNext, Free!Jump, Free!list, Base, FreeShape
<1>4. Has(t)' = Has(t) /\ As(t)' = As(t)
  BY <1>1, <1>2, HasIn, HasInNext DEF OwnLabels, As
<1>5. LocalAt(t)' /\ \A n : Reads(t, n)' <=> Reads(t, n)  BY <1>2 DEF LocalAt, Reads, ReadLabels
<1> QED BY <1>2, <1>4, <1>5, FreeCalm

LEMMA PlaceLoadTop ==
    ASSUME Base, NEW kind, NEW len, NEW q, PlaceAt(kind, len, q), LocalsOK,
           NEW t \in Threads, FreeStep(t), Free!LoadTop(t)
    PROVE  PlaceStep
<1>1. my' = my /\ my[t].pc \in {"get", "add"}
  BY FreeFrame
<1>2. /\ at[t] = "load" /\ freeListHead' = freeListHead /\ refs' = refs /\ should' = should /\ next' = next
      /\ at'[t] = "link" /\ node' = node
  BY DEF Free!LoadTop, Free!Jump, Free!list, Base, FreeShape
<1>4. Has(t)' = Has(t) /\ As(t)' = As(t)
  BY <1>1, <1>2, HasIn, HasInNext DEF OwnLabels, As
<1>5. LocalAt(t)' /\ \A n : Reads(t, n)' <=> Reads(t, n)  BY <1>2 DEF LocalAt, Reads, ReadLabels
<1> QED BY <1>2, <1>4, <1>5, FreeCalm

LEMMA PlaceHold ==
    ASSUME Base, NEW kind, NEW len, NEW q, PlaceAt(kind, len, q), LocalsOK,
           NEW t \in Threads, FreeStep(t), Free!Hold(t)
    PROVE  PlaceStep
<1>1. my' = my /\ my[t].pc \in {"get", "add"} /\ OthersStay(t)
  BY FreeFrame
<1>2. /\ at[t] = "hold" /\ freeListHead' = freeListHead /\ should' = should /\ next' = next /\ node' = node
      /\ at'[t] \in {"next", "head"}
  BY DEF Free!Hold, Free!Jump, Base, FreeShape
<1>3. Has(t)' = Has(t) /\ As(t)' = As(t)
  BY <1>1, <1>2, HasIn, HasInNext DEF OwnLabels, As
<1>4. CASE refs' = refs /\ at'[t] = "head"
  <2>1. LocalAt(t)' /\ \A n : Reads(t, n)' <=> Reads(t, n)  BY <1>2, <1>4 DEF LocalAt, Reads, ReadLabels
  <2> QED BY <1>2, <1>3, <1>4, <2>1, FreeCalm
<1>5. CASE seen[t] = <<refs[node[t]], should[node[t]]>> /\ refs' = [refs EXCEPT ![node[t]] = @ + 1]
           /\ at'[t] = "next"
  <2>1. PICK b : b = node[t]  OBVIOUS
  <2>2. b \in Pool /\ b \in Blocks  BY <1>2, <2>1, NodeAt
  <2>3. CountAt(kind, b)  BY <2>2 DEF PlaceAt, CountsAt
  <2>4. refs[b] # 0
    <3>1. seen[t][1] # 0  BY <1>2 DEF LocalsOK, LocalAt
    <3> QED BY <1>5, <2>1, <3>1
  <2>5. refs'[b] = refs[b] + 1 /\ \A n \in Pool : n # b => refs'[n] = refs[n]
    BY <1>5, <2>1, <2>2 DEF Base, FreeShape
  <2>6. ~Reads(t, b) /\ Reads(t, b)' /\ \A n : n # b => ~Reads(t, n) /\ ~Reads(t, n)'
    BY <1>2, <1>5, <2>1 DEF Reads, ReadLabels
  <2>7. Cardinality(Readers(b)') = Cardinality(Readers(b)) + 1 /\ Readers(b)' # {}
        /\ Cardinality(Readers(b)) \in Nat
    BY <1>1, <2>6, ReadersStep, ReadersFinite DEF Readers
  <2>8. kind[b] # "ready"
    <3>1. kind[b] = "ready" => Cardinality(Readers(b)) = 0 /\ ListRef(kind[b]) = 0
      BY <2>3, NoReaders DEF CountAt, ListRef
    <3>2. refs[b] = Cardinality(Readers(b)) + ListRef(kind[b])  BY <2>3 DEF CountAt
    <3> QED BY <2>4, <3>1, <3>2
  <2>9. CountAt(kind, b)'
    <3>1. refs'[b] = Cardinality(Readers(b)') + ListRef(kind[b])
      <4>1. refs[b] = Cardinality(Readers(b)) + ListRef(kind[b]) /\ ListRef(kind[b]) \in Nat
        BY <2>3 DEF CountAt, ListRef
      <4> QED BY <2>5, <2>7, <4>1
    <3> QED BY <1>2, <2>3, <2>7, <2>8, <3>1 DEF CountAt
  <2>10. CountsAt(kind)'
    <3>1. OnlyNode(t, b)  BY <1>2, <2>5, <2>6 DEF OnlyNode
    <3> QED BY <1>1, <2>9, <3>1, CountsKept DEF PlaceAt
  <2>11. StackAt(kind, len, q)'  BY <1>2, StackSame DEF PlaceAt
  <2>12. LocalsOK'
    <3>1. LocalAt(t)'  BY <1>5 DEF LocalAt
    <3> QED BY <1>1, <1>2, <3>1, LocalsKept
  <2> QED BY <1>3, <2>10, <2>11, <2>12, FreeSame
<1>6. \/ refs' = refs /\ at'[t] = "head"
      \/ seen[t] = <<refs[node[t]], should[node[t]]>> /\ refs' = [refs EXCEPT ![node[t]] = @ + 1]
           /\ at'[t] = "next"
  BY DEF Free!Hold, Free!Jump, Base, FreeShape
<1> QED BY <1>4, <1>5, <1>6

LEMMA PlacePop ==
    ASSUME Base, NEW kind, NEW len, NEW q, PlaceAt(kind, len, q), LocalsOK,
           NEW t \in Threads, FreeStep(t), Free!Pop(t)
    PROVE  PlaceStep
<1>1. my' = my /\ my[t].pc \in {"get", "add"} /\ OthersStay(t)
  BY FreeFrame
<1>2. /\ at[t] = "pop" /\ refs' = refs /\ should' = should /\ next' = next /\ node' = node
      /\ \/ freeListHead = node[t] /\ freeListHead' = nxt[t] /\ at'[t] = "release"
         \/ freeListHead' = freeListHead /\ at'[t] = "drop"
  BY DEF Free!Pop, Free!Jump, Base, FreeShape
<1>3. Has(t) = Null  BY <1>1, <1>2, HasIn DEF OwnLabels
<1>4. CASE freeListHead' = freeListHead /\ at'[t] = "drop"
  <2>1. Has(t)' = Has(t) /\ As(t)' = As(t)
    BY <1>1, <1>2, <1>4, HasIn, HasInNext DEF OwnLabels, As
  <2>2. LocalAt(t)' /\ \A n : Reads(t, n)' <=> Reads(t, n)  BY <1>2, <1>4 DEF LocalAt, Reads, ReadLabels
  <2> QED BY <1>2, <1>4, <2>1, <2>2, FreeCalm
<1>5. CASE freeListHead = node[t] /\ freeListHead' = nxt[t] /\ at'[t] = "release"
  <2>1. PICK b : b = node[t]  OBVIOUS
  <2>2. b \in Pool /\ b \in Blocks /\ b # Null  BY <1>2, <2>1, NodeAt
  <2>3. StackAt(kind, len, q) /\ CountAt(kind, b) /\ KindsAt(kind)  BY <2>2 DEF PlaceAt, CountsAt
  <2>4. len \in Nat /\ len # 0 /\ b = q[len-1]
    BY <1>5, <2>1, <2>2, <2>3 DEF StackAt
  <2>5. len - 1 \in 0..(len-1) /\ len - 1 \in Nat  BY <2>4
  <2>6. kind[b] = "listed" /\ next[b] = IF len - 1 = 0 THEN Null ELSE q[len-1-1]
    BY <2>3, <2>4, <2>5 DEF StackAt
  <2>7. nxt[t] = next[b]  BY <1>2, <2>1 DEF LocalsOK, LocalAt
  <2>8. PICK k, x, K : k = kind[b] /\ x = "counted" /\ K = Moved(kind, b, x)  OBVIOUS
  <2>9. k \in ListKinds /\ x \in ListKinds /\ x \in Kinds  BY <2>6, <2>8 DEF ListKinds, Kinds
  <2>10. K[b] = "counted" /\ \A y \in Blocks : y # b => K[y] = kind[y]
    <3>1. MovesTo(K, kind, b, x)  BY <2>2, <2>3, <2>8, <2>9, MovedAt
    <3> QED BY <2>8, <3>1 DEF MovesTo
  <2>11. Has(t)' = b /\ As(t)' = "counted"
    BY <1>1, <1>2, <1>5, <2>1, HasInNext DEF OwnLabels, As
  <2>12. MayOwn(b, k, x, Has(t), Has(t)', As(t)')
    BY <1>3, <2>2, <2>6, <2>8, <2>11 DEF MayOwn, OwnedKinds
  <2>13. StackAt(K, len - 1, q)'
    <3>1. \A i \in 0..(len-1-1) : i \in 0..(len-1) /\ i # len - 1  BY <2>4
    <3>2. \A i \in 0..(len-1-1) : q[i] \in Pool /\ q[i] # b
      BY <2>3, <2>4, <2>5, <3>1 DEF StackAt
    <3>3. \A i \in 0..(len-1-1) : q[i] \in Pool /\ K[q[i]] = "listed"
      BY <2>3, <2>10, <3>1, <3>2, BlockSets DEF StackAt
    <3>4. \A i, j \in 0..(len-1-1) : q[i] = q[j] => i = j  BY <2>3, <3>1 DEF StackAt
    <3>5. \A y \in Blocks : K[y] = "listed" => \E i \in 0..(len-1-1) : q[i] = y
      <4> SUFFICES ASSUME NEW y \in Blocks, K[y] = "listed"  PROVE \E i \in 0..(len-1-1) : q[i] = y
        OBVIOUS
      <4>1. y # b /\ kind[y] = "listed"  BY <2>10
      <4>2. PICK i \in 0..(len-1) : q[i] = y  BY <2>3, <4>1 DEF StackAt
      <4>3. i # len - 1  BY <2>4, <4>1, <4>2
      <4>4. i \in 0..(len-1-1)  BY <2>4, <4>3
      <4> QED BY <4>2, <4>4
    <3>6. freeListHead' = IF len - 1 = 0 THEN Null ELSE q[len-1-1]
      BY <1>5, <2>6, <2>7
    <3>7. \A i \in 0..(len-1-1) : next'[q[i]] = IF i = 0 THEN Null ELSE q[i-1]
      BY <1>2, <2>3, <3>1 DEF StackAt
    <3> QED BY <2>5, <3>3, <3>4, <3>5, <3>6, <3>7 DEF StackAt
  <2>14. /\ Reads(t, b) /\ Reads(t, b)' /\ \A n : n # b => ~Reads(t, n) /\ ~Reads(t, n)'
    BY <1>2, <1>5, <2>1 DEF Reads, ReadLabels
  <2>15. OnlyNode(t, b)  BY <1>2, <2>14 DEF OnlyNode
  <2>16. CountAt(K, b)'
    <3>1. Readers(b)' = Readers(b)  BY <1>1, <2>14, ReadersStep
    <3>2. ListRef(K[b]) = ListRef(kind[b])  BY <2>6, <2>10 DEF ListRef
    <3> QED BY <1>2, <2>3, <2>6, <2>10, <3>1, <3>2 DEF CountAt
  <2>17. LocalsOK'
    <3>1. LocalAt(t)'  BY <1>5 DEF LocalAt
    <3> QED BY <1>1, <1>2, <3>1, LocalsKept
  <2>18. PICK L : L = len - 1  OBVIOUS
  <2>19. StackAt(K, L, q)'  BY <2>13, <2>18
  <2> QED BY <2>2, <2>8, <2>9, <2>12, <2>15, <2>16, <2>17, <2>19, FreeMovesBlock
<1> QED BY <1>2, <1>4, <1>5

\* The node of a thread that alone is responsible for it.
LEMMA OwnNode ==
    ASSUME Base, NEW kind, NEW len, NEW q, PlaceAt(kind, len, q),
           NEW t \in Threads, FreeStep(t), at[t] \in OwnLabels, NEW b, b = node[t]
    PROVE  /\ b \in Pool /\ b \in Blocks /\ b # Null /\ Has(t) = b /\ kind[b] = As(t)
           /\ CountAt(kind, b) /\ \A u \in Threads \ {t} : Has(u) # b
<1>1. my[t].pc \in {"get", "add"}  BY FreeFrame
<1>2. b \in Pool /\ b \in Blocks /\ b # Null  BY NodeAt DEF OwnLabels
<1>3. Has(t) = b  BY <1>1, HasIn
<1>4. OwnedAt(kind) /\ CountAt(kind, b)  BY <1>2 DEF PlaceAt, CountsAt
<1> QED BY <1>2, <1>3, <1>4 DEF OwnedAt

\* What one block's move makes of the function.
LEMMA MovedOne ==
    ASSUME NEW kind, NEW len, NEW q, PlaceAt(kind, len, q), NEW b \in Pool, NEW x \in ListKinds,
           NEW K, K = Moved(kind, b, x)
    PROVE  K[b] = x /\ \A y \in Blocks : y # b => K[y] = kind[y]
<1>1. KindsAt(kind) /\ b \in Blocks /\ x \in Kinds  BY BlockSets DEF PlaceAt, ListKinds
<1>2. MovesTo(K, kind, b, x)  BY <1>1, MovedAt
<1> QED BY <1>2 DEF MovesTo

\* The stack when neither kind of the moved block is listed.
LEMMA StackBeside ==
    ASSUME NEW kind, NEW len, NEW q, PlaceAt(kind, len, q), NEW b, NEW K,
           \A y \in Blocks : y # b => K[y] = kind[y],
           kind[b] # "listed", K[b] # "listed", freeListHead' = freeListHead, next' = next
    PROVE  StackAt(K, len, q)'
<1>1. \A y \in Blocks : K[y] = "listed" <=> kind[y] = "listed"  OBVIOUS
<1> QED BY <1>1, StackSame DEF PlaceAt

LEMMA PlaceRelease ==
    ASSUME Base, NEW kind, NEW len, NEW q, PlaceAt(kind, len, q), LocalsOK,
           NEW t \in Threads, FreeStep(t), Free!Release(t)
    PROVE  PlaceStep
<1>1. my' = my /\ my[t].pc \in {"get", "add"} /\ OthersStay(t) /\ (my[t].pc = "add" => at[t] \in AddLabels)
  BY FreeFrame
<1>2. PICK b : b = node[t]  OBVIOUS
<1>3. /\ at[t] = "release" /\ freeListHead' = freeListHead /\ should' = should /\ next' = next
      /\ at'[t] = "out" /\ node'[t] = b /\ refs' = [refs EXCEPT ![b] = refs[b] - 2]
  BY <1>2 DEF Free!Release, Free!Return, Free!Jump, Base, FreeShape
<1>4. my[t].pc = "get"  BY <1>1, <1>3 DEF AddLabels
<1>5. /\ b \in Pool /\ b \in Blocks /\ b # Null /\ Has(t) = b /\ kind[b] = As(t) /\ CountAt(kind, b)
  BY <1>2, <1>3, OwnNode DEF OwnLabels
<1>6. kind[b] = "counted"  BY <1>3, <1>5 DEF As
<1>7. Has(t)' = b /\ As(t)' = "held"  BY <1>1, <1>3, <1>4, HasInNext DEF As
<1>8. PICK k, x, K : k = kind[b] /\ x = "held" /\ K = Moved(kind, b, x)  OBVIOUS
<1>9. k \in ListKinds /\ x \in ListKinds  BY <1>6, <1>8 DEF ListKinds, Kinds
<1>10. K[b] = "held" /\ \A y \in Blocks : y # b => K[y] = kind[y]  BY <1>5, <1>8, <1>9, MovedOne
<1>11. MayOwn(b, k, x, Has(t), Has(t)', As(t)')  BY <1>5, <1>7, <1>8 DEF MayOwn
<1>12. /\ Reads(t, b) /\ ~Reads(t, b)' /\ \A n : n # b => ~Reads(t, n) /\ ~Reads(t, n)'
  BY <1>2, <1>3 DEF Reads, ReadLabels
<1>13. refs'[b] = refs[b] - 2 /\ \A n \in Pool : n # b => refs'[n] = refs[n]
  BY <1>3, <1>5 DEF Base, FreeShape
<1>14. OnlyNode(t, b)  BY <1>3, <1>12, <1>13 DEF OnlyNode
<1>15. CountAt(K, b)'
  <2>1. Cardinality(Readers(b)') = Cardinality(Readers(b)) - 1 /\ Cardinality(Readers(b)) \in Nat
    BY <1>1, <1>12, ReadersStep, ReadersFinite
  <2>2. refs[b] = Cardinality(Readers(b)) + 1  BY <1>5, <1>6 DEF CountAt, ListRef
  <2>3. ListRef(K[b]) = 0  BY <1>10 DEF ListRef
  <2>4. refs'[b] = Cardinality(Readers(b)') + ListRef(K[b])  BY <1>13, <2>1, <2>2, <2>3
  <2> QED BY <1>3, <1>5, <1>6, <1>10, <2>4 DEF CountAt
<1>16. LocalsOK'
  <2>1. LocalAt(t)'  BY <1>3 DEF LocalAt
  <2> QED BY <1>1, <1>3, <2>1, LocalsKept
<1>17. StackAt(K, len, q)'  BY <1>3, <1>6, <1>10, StackBeside
<1> QED BY <1>5, <1>8, <1>9, <1>11, <1>14, <1>15, <1>16, <1>17, FreeMovesBlock

LEMMA PlaceDrop ==
    ASSUME Base, NEW kind, NEW len, NEW q, PlaceAt(kind, len, q), LocalsOK,
           NEW t \in Threads, FreeStep(t), Free!Drop(t)
    PROVE  PlaceStep
<1>1. my' = my /\ my[t].pc \in {"get", "add"} /\ OthersStay(t) /\ (my[t].pc = "add" => at[t] \in AddLabels)
  BY FreeFrame
<1>2. PICK b : b = node[t]  OBVIOUS
<1>3. /\ at[t] = "drop" /\ freeListHead' = freeListHead /\ should' = should /\ next' = next
      /\ refs' = [refs EXCEPT ![b] = refs[b] - 1]
      /\ \/ refs[b] = 1 /\ should[b] /\ at'[t] = "load" /\ node' = node
         \/ ~(refs[b] = 1 /\ should[b]) /\ (at'[t] = "refs" \/ (at'[t] = "out" /\ node'[t] = Null))
  BY <1>2 DEF Free!Drop, Free!Again, Free!Return, Free!Jump, Base, FreeShape
<1>4. my[t].pc = "get"  BY <1>1, <1>3 DEF AddLabels
<1>5. b \in Pool /\ b \in Blocks /\ b # Null  BY <1>2, <1>3, NodeAt
<1>6. CountAt(kind, b)  BY <1>5 DEF PlaceAt, CountsAt
<1>7. Has(t) = Null  BY <1>1, <1>3, HasIn DEF OwnLabels
<1>12. /\ Reads(t, b) /\ ~Reads(t, b)' /\ \A n : n # b => ~Reads(t, n) /\ ~Reads(t, n)'
  BY <1>2, <1>3 DEF Reads, ReadLabels
<1>13. refs'[b] = refs[b] - 1 /\ \A n \in Pool : n # b => refs'[n] = refs[n]
  BY <1>3, <1>5 DEF Base, FreeShape
<1>14. OnlyNode(t, b)  BY <1>3, <1>12, <1>13 DEF OnlyNode
<1>15. /\ Cardinality(Readers(b)') = Cardinality(Readers(b)) - 1 /\ Cardinality(Readers(b)) \in Nat
       /\ Cardinality(Readers(b)') \in Nat
  BY <1>1, <1>12, ReadersStep, ReadersFinite, ReadersFiniteNext
<1>16. LocalsOK'
  <2>1. LocalAt(t)'  BY <1>3 DEF LocalAt
  <2> QED BY <1>1, <1>3, <2>1, LocalsKept
<1>17. kind[b] # "ready"
  <2>1. Readers(b) # {}  BY <1>12 DEF Readers
  <2> QED BY <1>6, <2>1 DEF CountAt
<1>18. refs[b] = Cardinality(Readers(b)) + ListRef(kind[b]) /\ ListRef(kind[b]) \in Nat
  BY <1>6 DEF CountAt, ListRef
<1>19. CASE refs[b] = 1 /\ should[b] /\ at'[t] = "load" /\ node' = node
  <2>1. kind[b] = "left"  BY <1>6, <1>17, <1>19 DEF CountAt
  <2>2. Has(t)' = b /\ As(t)' = "ready"  BY <1>1, <1>2, <1>19, HasInNext DEF As, OwnLabels
  <2>3. PICK k, x, K : k = kind[b] /\ x = "ready" /\ K = Moved(kind, b, x)  OBVIOUS
  <2>4. k \in ListKinds /\ x \in ListKinds  BY <2>1, <2>3 DEF ListKinds, Kinds
  <2>5. K[b] = "ready" /\ \A y \in Blocks : y # b => K[y] = kind[y]  BY <1>5, <2>3, <2>4, MovedOne
  <2>6. MayOwn(b, k, x, Has(t), Has(t)', As(t)')
    BY <1>5, <1>7, <2>1, <2>2, <2>3 DEF MayOwn, OwnedKinds
  <2>7. CountAt(K, b)'
    <3>1. ListRef(kind[b]) = 0 /\ ListRef(K[b]) = 0  BY <2>1, <2>5 DEF ListRef
    <3>2. refs'[b] = Cardinality(Readers(b)') + ListRef(K[b]) /\ Cardinality(Readers(b)') = 0
      BY <1>13, <1>15, <1>18, <1>19, <3>1
    <3>3. Readers(b)' = {}  BY <3>2, NoReadersNext
    <3> QED BY <1>3, <1>19, <2>5, <3>2, <3>3 DEF CountAt
  <2>8. StackAt(K, len, q)'  BY <1>3, <2>1, <2>5, StackBeside
  <2> QED BY <1>5, <1>14, <1>16, <2>3, <2>4, <2>6, <2>7, <2>8, FreeMovesBlock
<1>20. CASE ~(refs[b] = 1 /\ should[b]) /\ (at'[t] = "refs" \/ (at'[t] = "out" /\ node'[t] = Null))
  <2>1. Has(t)' = Has(t) /\ As(t)' = As(t)
    BY <1>1, <1>3, <1>4, <1>7, <1>20, HasInNext DEF OwnLabels, As
  <2>2. CountAt(kind, b)'
    <3>1. refs'[b] = Cardinality(Readers(b)') + ListRef(kind[b])  BY <1>13, <1>15, <1>18
    <3>2. kind[b] = "left" => Cardinality(Readers(b)') # 0
      <4>1. kind[b] = "left" => ListRef(kind[b]) = 0 /\ should[b]  BY <1>6 DEF ListRef, CountAt
      <4> QED BY <1>15, <1>18, <1>20, <4>1
    <3>3. kind[b] = "left" => Readers(b)' # {}  BY <3>2, NoReadersNext
    <3> QED BY <1>3, <1>6, <1>17, <3>1, <3>3 DEF CountAt
  <2>3. CountsAt(kind)'  BY <1>1, <1>14, <2>2, CountsKept DEF PlaceAt
  <2>4. StackAt(kind, len, q)'  BY <1>3, StackSame DEF PlaceAt
  <2> QED BY <1>16, <2>1, <2>3, <2>4, FreeSame
<1> QED BY <1>3, <1>19, <1>20

LEMMA PlaceAdd ==
    ASSUME Base, NEW kind, NEW len, NEW q, PlaceAt(kind, len, q), LocalsOK,
           NEW t \in Threads, FreeStep(t), Free!Add(t)
    PROVE  PlaceStep
<1>1. my' = my /\ my[t].pc \in {"get", "add"} /\ OthersStay(t) /\ (my[t].pc = "get" => at[t] # "add")
  BY FreeFrame
<1>2. PICK b : b = node[t]  OBVIOUS
<1>3. /\ at[t] = "add" /\ freeListHead' = freeListHead /\ refs' = refs /\ next' = next
      /\ should' = [should EXCEPT ![b] = TRUE]
      /\ \/ refs[b] = 0 /\ at'[t] = "load" /\ node' = node
         \/ refs[b] # 0 /\ at'[t] = "out" /\ node'[t] = Null
  BY <1>2 DEF Free!Add, Free!Return, Free!Jump, Base, FreeShape
<1>4. my[t].pc = "add"  BY <1>1, <1>3
<1>5. /\ b \in Pool /\ b \in Blocks /\ b # Null /\ Has(t) = b /\ kind[b] = As(t) /\ CountAt(kind, b)
  BY <1>2, <1>3, OwnNode DEF OwnLabels
<1>6. kind[b] = "held"  BY <1>3, <1>5 DEF As
<1>12. /\ ~Reads(t, b) /\ ~Reads(t, b)' /\ \A n : n # b => ~Reads(t, n) /\ ~Reads(t, n)'
  BY <1>2, <1>3 DEF Reads, ReadLabels
<1>13. should'[b] = TRUE /\ \A n \in Pool : n # b => should'[n] = should[n]
  BY <1>3, <1>5 DEF Base, FreeShape
<1>14. OnlyNode(t, b)  BY <1>3, <1>12, <1>13 DEF OnlyNode
<1>15. Readers(b)' = Readers(b) /\ refs[b] = Cardinality(Readers(b))
  <2>1. Cardinality(Readers(b)) \in Nat  BY ReadersFinite
  <2>2. refs[b] = Cardinality(Readers(b)) + 0  BY <1>5, <1>6 DEF CountAt, ListRef
  <2> QED BY <1>1, <1>12, <2>1, <2>2, ReadersStep
<1>16. LocalsOK'
  <2>1. LocalAt(t)'  BY <1>3 DEF LocalAt
  <2> QED BY <1>1, <1>3, <2>1, LocalsKept
<1>17. ASSUME NEW x \in {"ready", "left"}, x = "ready" <=> refs[b] = 0,
              MayOwn(b, kind[b], x, Has(t), Has(t)', As(t)')
       PROVE  PlaceStep
  <2>1. PICK k, K : k = kind[b] /\ K = Moved(kind, b, x)  OBVIOUS
  <2>2. k \in ListKinds /\ x \in ListKinds  BY <1>6, <2>1 DEF ListKinds, Kinds
  <2>3. K[b] = x /\ \A y \in Blocks : y # b => K[y] = kind[y]  BY <1>5, <2>1, <2>2, MovedOne
  <2>4. CountAt(K, b)'
    <3>1. ListRef(K[b]) = 0  BY <2>3 DEF ListRef
    <3>2. refs'[b] = Cardinality(Readers(b)') + ListRef(K[b])
      <4>1. Cardinality(Readers(b)) \in Nat  BY ReadersFinite
      <4> QED BY <1>3, <1>15, <3>1, <4>1
    <3>3. Readers(b)' = {} <=> x = "ready"  BY <1>15, <1>17, NoReaders
    <3> QED BY <1>13, <2>3, <3>2, <3>3 DEF CountAt
  <2>5. StackAt(K, len, q)'  BY <1>3, <1>6, <2>3, StackBeside
  <2>6. MayOwn(b, k, x, Has(t), Has(t)', As(t)')  BY <1>17, <2>1
  <2> QED BY <1>5, <1>14, <1>16, <2>1, <2>2, <2>4, <2>5, <2>6, FreeMovesBlock
<1>18. CASE refs[b] = 0 /\ at'[t] = "load" /\ node' = node
  <2>1. Has(t)' = b /\ As(t)' = "ready"  BY <1>1, <1>2, <1>18, HasInNext DEF As, OwnLabels
  <2>2. MayOwn(b, kind[b], "ready", Has(t), Has(t)', As(t)')  BY <1>5, <2>1 DEF MayOwn
  <2> QED BY <1>17, <1>18, <2>2
<1>19. CASE refs[b] # 0 /\ at'[t] = "out" /\ node'[t] = Null
  <2>1. Has(t)' = Null  BY <1>1, <1>4, <1>19, HasInNext
  <2>2. MayOwn(b, kind[b], "left", Has(t), Has(t)', As(t)')  BY <1>5, <2>1 DEF MayOwn, OwnedKinds
  <2> QED BY <1>17, <1>19, <2>2
<1> QED BY <1>3, <1>18, <1>19

LEMMA PlaceLink ==
    ASSUME Base, NEW kind, NEW len, NEW q, PlaceAt(kind, len, q), LocalsOK,
           NEW t \in Threads, FreeStep(t), Free!Link(t)
    PROVE  PlaceStep
<1>1. my' = my /\ my[t].pc \in {"get", "add"} /\ OthersStay(t)
  BY FreeFrame
<1>2. PICK b : b = node[t]  OBVIOUS
<1>3. /\ at[t] = "link" /\ freeListHead' = freeListHead /\ refs' = refs /\ should' = should
      /\ next' = [next EXCEPT ![b] = nxt[t]]
      /\ at'[t] = "count" /\ node' = node /\ nxt' = nxt
  BY <1>2 DEF Free!Link, Free!Jump, Base, FreeShape
<1>5. /\ b \in Pool /\ b \in Blocks /\ b # Null /\ Has(t) = b /\ kind[b] = As(t) /\ CountAt(kind, b)
      /\ \A u \in Threads \ {t} : Has(u) # b
  BY <1>2, <1>3, OwnNode DEF OwnLabels
<1>6. kind[b] = "ready"  BY <1>3, <1>5 DEF As
<1>7. Has(t)' = Has(t) /\ As(t)' = As(t)
  BY <1>1, <1>3, HasIn, HasInNext DEF OwnLabels, As
<1>8. next'[b] = nxt[t] /\ \A n \in Pool : n # b => next'[n] = next[n]
  BY <1>3, <1>5 DEF Base, FreeShape
<1>9. StackAt(kind, len, q)'
  <2>1. \A n \in Pool : kind[n] = "listed" => next'[n] = next[n]  BY <1>6, <1>8
  <2> QED BY <1>3, <2>1, StackSame DEF PlaceAt
<1>10. CountsAt(kind)'
  <2>1. \A n : Readers(n)' = Readers(n)
    <3>1. \A n : ~Reads(t, n) /\ ~Reads(t, n)'  BY <1>3 DEF Reads, ReadLabels
    <3> QED BY <1>1, <3>1 DEF Readers, OthersStay
  <2> QED BY <1>3, <2>1 DEF PlaceAt, CountsAt, CountAt
<1>11. LocalsOK'
  <2>1. LocalAt(t)'  BY <1>2, <1>3, <1>8 DEF LocalAt
  <2>2. ASSUME NEW u \in Threads \ {t}  PROVE LocalAt(u)'
    <3>1. FreeApart(u) /\ LocalAt(u)  BY <1>1 DEF OthersStay, LocalsOK
    <3>2. CASE at[u] \in {"pop", "count", "push"}
      <4>1. node[u] \in Pool  BY <3>2, NodeAt
      <4>2. my[u].pc \in {"get", "add"}  BY <3>2 DEF Base, LabelInv, LabelAt
      <4>3. node[u] # b
        <5>1. CASE at[u] = "pop"
          <6>1. ~Reads(u, b)  BY <1>5, <1>6, NoReader DEF CountAt
          <6> QED BY <5>1, <6>1 DEF Reads, ReadLabels
        <5>2. CASE at[u] # "pop"
          <6>1. Has(u) = node[u]  BY <3>2, <4>2, <5>2, HasIn DEF OwnLabels
          <6> QED BY <1>5, <6>1
        <5> QED BY <5>1, <5>2
      <4>4. next'[node[u]] = next[node[u]]  BY <1>8, <4>1, <4>3
      <4> QED BY <3>1, <4>4 DEF LocalAt, FreeApart
    <3>3. CASE at[u] \notin {"pop", "count", "push"}  BY <3>1, <3>3 DEF LocalAt, FreeApart
    <3> QED BY <3>2, <3>3
  <2> QED BY <2>1, <2>2 DEF LocalsOK
<1> QED BY <1>7, <1>9, <1>10, <1>11, FreeSame

LEMMA PlaceCountOne ==
    ASSUME Base, NEW kind, NEW len, NEW q, PlaceAt(kind, len, q), LocalsOK,
           NEW t \in Threads, FreeStep(t), Free!CountOne(t)
    PROVE  PlaceStep
<1>1. my' = my /\ my[t].pc \in {"get", "add"} /\ OthersStay(t)
  BY FreeFrame
<1>2. PICK b : b = node[t]  OBVIOUS
<1>3. /\ at[t] = "count" /\ freeListHead' = freeListHead /\ next' = next
      /\ refs' = [refs EXCEPT ![b] = 1] /\ should' = [should EXCEPT ![b] = FALSE]
      /\ at'[t] = "push" /\ node' = node /\ nxt' = nxt
  BY <1>2 DEF Free!CountOne, Free!Jump, Base, FreeShape
<1>5. /\ b \in Pool /\ b \in Blocks /\ b # Null /\ Has(t) = b /\ kind[b] = As(t) /\ CountAt(kind, b)
  BY <1>2, <1>3, OwnNode DEF OwnLabels
<1>6. kind[b] = "ready"  BY <1>3, <1>5 DEF As
<1>7. Has(t)' = b /\ As(t)' = "counted"  BY <1>1, <1>2, <1>3, HasInNext DEF OwnLabels, As
<1>8. PICK k, x, K : k = kind[b] /\ x = "counted" /\ K = Moved(kind, b, x)  OBVIOUS
<1>9. k \in ListKinds /\ x \in ListKinds  BY <1>6, <1>8 DEF ListKinds, Kinds
<1>10. K[b] = "counted" /\ \A y \in Blocks : y # b => K[y] = kind[y]  BY <1>5, <1>8, <1>9, MovedOne
<1>11. MayOwn(b, k, x, Has(t), Has(t)', As(t)')  BY <1>5, <1>7, <1>8 DEF MayOwn
<1>12. \A n : ~Reads(t, n) /\ ~Reads(t, n)'  BY <1>3 DEF Reads, ReadLabels
<1>13. /\ refs'[b] = 1 /\ should'[b] = FALSE
       /\ \A n \in Pool : n # b => refs'[n] = refs[n] /\ should'[n] = should[n]
  BY <1>3, <1>5 DEF Base, FreeShape
<1>14. OnlyNode(t, b)  BY <1>12, <1>13 DEF OnlyNode
<1>15. CountAt(K, b)'
  <2>1. Readers(b)' = Readers(b) /\ Readers(b) = {}
    BY <1>1, <1>5, <1>6, <1>12, ReadersStep DEF CountAt
  <2>2. Cardinality(Readers(b)') = 0  BY <2>1, NoReadersNext
  <2>3. ListRef(K[b]) = 1  BY <1>10 DEF ListRef
  <2>4. refs'[b] = Cardinality(Readers(b)') + ListRef(K[b])  BY <1>13, <2>2, <2>3
  <2> QED BY <1>10, <1>13, <2>4 DEF CountAt
<1>16. LocalsOK'
  <2>1. LocalAt(t)'  BY <1>3 DEF LocalsOK, LocalAt
  <2> QED BY <1>1, <1>3, <2>1, LocalsKept
<1>17. StackAt(K, len, q)'  BY <1>3, <1>6, <1>10, StackBeside
<1> QED BY <1>5, <1>8, <1>9, <1>11, <1>14, <1>15, <1>16, <1>17, FreeMovesBlock

\* The end of an add: the thread is responsible for nothing.
LEMMA AddEnds ==
    ASSUME FreeShape, NEW t \in Threads, Free!AddReturns(t), my' = my, my[t].pc \in {"get", "add"}
    PROVE  /\ at'[t] \in {"refs", "out"} /\ Has(t)' = Null /\ LocalAt(t)' /\ \A n : ~Reads(t, n)'
<1>1. at'[t] = "refs" \/ (at'[t] = "out" /\ node'[t] = Null)
  BY DEF Free!AddReturns, Free!Again, Free!Return, Free!Jump, FreeShape
<1>2. Has(t)' = Null  BY <1>1, HasInNext DEF OwnLabels
<1> QED BY <1>1, <1>2 DEF LocalAt, Reads, ReadLabels

\* A push onto the stack.
LEMMA StackPush ==
    ASSUME NEW kind, NEW len, NEW q, StackAt(kind, len, q), NEW b \in Pool, kind[b] # "listed",
           NEW K, K[b] = "listed", \A y \in Blocks : y # b => K[y] = kind[y],
           freeListHead' = b, next' = next, next[b] = freeListHead
    PROVE  \E L, Q : StackAt(K, L, Q)'
<1>1. PICK L, Q : L = len + 1 /\ Q = [i \in 0..len |-> IF i = len THEN b ELSE q[i]]  OBVIOUS
<1>2. len \in Nat /\ L \in Nat /\ L - 1 = len /\ L # 0  BY <1>1 DEF StackAt
<1>3. \A i \in 0..(L-1) : i = len \/ (i \in 0..(len-1) /\ i # len)  BY <1>2
<1>4. Q[len] = b /\ \A i \in 0..(len-1) : i \in 0..(L-1) /\ Q[i] = q[i]  BY <1>1, <1>2
<1>5. \A i \in 0..(len-1) : q[i] \in Pool /\ kind[q[i]] = "listed" /\ q[i] # b
  BY DEF StackAt
<1>6. \A i \in 0..(L-1) : Q[i] \in Pool /\ K[Q[i]] = "listed"
  BY <1>3, <1>4, <1>5, BlockSets
<1>7. \A i, j \in 0..(L-1) : Q[i] = Q[j] => i = j
  <2> SUFFICES ASSUME NEW i \in 0..(L-1), NEW j \in 0..(L-1), Q[i] = Q[j]  PROVE i = j  OBVIOUS
  <2>1. CASE i \in 0..(len-1) /\ j \in 0..(len-1)  BY <1>4, <2>1 DEF StackAt
  <2>2. CASE i = len \/ j = len  BY <1>3, <1>4, <1>5, <2>2
  <2> QED BY <1>3, <2>1, <2>2
<1>8. \A y \in Blocks : K[y] = "listed" => \E i \in 0..(L-1) : Q[i] = y
  <2> SUFFICES ASSUME NEW y \in Blocks, K[y] = "listed"  PROVE \E i \in 0..(L-1) : Q[i] = y
    OBVIOUS
  <2>1. CASE y = b
    <3>1. len \in 0..(L-1)  BY <1>2
    <3> QED BY <1>4, <2>1, <3>1
  <2>2. CASE y # b
    <3>1. PICK i \in 0..(len-1) : q[i] = y  BY <2>2 DEF StackAt
    <3> QED BY <1>4, <3>1
  <2> QED BY <2>1, <2>2
<1>9. freeListHead' = IF L = 0 THEN Null ELSE Q[L-1]  BY <1>2, <1>4
<1>10. \A i \in 0..(L-1) : next'[Q[i]] = IF i = 0 THEN Null ELSE Q[i-1]
  <2> SUFFICES ASSUME NEW i \in 0..(L-1)  PROVE next'[Q[i]] = IF i = 0 THEN Null ELSE Q[i-1]
    OBVIOUS
  <2>1. CASE i = len
    <3>1. next'[Q[i]] = freeListHead  BY <1>4, <2>1
    <3>2. len # 0 => len - 1 \in 0..(len-1)  BY <1>2
    <3>3. len # 0 => Q[len-1] = q[len-1]  BY <1>4, <3>2
    <3> QED BY <2>1, <3>1, <3>3 DEF StackAt
  <2>2. CASE i \in 0..(len-1)
    <3>1. next'[Q[i]] = IF i = 0 THEN Null ELSE q[i-1]  BY <1>4, <2>2 DEF StackAt
    <3>2. i # 0 => i - 1 \in 0..(len-1)  BY <1>2, <2>2
    <3> QED BY <1>4, <3>1, <3>2
  <2> QED BY <1>3, <2>1, <2>2
<1>11. StackAt(K, L, Q)'  BY <1>2, <1>6, <1>7, <1>8, <1>9, <1>10 DEF StackAt
<1> QED BY <1>11

LEMMA PlacePush ==
    ASSUME Base, NEW kind, NEW len, NEW q, PlaceAt(kind, len, q), LocalsOK,
           NEW t \in Threads, FreeStep(t), Free!Push(t)
    PROVE  PlaceStep
<1>1. my' = my /\ my[t].pc \in {"get", "add"} /\ OthersStay(t)
  BY FreeFrame
<1>2. PICK b : b = node[t]  OBVIOUS
<1>3. /\ at[t] = "push" /\ refs' = refs /\ should' = should /\ next' = next
      /\ \/ freeListHead = nxt[t] /\ freeListHead' = b /\ Free!AddReturns(t)
         \/ freeListHead' = freeListHead /\ at'[t] = "undo" /\ node' = node
  BY <1>2 DEF Free!Push, Free!Jump, Base, FreeShape
<1>5. /\ b \in Pool /\ b \in Blocks /\ b # Null /\ Has(t) = b /\ kind[b] = As(t) /\ CountAt(kind, b)
  BY <1>2, <1>3, OwnNode DEF OwnLabels
<1>6. kind[b] = "counted"  BY <1>3, <1>5 DEF As
<1>7. CASE freeListHead' = freeListHead /\ at'[t] = "undo" /\ node' = node
  <2>1. Has(t)' = Has(t) /\ As(t)' = As(t)
    BY <1>1, <1>3, <1>7, HasIn, HasInNext DEF OwnLabels, As
  <2>2. LocalAt(t)' /\ \A n : Reads(t, n)' <=> Reads(t, n)  BY <1>3, <1>7 DEF LocalAt, Reads, ReadLabels
  <2> QED BY <1>3, <1>7, <2>1, <2>2, FreeCalm
<1>8. CASE freeListHead = nxt[t] /\ freeListHead' = b /\ Free!AddReturns(t)
  <2>1. Has(t)' = Null /\ LocalAt(t)' /\ \A n : ~Reads(t, n)'
    BY <1>1, <1>8, AddEnds DEF Base
  <2>2. \A n : ~Reads(t, n)  BY <1>3 DEF Reads, ReadLabels
  <2>3. PICK k, x, K : k = kind[b] /\ x = "listed" /\ K = Moved(kind, b, x)  OBVIOUS
  <2>4. k \in ListKinds /\ x \in ListKinds  BY <1>6, <2>3 DEF ListKinds, Kinds
  <2>5. K[b] = "listed" /\ \A y \in Blocks : y # b => K[y] = kind[y]  BY <1>5, <2>3, <2>4, MovedOne
  <2>6. MayOwn(b, k, x, Has(t), Has(t)', As(t)')  BY <1>5, <2>1, <2>3 DEF MayOwn, OwnedKinds
  <2>7. OnlyNode(t, b)  BY <1>3, <2>1, <2>2 DEF OnlyNode
  <2>8. CountAt(K, b)'
    <3>1. Readers(b)' = Readers(b)  BY <1>1, <2>1, <2>2, ReadersStep
    <3>2. ListRef(K[b]) = ListRef(kind[b])  BY <1>6, <2>5 DEF ListRef
    <3> QED BY <1>3, <1>5, <1>6, <2>5, <3>1, <3>2 DEF CountAt
  <2>9. LocalsOK'  BY <1>1, <1>3, <2>1, LocalsKept
  <2>10. PICK L, Q : StackAt(K, L, Q)'
    <3>1. nxt[t] = next[b]  BY <1>2, <1>3 DEF LocalsOK, LocalAt
    <3>2. StackAt(kind, len, q) /\ kind[b] # "listed"  BY <1>6 DEF PlaceAt
    <3> QED BY <1>3, <1>5, <1>8, <2>5, <3>1, <3>2, StackPush
  <2> QED BY <1>5, <2>3, <2>4, <2>6, <2>7, <2>8, <2>9, <2>10, FreeMovesBlock
<1> QED BY <1>3, <1>7, <1>8

LEMMA PlaceUndo ==
    ASSUME Base, NEW kind, NEW len, NEW q, PlaceAt(kind, len, q), LocalsOK,
           NEW t \in Threads, FreeStep(t), Free!Undo(t)
    PROVE  PlaceStep
<1>1. my' = my /\ my[t].pc \in {"get", "add"} /\ OthersStay(t)
  BY FreeFrame
<1>2. PICK b : b = node[t]  OBVIOUS
<1>3. /\ at[t] = "undo" /\ freeListHead' = freeListHead /\ next' = next
      /\ refs' = [refs EXCEPT ![b] = refs[b] - 1] /\ should' = [should EXCEPT ![b] = TRUE]
      /\ \/ refs[b] = 1 /\ at'[t] = "link" /\ node' = node
         \/ refs[b] # 1 /\ Free!AddReturns(t)
  BY <1>2 DEF Free!Undo, Free!Jump, Base, FreeShape
<1>5. /\ b \in Pool /\ b \in Blocks /\ b # Null /\ Has(t) = b /\ kind[b] = As(t) /\ CountAt(kind, b)
  BY <1>2, <1>3, OwnNode DEF OwnLabels
<1>6. kind[b] = "counted"  BY <1>3, <1>5 DEF As
<1>12. \A n : ~Reads(t, n) /\ ~Reads(t, n)'
  BY <1>1, <1>3, AddEnds DEF Reads, ReadLabels, Base
<1>13. /\ refs'[b] = refs[b] - 1 /\ should'[b] = TRUE
       /\ \A n \in Pool : n # b => refs'[n] = refs[n] /\ should'[n] = should[n]
  BY <1>3, <1>5 DEF Base, FreeShape
<1>14. OnlyNode(t, b)  BY <1>12, <1>13 DEF OnlyNode
<1>15. /\ Readers(b)' = Readers(b) /\ refs[b] = Cardinality(Readers(b)) + 1
       /\ Cardinality(Readers(b)) \in Nat
  BY <1>1, <1>5, <1>6, <1>12, ReadersStep, ReadersFinite DEF CountAt, ListRef
<1>16. LocalsOK'
  <2>1. LocalAt(t)'  BY <1>1, <1>3, AddEnds DEF LocalAt, Base
  <2> QED BY <1>1, <1>3, <2>1, LocalsKept
<1>17. ASSUME NEW x \in {"ready", "left"}, x = "ready" <=> refs[b] = 1,
              MayOwn(b, kind[b], x, Has(t), Has(t)', As(t)')
       PROVE  PlaceStep
  <2>1. PICK k, K : k = kind[b] /\ K = Moved(kind, b, x)  OBVIOUS
  <2>2. k \in ListKinds /\ x \in ListKinds  BY <1>6, <2>1 DEF ListKinds, Kinds
  <2>3. K[b] = x /\ \A y \in Blocks : y # b => K[y] = kind[y]  BY <1>5, <2>1, <2>2, MovedOne
  <2>4. CountAt(K, b)'
    <3>1. ListRef(K[b]) = 0  BY <2>3 DEF ListRef
    <3>2. refs'[b] = Cardinality(Readers(b)') + ListRef(K[b])  BY <1>13, <1>15, <3>1
    <3>3. Readers(b)' = {} <=> x = "ready"
      <4>1. Cardinality(Readers(b)) = 0 <=> x = "ready"  BY <1>15, <1>17
      <4> QED BY <1>15, <4>1, NoReaders
    <3> QED BY <1>13, <2>3, <3>2, <3>3 DEF CountAt
  <2>5. StackAt(K, len, q)'  BY <1>3, <1>6, <2>3, StackBeside
  <2>6. MayOwn(b, k, x, Has(t), Has(t)', As(t)')  BY <1>17, <2>1
  <2> QED BY <1>5, <1>14, <1>16, <2>1, <2>2, <2>4, <2>5, <2>6, FreeMovesBlock
<1>18. CASE refs[b] = 1 /\ at'[t] = "link" /\ node' = node
  <2>1. Has(t)' = b /\ As(t)' = "ready"  BY <1>1, <1>2, <1>18, HasInNext DEF As, OwnLabels
  <2>2. MayOwn(b, kind[b], "ready", Has(t), Has(t)', As(t)')  BY <1>5, <2>1 DEF MayOwn
  <2> QED BY <1>17, <1>18, <2>2
<1>19. CASE refs[b] # 1 /\ Free!AddReturns(t)
  <2>1. Has(t)' = Null  BY <1>1, <1>19, AddEnds DEF Base
  <2>2. MayOwn(b, kind[b], "left", Has(t), Has(t)', As(t)')  BY <1>5, <2>1 DEF MayOwn, OwnedKinds
  <2> QED BY <1>17, <1>19, <2>2
<1> QED BY <1>3, <1>18, <1>19

LEMMA PlaceFree ==
    ASSUME Base, NEW kind, NEW len, NEW q, PlaceAt(kind, len, q), LocalsOK,
           NEW t \in Threads, FreeStep(t)
    PROVE  PlaceStep
<1>1. Free!Step(t)  BY FreeFrame
<1>2. CASE Free!LoadHead(t) \/ Free!LoadRefs(t) \/ Free!Hold(t) \/ Free!LoadNext(t)
  BY <1>2, PlaceLoadHead, PlaceLoadRefs, PlaceHold, PlaceLoadNext
<1>3. CASE Free!Pop(t) \/ Free!Release(t) \/ Free!Drop(t) \/ Free!Add(t)
  BY <1>3, PlacePop, PlaceRelease, PlaceDrop, PlaceAdd
<1>4. CASE Free!LoadTop(t) \/ Free!Link(t) \/ Free!CountOne(t) \/ Free!Push(t) \/ Free!Undo(t)
  BY <1>4, PlaceLoadTop, PlaceLink, PlaceCountOne, PlacePush, PlaceUndo
<1> QED BY <1>1, <1>2, <1>3, <1>4 DEF Free!Step

\* The place layer is inductive.
LEMMA PlaceNext ==
    ASSUME Base, PlaceInv, [Next]_vars
    PROVE  PlaceInv' /\ PutBlocks'
<1>1. PICK kind, len, q : PlaceAt(kind, len, q)  BY DEF PlaceInv
<1>2. LocalsOK /\ PlanOK /\ PutBlocks  BY DEF PlaceInv, Base
<1>3. PlanOK'  BY <1>2, PlanNext
<1>4. CASE \E t \in Threads : ThreadStep(t)
  <2>1. PICK t \in Threads : ThreadStep(t)  BY <1>4
  <2>2. PlaceStep  BY <1>1, <1>2, <2>1, PlaceOutside, PlaceFree
  <2> QED BY <1>3, <2>2 DEF PlaceStep, PlaceNow, PlaceInv
<1>5. CASE Destroy \/ UNCHANGED vars
  <2>1. UNCHANGED <<freeVars, sub, poolIndex, heap, my>>  BY <1>5 DEF Destroy, vars, blocks
  <2>2. PutBlocks'  BY <1>2, <2>1 DEF PutBlocks
  <2>3. LocalsOK'  BY <1>2, <2>1 DEF LocalsOK, LocalAt, freeVars
  <2>4. KindsAt(kind)' /\ FreshAt(kind)' /\ OwnedAt(kind)'
    BY <1>1, <2>1 DEF PlaceAt, KindsAt, FreshAt, Fresh, OwnedAt, Has, As, freeVars
  <2>5. NamedAt(kind)'  BY <1>1, <2>1 DEF PlaceAt, NamedAt, LiveAt
  <2>6. StackAt(kind, len, q)' /\ CountsAt(kind)'
    BY <1>1, <2>1 DEF PlaceAt, StackAt, CountsAt, CountAt, Readers, Reads, freeVars
  <2> QED BY <1>3, <2>2, <2>3, <2>4, <2>5, <2>6 DEF PlaceAt, PlaceInv
<1> QED BY <1>4, <1>5 DEF Next

\* The places in the initial states.
LEMMA FreeInit == ASSUME Init  PROVE FreeShape /\ LabelInv /\ PutBlocks
<1>1. /\ at = [t \in Threads |-> "out"] /\ head = [t \in Threads |-> Null]
      /\ node = [t \in Threads |-> Null] /\ nxt = [t \in Threads |-> Null]
      /\ seen = [t \in Threads |-> <<0, FALSE>>] /\ getting = [t \in Threads |-> FALSE]
  BY DEF Init, InitNew, InitUsed, Free!Init, Free!LocalsInit
<1>2. my = [t \in Threads |-> Idle] /\ plan \in Plans  BY DEF Init
<1>3. plan.pool \in 0..PoolSize /\ PoolSize \in Nat  BY <1>2, QueueAssumption
<1>4. /\ freeListHead \in MaybeNode /\ refs = [n \in Pool |-> refs[n]]
      /\ should \in [Pool -> BOOLEAN] /\ next \in [Pool -> MaybeNode]
  <2>1. CASE InitNew
    BY <2>1 DEF InitNew, Free!Init, MaybeNode
  <2>2. CASE InitUsed
    <3>1. /\ freeListHead = plan.pool
          /\ refs = [b \in Pool |-> IF b <= plan.pool THEN 1 ELSE 0]
          /\ should = [b \in Pool |-> FALSE]
          /\ next = [b \in Pool |-> IF b <= plan.pool THEN b - 1 ELSE Null]
      BY <2>2 DEF InitUsed
    <3>2. \A b \in Pool : b - 1 \in MaybeNode  BY <1>3 DEF MaybeNode, Pool
    <3>3. plan.pool \in MaybeNode  BY <1>3 DEF MaybeNode, Pool
    <3> QED BY <3>1, <3>2, <3>3 DEF MaybeNode
  <2> QED BY <2>1, <2>2 DEF Init
<1>5. FreeShape  BY <1>1, <1>4 DEF FreeShape, FreeLabels, WithNode, MaybeNode
<1>6. \A t \in Threads : my[t].pc = "out"  BY <1>2 DEF Idle
<1>7. LabelInv  BY <1>1, <1>6 DEF LabelInv, LabelAt, Inserting
<1> QED BY <1>5, <1>6, <1>7 DEF PutBlocks

\* No block is named at first.
LEMMA NoneLive == ASSUME Init  PROVE \A p \in Producers : \A e, k, b : ~LiveAt(p, e, k, b)
<1> SUFFICES ASSUME NEW p \in Producers, NEW e, NEW k, NEW b, LiveAt(p, e, k, b)  PROVE FALSE
  OBVIOUS
<1>1. FreshEntries \in Seq(Entry) /\ Len(FreshEntries) = IndexSize
      /\ \A f \in 1..IndexSize : FreshEntries[f].value = Null
  BY FreshUnused
<1>2. 1 \in 1..Len(FreshEntries) /\ 0 \in Nat  BY <1>1, QueueAssumption
<1>3. sub[p].entries = FreshEntries \/ sub[p].entries = KeySet(FreshEntries, 1, 0)
  <2>1. sub[p] = NewSub \/ sub[p] = UsedSub(p)  BY InitSub
  <2> QED BY <2>1, NewFields, UsedFields
<1>4. /\ Len(sub[p].entries) = IndexSize
      /\ \A f \in 1..IndexSize : sub[p].entries[f].value = Null
  <2>1. CASE sub[p].entries = FreshEntries  BY <1>1, <2>1
  <2>2. CASE sub[p].entries = KeySet(FreshEntries, 1, 0)
    <3>1. FreshEntries \in Seq(Entry) /\ 1 \in 1..Len(FreshEntries) /\ 0 \in Nat  BY <1>1, <1>2
    <3>2. PICK F : F = KeySet(FreshEntries, 1, 0)  OBVIOUS
    <3>3. /\ Len(F) = Len(FreshEntries) /\ F[1].value = FreshEntries[1].value
          /\ \A f \in 1..Len(FreshEntries) : f # 1 => F[f] = FreshEntries[f]
      BY <3>1, <3>2, KeyEdit
    <3>4. \A f \in 1..IndexSize : F[f].value = Null  BY <1>1, <3>1, <3>3
    <3> QED BY <1>1, <2>2, <3>2, <3>3, <3>4
  <2> QED BY <1>3, <2>1, <2>2
<1> QED BY <1>4 DEF LiveAt, LiveIn

LEMMA PlaceInit == ASSUME Init  PROVE PlaceInv
<1>1. /\ at = [t \in Threads |-> "out"] /\ my = [t \in Threads |-> Idle]
      /\ plan \in Plans /\ heap = {}
  BY DEF Init, InitNew, InitUsed, Free!Init, Free!LocalsInit
<1>2. /\ plan = [new |-> plan.new, pool |-> plan.pool, size |-> plan.size, of |-> plan.of]
      /\ plan.pool \in 0..PoolSize /\ PoolSize \in Nat /\ MaxHeap \in Nat
  BY <1>1, QueueAssumption
<1>3. \A t \in Threads : Has(t) = Null /\ (\A n : ~Reads(t, n)) /\ LocalAt(t)
  BY <1>1 DEF Has, OwnLabels, Reads, ReadLabels, LocalAt, Idle
<1>4. \A n : Readers(n) = {} /\ Cardinality(Readers(n)) = 0
  <2>1. \A n : Readers(n) = {}  BY <1>3 DEF Readers
  <2> QED BY <2>1, NoReaders
<1>5. LocalsOK  BY <1>3 DEF LocalsOK
<1>6. PlanOK
  <2>1. poolIndex = 0 \/ poolIndex = plan.pool  BY DEF Init, InitNew, InitUsed
  <2> QED BY <1>2, <2>1 DEF PlanOK
<1>7. Pool \subseteq Blocks /\ \A b \in Blocks : b \in Nat /\ (b \in Pool <=> b <= PoolSize) /\ b # 0
  BY <1>2 DEF Blocks, Pool, Heap
<1>h. \A b \in Heap : b \notin Pool /\ b \in Blocks  BY <1>2 DEF Blocks, Pool, Heap
<1>8. CASE InitNew
  <2>1. PICK kind, q : kind = [b \in Blocks |-> "unused"] /\ q = 0  OBVIOUS
  <2>2. \A b \in Blocks : kind[b] = "unused"  BY <2>1
  <2>3. /\ poolIndex = 0 /\ freeListHead = Null
        /\ refs = [n \in Pool |-> 0] /\ should = [n \in Pool |-> FALSE]
    BY <1>8 DEF InitNew, Free!Init
  <2>4. KindsAt(kind)  BY <1>h, <2>1 DEF KindsAt, Kinds, HeapKinds
  <2>5. FreshAt(kind)
    <3>1. \A b \in Blocks : Fresh(b)  BY <1>1, <1>7, <2>3 DEF Fresh
    <3> QED BY <2>2, <3>1 DEF FreshAt
  <2>6. NamedAt(kind)  BY <2>2, NoneLive DEF NamedAt
  <2>7. OwnedAt(kind)  BY <1>3, <2>2 DEF OwnedAt, OwnedKinds
  <2>8. StackAt(kind, 0, q)  BY <2>2, <2>3 DEF StackAt
  <2>9. CountsAt(kind)
    <3> SUFFICES ASSUME NEW n \in Pool  PROVE CountAt(kind, n)  BY DEF CountsAt
    <3>1. kind[n] = "unused"  BY <1>7, <2>2
    <3>2. ListRef(kind[n]) = 0  BY <3>1 DEF ListRef
    <3> QED BY <1>4, <2>3, <3>1, <3>2 DEF CountAt
  <2>10. PlaceAt(kind, 0, q)  BY <2>4, <2>5, <2>6, <2>7, <2>8, <2>9 DEF PlaceAt
  <2> QED BY <1>5, <1>6, <2>10 DEF PlaceInv
<1>9. CASE InitUsed
  <2>1. PICK len, kind, q : /\ len = plan.pool
                            /\ kind = [b \in Blocks |-> IF b <= len THEN "listed" ELSE "unused"]
                            /\ q = [i \in 0..(len-1) |-> i + 1]
    OBVIOUS
  <2>2. len \in Nat /\ len <= PoolSize  BY <1>2, <2>1
  <2>3. /\ poolIndex = len /\ freeListHead = len
        /\ refs = [b \in Pool |-> IF b <= len THEN 1 ELSE 0]
        /\ should = [b \in Pool |-> FALSE]
        /\ next = [b \in Pool |-> IF b <= len THEN b - 1 ELSE Null]
    BY <1>9, <2>1 DEF InitUsed
  <2>4. \A b \in Blocks : kind[b] = IF b <= len THEN "listed" ELSE "unused"  BY <2>1
  <2>5. \A b \in Blocks : b <= len => b \in Pool  BY <1>2, <1>7, <2>2
  <2>6. KindsAt(kind)
    <3>1. kind \in [Blocks -> Kinds]  BY <2>1 DEF Kinds
    <3>2. \A b \in Heap : kind[b] = "unused"  BY <1>h, <2>4, <2>5
    <3> QED BY <3>1, <3>2 DEF KindsAt, HeapKinds
  <2>7. FreshAt(kind)
    <3>1. \A b \in Blocks : Fresh(b) <=> ~(b <= len)
      BY <1>1, <1>7, <2>2, <2>3, <2>5 DEF Fresh
    <3> QED BY <2>4, <3>1 DEF FreshAt
  <2>8. NamedAt(kind)  BY <2>4, NoneLive DEF NamedAt
  <2>9. OwnedAt(kind)  BY <1>3, <2>4 DEF OwnedAt, OwnedKinds
  <2>10. StackAt(kind, len, q)
    <3>1. \A i \in 0..(len-1) : q[i] = i + 1 /\ i + 1 \in Nat /\ i + 1 <= len /\ i + 1 \in Pool
      BY <1>2, <2>1, <2>2 DEF Pool
    <3>2. \A i \in 0..(len-1) : q[i] \in Pool /\ kind[q[i]] = "listed"  BY <1>7, <2>4, <3>1
    <3>3. \A i, j \in 0..(len-1) : q[i] = q[j] => i = j  BY <3>1
    <3>4. \A b \in Blocks : kind[b] = "listed" => \E i \in 0..(len-1) : q[i] = b
      <4> SUFFICES ASSUME NEW b \in Blocks, kind[b] = "listed"  PROVE \E i \in 0..(len-1) : q[i] = b
        OBVIOUS
      <4>1. b \in Nat /\ b # 0 /\ b <= len  BY <1>7, <2>4
      <4>2. b - 1 \in 0..(len-1) /\ (b - 1) + 1 = b  BY <2>2, <4>1
      <4>3. q[b-1] = (b - 1) + 1  BY <3>1, <4>2
      <4> QED BY <4>2, <4>3
    <3>5. freeListHead = IF len = 0 THEN Null ELSE q[len-1]
      <4>1. len # 0 => len - 1 \in 0..(len-1) /\ (len - 1) + 1 = len  BY <2>2
      <4>2. len # 0 => q[len-1] = (len - 1) + 1  BY <3>1, <4>1
      <4> QED BY <2>3, <4>1, <4>2
    <3>6. \A i \in 0..(len-1) : next[q[i]] = IF i = 0 THEN Null ELSE q[i-1]
      <4> SUFFICES ASSUME NEW i \in 0..(len-1)  PROVE next[q[i]] = IF i = 0 THEN Null ELSE q[i-1]
        OBVIOUS
      <4>1. next[q[i]] = (i + 1) - 1  BY <2>3, <3>1
      <4>2. (i + 1) - 1 = i /\ (i # 0 => i - 1 \in 0..(len-1) /\ (i - 1) + 1 = i)  BY <2>2
      <4>3. i # 0 => q[i-1] = (i - 1) + 1  BY <3>1, <4>2
      <4> QED BY <4>1, <4>2, <4>3
    <3> QED BY <2>2, <3>2, <3>3, <3>4, <3>5, <3>6 DEF StackAt
  <2>11. CountsAt(kind)
    <3> SUFFICES ASSUME NEW n \in Pool  PROVE CountAt(kind, n)  BY DEF CountsAt
    <3>1. /\ kind[n] = "listed" => refs[n] = 1
          /\ kind[n] # "listed" => refs[n] = 0
          /\ kind[n] \in {"listed", "unused"} /\ ~should[n]
      BY <1>7, <2>3, <2>4
    <3>2. refs[n] = 0 + ListRef(kind[n])  BY <3>1 DEF ListRef
    <3> QED BY <1>4, <3>1, <3>2 DEF CountAt
  <2>12. PlaceAt(kind, len, q)  BY <2>6, <2>7, <2>8, <2>9, <2>10, <2>11 DEF PlaceAt
  <2> QED BY <1>5, <1>6, <2>12 DEF PlaceInv
<1> QED BY <1>8, <1>9 DEF Init

-----------------------------------------------------------------------------
(* OnePlace.                                                               *)

\* What a walk of k steps from the head has found, if the list is q.
Found(len, q, k) == {q[i] : i \in {j \in 0..(len-1) : j + k >= len - 1}}
                      \cup {x \in {Null} : k >= len}

\* Found is what Listed has met after k steps from the head.
LEMMA FoundStep ==
    ASSUME NEW kind, NEW len, NEW q, StackAt(kind, len, q), NEW k \in Nat
    PROVE  /\ Found(len, q, 0) = {freeListHead}
           /\ Found(len, q, k + 1) = Found(len, q, k) \cup {next[n] : n \in Found(len, q, k) \ {Null}}
<1>1. /\ len \in Nat /\ \A i \in 0..(len-1) : q[i] # Null
      /\ freeListHead = (IF len = 0 THEN Null ELSE q[len-1])
      /\ \A i \in 0..(len-1) : next[q[i]] = IF i = 0 THEN Null ELSE q[i-1]
  BY BlockSets DEF StackAt
<1>2. Found(len, q, 0) = {freeListHead}
  <2>1. \A i \in 0..(len-1) : i + 0 >= len - 1 <=> i = len - 1  BY <1>1
  <2>2. len # 0 => len - 1 \in 0..(len-1) /\ ~(0 >= len)  BY <1>1
  <2>3. len = 0 => 0 >= len /\ \A i : i \notin 0..(len-1)  BY <1>1
  <2>4. CASE len = 0  BY <1>1, <2>3, <2>4 DEF Found
  <2>5. CASE len # 0
    <3>1. {j \in 0..(len-1) : j + 0 >= len - 1} = {len - 1}  BY <2>1, <2>2, <2>5
    <3> QED BY <1>1, <2>2, <2>5, <3>1 DEF Found
  <2> QED BY <2>4, <2>5
<1> DEFINE A == Found(len, q, k)
           B == Found(len, q, k + 1)
<1>3. \A x : x \in A <=> (\E i \in 0..(len-1) : i + k >= len - 1 /\ x = q[i]) \/ (x = Null /\ k >= len)
  BY DEF Found
<1>4. \A x : x \in B <=> (\E i \in 0..(len-1) : i + (k + 1) >= len - 1 /\ x = q[i])
                            \/ (x = Null /\ k + 1 >= len)
  BY DEF Found
<1> HIDE DEF A, B
<1>5. ASSUME NEW x \in A  PROVE x \in B
  BY <1>1, <1>3, <1>4
<1>6. ASSUME NEW n \in A, n # Null  PROVE next[n] \in B
  <2>1. PICK i \in 0..(len-1) : i + k >= len - 1 /\ n = q[i]  BY <1>3, <1>6
  <2>2. CASE i = 0
    <3>1. next[n] = Null  BY <1>1, <2>1, <2>2
    <3>2. k + 1 >= len  BY <1>1, <2>1, <2>2
    <3> QED BY <1>4, <3>1, <3>2
  <2>3. CASE i # 0
    <3>1. next[n] = q[i-1]  BY <1>1, <2>1, <2>3
    <3>2. i - 1 \in 0..(len-1) /\ (i - 1) + (k + 1) >= len - 1  BY <1>1, <2>1, <2>3
    <3> QED BY <1>4, <3>1, <3>2
  <2> QED BY <2>2, <2>3
<1>7. ASSUME NEW x \in B, x \notin A  PROVE \E n \in A : n # Null /\ x = next[n]
  <2>1. CASE \E i \in 0..(len-1) : i + (k + 1) >= len - 1 /\ x = q[i]
    <3>1. PICK i \in 0..(len-1) : i + (k + 1) >= len - 1 /\ x = q[i]  BY <2>1
    <3>2. ~(i + k >= len - 1)  BY <1>3, <1>7, <3>1
    <3>3. i + 1 \in 0..(len-1) /\ (i + 1) + k >= len - 1 /\ i + 1 # 0 /\ (i + 1) - 1 = i
      BY <1>1, <3>1, <3>2
    <3>4. PICK j : j = i + 1  OBVIOUS
    <3>5. q[j] \in A /\ q[j] # Null  BY <1>1, <1>3, <3>3, <3>4
    <3>6. next[q[j]] = q[i]  BY <1>1, <3>3, <3>4
    <3> QED BY <3>1, <3>5, <3>6
  <2>2. CASE x = Null /\ k + 1 >= len
    <3>1. ~(k >= len)  BY <1>3, <1>7, <2>2
    <3>2. 0 \in 0..(len-1) /\ 0 + k >= len - 1  BY <1>1, <2>2, <3>1
    <3>3. q[0] \in A /\ q[0] # Null /\ next[q[0]] = Null  BY <1>1, <1>3, <3>2
    <3> QED BY <2>2, <3>3
  <2> QED BY <1>4, <1>7, <2>1, <2>2
<1>8. B = A \cup {next[n] : n \in A \ {Null}}  BY <1>5, <1>6, <1>7
<1> QED BY <1>2, <1>8 DEF A, B

LEMMA FreeCardinality == \A S : Free!Cardinality(S) = Cardinality(S)
BY DEF Free!Cardinality, Cardinality

\* The walk of Listed finds the listed blocks.
LEMMA ListedKinds ==
    ASSUME NEW kind, NEW len, NEW q, StackAt(kind, len, q), NEW b \in Pool
    PROVE  b \in Free!Listed <=> kind[b] = "listed"
<1> DEFINE Is(f) == f = [k \in Nat |-> IF k = 0 THEN {freeListHead}
                                       ELSE f[k-1] \cup {next[n] : n \in f[k-1] \ {Null}}]
           W == [k \in Nat |-> Found(len, q, k)]
           w == CHOOSE f : Is(f)
           C == Cardinality(Pool)
<1>1. Is(W)
  <2>1. \A k \in Nat : W[k] = Found(len, q, k)  OBVIOUS
  <2>2. Found(len, q, 0) = {freeListHead}
    <3>1. 0 \in Nat  OBVIOUS
    <3> QED BY <3>1, FoundStep
  <2>3. ASSUME NEW k \in Nat, k # 0
        PROVE  Found(len, q, k) = W[k-1] \cup {next[n] : n \in W[k-1] \ {Null}}
    <3>1. k - 1 \in Nat /\ (k - 1) + 1 = k  BY <2>3
    <3>2. \A j \in Nat : Found(len, q, j + 1) =
             Found(len, q, j) \cup {next[n] : n \in Found(len, q, j) \ {Null}}
      BY FoundStep
    <3>3. W[k-1] = Found(len, q, k - 1)  BY <2>1, <3>1
    <3> QED BY <3>1, <3>2, <3>3
  <2> HIDE DEF W
  <2>4. W = [k \in Nat |-> Found(len, q, k)]  BY DEF W
  <2>5. \A k \in Nat : Found(len, q, k) =
          IF k = 0 THEN {freeListHead} ELSE W[k-1] \cup {next[n] : n \in W[k-1] \ {Null}}
    BY <2>2, <2>3
  <2> QED BY <2>4, <2>5
<1> HIDE DEF Is
<1>2. Is(w)  BY <1>1
<1>3. \A k \in Nat : w[k] = IF k = 0 THEN {freeListHead}
                             ELSE w[k-1] \cup {next[n] : n \in w[k-1] \ {Null}}
  <2> HIDE DEF w
  <2> QED BY <1>2 DEF Is
<1>4. Free!Listed = w[C] \ {Null}
  BY FreeCardinality DEF Free!Listed, Is
<1> HIDE DEF w, W
<1>5. \A k \in Nat : w[k] = Found(len, q, k)
  <2> DEFINE T == {k \in Nat : w[k] = Found(len, q, k)}
  <2>1. 0 \in T
    <3>1. 0 \in Nat  OBVIOUS
    <3> QED BY <1>3, <3>1, FoundStep
  <2>2. ASSUME NEW k \in Nat, k \in T  PROVE k + 1 \in T
    <3>1. k + 1 \in Nat /\ k + 1 # 0 /\ (k + 1) - 1 = k  OBVIOUS
    <3>2. w[k+1] = w[k] \cup {next[n] : n \in w[k] \ {Null}}  BY <1>3, <3>1
    <3>3. Found(len, q, k + 1) = Found(len, q, k) \cup {next[n] : n \in Found(len, q, k) \ {Null}}
      BY FoundStep
    <3> QED BY <2>2, <3>1, <3>2, <3>3
  <2>3. T \in SUBSET Nat  OBVIOUS
  <2> HIDE DEF T
  <2>4. \A k \in Nat : k \in T  BY <2>1, <2>2, <2>3, NatBySteps
  <2> QED BY <2>4 DEF T
<1>6. len \in Nat /\ C \in Nat /\ len <= C
  <2>1. len \in Nat /\ PoolSize \in Nat /\ len - 1 \in Int  BY QueueAssumption DEF StackAt
  <2>2. IsFiniteSet(Pool) /\ C \in Nat
    <3>1. 1 \in Int /\ PoolSize \in Int  BY <2>1
    <3>2. IsFiniteSet(1..PoolSize)  BY <3>1, FS_Interval
    <3> QED BY <3>2, FS_CardinalityType DEF Pool
  <2> DEFINE f == [i \in 0..(len-1) |-> q[i]]
  <2>3. f \in Injection(0..(len-1), Pool)
    <3>1. f \in [0..(len-1) -> Pool] /\ \A i, j \in 0..(len-1) : f[i] = f[j] => i = j
      BY DEF StackAt
    <3> HIDE DEF f
    <3> QED BY <3>1 DEF Injection, IsInjective
  <2> HIDE DEF f
  <2>4. Cardinality(0..(len-1)) <= C  BY <2>2, <2>3, FS_Injection
  <2>5. Cardinality(0..(len-1)) = len  BY <2>1, FS_Interval
  <2> QED BY <2>1, <2>2, <2>4, <2>5
<1> HIDE DEF C
<1>7. b # Null /\ b \in Blocks  BY BlockSets
<1>8. b \in Free!Listed <=> b \in Found(len, q, C)  BY <1>4, <1>5, <1>6, <1>7
<1>9. b \in Found(len, q, C) <=> \E i \in 0..(len-1) : q[i] = b
  <2>1. \A i \in 0..(len-1) : i + C >= len - 1  BY <1>6
  <2> QED BY <1>7, <2>1 DEF Found
<1>10. (\E i \in 0..(len-1) : q[i] = b) <=> kind[b] = "listed"
  BY <1>7 DEF StackAt
<1> QED BY <1>8, <1>9, <1>10

NamedBy(b) == {p \in Producers : \E e \in DOMAIN sub[p].entries : sub[p].entries[e].value = b}
HeldBy(b) == {t \in Threads : \/ my[t].pc = "put" /\ my[t].block = b
                              \/ my[t].pc = "get" /\ at[t] = "out" /\ node[t] = b
                              \/ Free!Popping(t, b) \/ Free!Pushing(t, b)}

LEMMA CardEmpty == ASSUME NEW S, \A x \in S : FALSE  PROVE Cardinality(S) = 0
<1>1. S = {}  OBVIOUS
<1> QED BY <1>1, FS_EmptySet
LEMMA CardOne == ASSUME NEW S, NEW x \in S, \A y \in S : y = x  PROVE Cardinality(S) = 1
<1>1. S = {x}  OBVIOUS
<1> QED BY <1>1, FS_Singleton

LEMMA NamedLive ==
    ASSUME Base, NEW p \in Producers, NEW b \in Blocks
    PROVE  p \in NamedBy(b) <=> \E e, k : LiveAt(p, e, k, b)
<1>1. PICK m, num, off : IndexAt(p, m, num, off)  BY DEF Base, IndexInv
<1>2. sub[p].entries \in Seq(Entry)  BY <1>1, NumberedShape DEF IndexAt, Indexed
<1>3. DOMAIN sub[p].entries = 1..Len(sub[p].entries)  BY <1>2
<1>4. b # Null  BY BlockSets
<1> QED BY <1>3, <1>4 DEF NamedBy, LiveAt, LiveIn

\* A thread that has a block is one that OnePlace counts as its holder.
LEMMA HeldHas ==
    ASSUME Base, NEW t \in Threads, NEW b \in Blocks
    PROVE  t \in HeldBy(b) <=> Has(t) = b
<1>1. LabelAt(t) /\ b # Null  BY BlockSets DEF Base, LabelInv
<1>2. at[t] \in OwnLabels => my[t].pc \in {"get", "add"}  BY <1>1 DEF LabelAt, OwnLabels
<1>3. Free!Popping(t, b) \/ Free!Pushing(t, b) <=> at[t] \in OwnLabels /\ node[t] = b
  BY DEF Free!Popping, Free!Pushing, OwnLabels
<1> QED BY <1>1, <1>2, <1>3 DEF HeldBy, Has, OwnLabels

LEMMA InheritedLeft ==
    ASSUME Base, NEW kind, NEW len, NEW q, PlaceAt(kind, len, q), NEW b \in Pool
    PROVE  Free!Inheriting(b) <=> kind[b] = "left"
<1>1. CountAt(kind, b) /\ b # Null /\ OwnedAt(kind)  BY BlockSets DEF PlaceAt, CountsAt
<1>2. ASSUME Free!Inheriting(b)  PROVE kind[b] = "left"
  <2>1. should[b] /\ Readers(b) # {}
    BY <1>2 DEF Free!Inheriting, Readers, Reads, ReadLabels
  <2> QED BY <1>1, <2>1 DEF CountAt
<1>3. ASSUME kind[b] = "left"  PROVE Free!Inheriting(b)
  <2>1. should[b] /\ Readers(b) # {}  BY <1>1, <1>3 DEF CountAt
  <2>2. PICK t \in Threads : Reads(t, b)  BY <2>1 DEF Readers
  <2>3. at[t] # "release"
    <3> SUFFICES ASSUME at[t] = "release"  PROVE FALSE  OBVIOUS
    <3>1. my[t].pc \in {"get", "add"}  BY DEF Base, LabelInv, LabelAt
    <3>2. Has(t) = b /\ As(t) = "counted"  BY <2>2, <3>1, HasIn DEF Reads, OwnLabels, As
    <3> QED BY <1>1, <1>3, <3>2 DEF OwnedAt
  <2> QED BY <2>1, <2>2, <2>3 DEF Free!Inheriting, Reads, ReadLabels
<1> QED BY <1>2, <1>3

\* A block is with as many sub-queues and threads as its kind says.
LEMMA PlacesOne ==
    ASSUME Base, NEW kind, NEW len, NEW q, PlaceAt(kind, len, q), NEW b \in Pool
    PROVE  /\ Cardinality(NamedBy(b)) = IF kind[b] = "named" THEN 1 ELSE 0
           /\ Cardinality(HeldBy(b)) = IF kind[b] \in OwnedKinds THEN 1 ELSE 0
<1>1. /\ KindsAt(kind) /\ NamedAt(kind) /\ OwnedAt(kind) /\ b \in Blocks /\ b # Null
  BY BlockSets DEF PlaceAt
<1>2. \A p \in Producers : p \in NamedBy(b) <=> \E e, k : LiveAt(p, e, k, b)  BY <1>1, NamedLive
<1>3. \A t \in Threads : t \in HeldBy(b) <=> Has(t) = b  BY <1>1, HeldHas
<1>4. NamedBy(b) \subseteq Producers /\ HeldBy(b) \subseteq Threads  BY DEF NamedBy, HeldBy
<1>5. ASSUME kind[b] = "named"  PROVE Cardinality(NamedBy(b)) = 1
  <2>1. PICK p \in Producers : \E e, k : LiveAt(p, e, k, b)  BY <1>1, <1>5 DEF NamedAt
  <2>2. \A y \in NamedBy(b) : y = p  BY <1>1, <1>2, <1>4, <2>1 DEF NamedAt
  <2>3. p \in NamedBy(b)  BY <1>2, <2>1
  <2> QED BY <2>2, <2>3, CardOne
<1>6. ASSUME kind[b] # "named"  PROVE Cardinality(NamedBy(b)) = 0
  <2>1. \A y \in NamedBy(b) : FALSE  BY <1>1, <1>2, <1>4, <1>6 DEF NamedAt
  <2> QED BY <2>1, CardEmpty
<1>7. ASSUME kind[b] \in OwnedKinds  PROVE Cardinality(HeldBy(b)) = 1
  <2>1. PICK t \in Threads : Has(t) = b  BY <1>1, <1>7 DEF OwnedAt
  <2>2. \A y \in HeldBy(b) : y = t  BY <1>1, <1>3, <1>4, <2>1 DEF OwnedAt
  <2>3. t \in HeldBy(b)  BY <1>3, <2>1
  <2> QED BY <2>2, <2>3, CardOne
<1>8. ASSUME kind[b] \notin OwnedKinds  PROVE Cardinality(HeldBy(b)) = 0
  <2>1. \A u : As(u) \in OwnedKinds  BY DEF As, OwnedKinds
  <2>2. \A y \in HeldBy(b) : FALSE  BY <1>1, <1>3, <1>4, <1>8, <2>1 DEF OwnedAt
  <2> QED BY <2>2, CardEmpty
<1> QED BY <1>5, <1>6, <1>7, <1>8

LEMMA PlaceOne == ASSUME Base, PlaceInv  PROVE OnePlace
<1>1. PICK kind, len, q : PlaceAt(kind, len, q)  BY DEF PlaceInv
<1>2. plan.pool \in 0..PoolSize /\ PoolSize \in Nat /\ poolIndex \in 0..plan.pool
  BY QueueAssumption DEF PlaceInv, PlanOK
<1> SUFFICES ASSUME NEW b \in 1..plan.pool
             PROVE  Cardinality(NamedBy(b)) + Cardinality(HeldBy(b))
                      + (IF b > poolIndex /\ b <= plan.pool THEN 1 ELSE 0)
                      + (IF b \in Free!Listed THEN 1 ELSE 0)
                      + (IF Free!Inheriting(b) THEN 1 ELSE 0) = 1
  BY DEF OnePlace, NamedBy, HeldBy
<1>3. b \in Pool /\ b \in Blocks /\ b <= plan.pool  BY <1>2, BlockSets DEF Pool
<1>4. b \in Free!Listed <=> kind[b] = "listed"  BY <1>1, <1>3, ListedKinds DEF PlaceAt
<1>5. Free!Inheriting(b) <=> kind[b] = "left"  BY <1>1, <1>3, InheritedLeft
<1>6. b > poolIndex <=> kind[b] = "unused"  BY <1>1, <1>3 DEF PlaceAt, FreshAt, Fresh
<1>7. /\ Cardinality(NamedBy(b)) = IF kind[b] = "named" THEN 1 ELSE 0
      /\ Cardinality(HeldBy(b)) = IF kind[b] \in OwnedKinds THEN 1 ELSE 0
  BY <1>1, <1>3, PlacesOne
<1>8. kind[b] \in Kinds  BY <1>1, <1>3 DEF PlaceAt, KindsAt
<1> QED BY <1>3, <1>4, <1>5, <1>6, <1>7, <1>8 DEF Kinds, OwnedKinds

-----------------------------------------------------------------------------
(* The elements: which are still to be moved, and where they are.          *)

\* The first index of a block, and the indexes of its cells.
Whole(k) == \E n \in Nat : k = n * BlockSize
CellsOf(k) == k..(k + BlockSize - 1)

\* The blocks' indexes: each index is in one block's cells.
LEMMA FirstWhole ==
    ASSUME NEW i \in Nat
    PROVE  /\ FirstOf(i) \in Nat /\ Whole(FirstOf(i)) /\ FirstOf(i) <= i /\ i < FirstOf(i) + BlockSize
           /\ i \in CellsOf(FirstOf(i)) /\ i % BlockSize \in 0..(BlockSize-1)
<1>1. BlockSize \in Nat  BY QueueAssumption
<1>2. PICK q \in Nat : /\ FirstOf(i) = q * BlockSize /\ FirstOf(i) \in Nat
                       /\ FirstOf(i) <= i /\ i < FirstOf(i) + BlockSize
                       /\ i % BlockSize \in 0..(BlockSize-1)
  BY FirstOfIs
<1>3. Whole(FirstOf(i))  BY <1>2 DEF Whole
<1> HIDE DEF Whole
<1>4. i \in CellsOf(FirstOf(i))  BY <1>1, <1>2 DEF CellsOf
<1> QED BY <1>2, <1>3, <1>4

LEMMA WholeNat == ASSUME NEW k, Whole(k)  PROVE k \in Nat
<1>1. PICK n \in Nat : k = n * BlockSize  BY DEF Whole
<1>2. BlockSize \in Nat  BY QueueAssumption
<1> QED BY <1>1, <1>2

LEMMA CellNat == ASSUME NEW k, Whole(k), NEW i \in CellsOf(k)
                 PROVE  i \in Nat /\ k <= i /\ i < k + BlockSize
<1>1. k \in Nat  BY WholeNat
<1>2. BlockSize \in Nat  BY QueueAssumption
<1> QED BY <1>1, <1>2 DEF CellsOf

LEMMA WholeFirst == ASSUME NEW k, Whole(k), NEW i \in CellsOf(k)  PROVE FirstOf(i) = k
<1>1. i \in Nat /\ k <= i /\ i < k + BlockSize  BY CellNat
<1>2. PICK n \in Nat : k = n * BlockSize  BY DEF Whole
<1>3. n \in Int /\ n * BlockSize <= i /\ i < n * BlockSize + BlockSize  BY <1>1, <1>2
<1> QED BY <1>1, <1>2, <1>3, FirstOfOnly

LEMMA WholeApart == ASSUME NEW k, NEW l, Whole(k), Whole(l), k < l  PROVE k + BlockSize <= l
<1>1. PICK n \in Nat : k = n * BlockSize  BY DEF Whole
<1>2. PICK m \in Nat : l = m * BlockSize  BY DEF Whole
<1>3. n \in Int /\ m \in Int  BY <1>1, <1>2
<1>4. n < m
  <2>1. m <= n => ~(n * BlockSize < m * BlockSize)
    <3>1. CASE m = n
      <4>1. n * BlockSize \in Int  BY <1>3, Multiples
      <4> QED BY <3>1, <4>1
    <3>2. CASE m < n
      <4>1. m * BlockSize + BlockSize <= n * BlockSize  BY <1>3, <3>2, Multiples
      <4>2. n * BlockSize \in Int /\ m * BlockSize \in Int /\ BlockSize \in Nat
        BY <1>3, Multiples, QueueAssumption
      <4> QED BY <4>1, <4>2
    <3> QED BY <1>3, <3>1, <3>2
  <2> QED BY <1>1, <1>2, <1>3, <2>1
<1>5. n * BlockSize + BlockSize <= m * BlockSize  BY <1>3, <1>4, Multiples
<1> QED BY <1>1, <1>2, <1>5

\* Two cells of a block have places of their own.
LEMMA SameCell ==
    ASSUME NEW k, Whole(k), NEW i \in CellsOf(k), NEW j \in CellsOf(k), i % BlockSize = j % BlockSize
    PROVE  i = j
<1>1. i \in Nat /\ j \in Nat  BY CellNat
<1>2. FirstOf(i) = k /\ FirstOf(j) = k /\ k \in Nat  BY WholeFirst, WholeNat
<1>3. i % BlockSize = i - k  BY <1>1, <1>2, FirstOfIs
<1>4. j % BlockSize = j - k  BY <1>1, <1>2, FirstOfIs
<1> QED BY <1>1, <1>2, <1>3, <1>4

LEMMA ModWhole == ASSUME NEW i \in Nat  PROVE i % BlockSize = 0 <=> Whole(i)
<1>1. FirstOf(i) \in Nat /\ i % BlockSize = i - FirstOf(i) /\ Whole(FirstOf(i))
  BY FirstOfIs, FirstWhole
<1>2. i % BlockSize = 0 => Whole(i)
  <2>1. i % BlockSize = 0 => FirstOf(i) = i  BY <1>1
  <2> QED BY <1>1, <2>1
<1>3. Whole(i) => i % BlockSize = 0
  <2> SUFFICES ASSUME Whole(i) PROVE i % BlockSize = 0
    OBVIOUS
  <2>1. BlockSize \in Nat \ {0}  BY QueueAssumption
  <2>2. i \in CellsOf(i)  BY <2>1 DEF CellsOf
  <2>3. FirstOf(i) = i  BY <2>2, WholeFirst
  <2> QED BY <1>1, <2>3
<1> QED BY <1>2, <1>3

\* The threads that took an index and did not move its element yet; what is
\* unmoved was put and not moved yet, or is still to be put.
Moving == {"find", "entry", "move"}
HoldsIt(t, p, i) == my[t].pc \in Moving /\ my[t].p = p /\ my[t].i = i
UnmovedAt(p, i) == i >= sub[p].headIndex \/ \E t \in Threads : HoldsIt(t, p, i)
Unmoved(p, k) == {i \in CellsOf(k) : UnmovedAt(p, i)}
Unlinker(t, p, e) == my[t].pc = "unlink" /\ my[t].p = p /\ my[t].entry = e

\* An index is taken once.
TakenInv == \A t \in Threads : \A p, i : HoldsIt(t, p, i) =>
              i < sub[p].headIndex /\ \A u \in Threads : HoldsIt(u, p, i) => u = t

\* The cells and the counters have their types.
CellShape ==
    /\ cell = [b \in Blocks |-> cell[b]]
    /\ \A b \in Blocks : cell[b] = [i \in 0..(BlockSize-1) |-> cell[b][i]]
    /\ dequeued \in [Blocks -> Nat]

\* Cell i of block b.
At(b, i) == cell[b][i % BlockSize]

\* A block that is named in an index: what is unmoved and put is in its cells,
\* the rest has been counted, and the thread that counted the last one is about
\* to unlink it; only the last of the blocks is not filled yet.
CountOK(p, k, b) == dequeued[b] + Cardinality(Unmoved(p, k)) = BlockSize
CellsOK(p, k, b) == \A i \in Unmoved(p, k) : i < sub[p].tailIndex => At(b, i) = <<p, i>>
LastOK(p, k, b) == k + BlockSize >= sub[p].tailIndex => b = sub[p].tailBlock
GoesOK(p, e, k) == Unmoved(p, k) = {} => \E t \in Threads : Unlinker(t, p, e)
LiveOK(p, e, k, b) ==
    /\ p <= created /\ k < sub[p].tailIndex
    /\ CountOK(p, k, b) /\ CellsOK(p, k, b) /\ LastOK(p, k, b) /\ GoesOK(p, e, k)
LiveInv == \A p \in Producers : \A e, k, b : LiveAt(p, e, k, b) => LiveOK(p, e, k, b)

\* A block with an element that was put and not moved is named.
CoverInv == \A p \in Producers : \A k :
              Whole(k) /\ k < sub[p].tailIndex /\ Unmoved(p, k) # {} => \E e, b : LiveAt(p, e, k, b)

\* What a reader has seen of the index still leads to its block.
EntryRead(p, i, j, tail) ==
    /\ j \in 1..Len(sub[p].headers) /\ tail \in DOMAIN sub[p].headers[j].index
    /\ sub[p].entries[sub[p].headers[j].index[tail]].key # NoKey
    /\ \E a \in DOMAIN sub[p].headers[j].index : \E b :
         LiveAt(p, sub[p].headers[j].index[a], FirstOf(i), b)

\* A block that is about to be unlinked is live, and nothing of it is unmoved.
EmptyAt(p, e, b) == \E k : LiveAt(p, e, k, b) /\ Unmoved(p, k) = {}
ReadAt(t) ==
    /\ my[t].pc = "entry" => EntryRead(my[t].p, my[t].i, my[t].header, my[t].tail)
    /\ my[t].pc = "move" => LiveAt(my[t].p, my[t].entry, FirstOf(my[t].i), my[t].block)
    /\ my[t].pc = "unlink" => EmptyAt(my[t].p, my[t].entry, my[t].block)
ReadInv == \A t \in Threads : ReadAt(t)
UnlinkOne == \A t, u \in Threads : t # u => \A p, e : ~(Unlinker(t, p, e) /\ Unlinker(u, p, e))

Reading == TakenInv /\ CellShape /\ LiveInv /\ CoverInv /\ ReadInv /\ UnlinkOne

\* Live entries of a sub-queue have keys of their own, and each block is named
\* by one of them.
LEMMA LiveKey ==
    ASSUME IndexInv, NEW p \in Producers, NEW e, NEW k, NEW b, LiveAt(p, e, k, b)
    PROVE  Whole(k) /\ k \in Nat
<1>1. PICK m, num, off : IndexAt(p, m, num, off)  BY DEF IndexInv
<1>2. Numbered(sub[p].entries, m, num)  BY <1>1 DEF IndexAt, Indexed
<1>3. /\ e \in 1..Len(sub[p].entries) /\ sub[p].entries[e].key = k
      /\ sub[p].entries[e].value # Null
  BY DEF LiveAt, LiveIn
<1>4. k = num[e] * BlockSize /\ num[e] \in Nat  BY <1>2, <1>3, LiveNum
<1>5. Whole(k)  BY <1>4 DEF Whole
<1> QED BY <1>5, WholeNat

LEMMA KeyOne ==
    ASSUME IndexInv, NEW p \in Producers, NEW e, NEW f, NEW k, NEW b, NEW c,
           LiveAt(p, e, k, b), LiveAt(p, f, k, c)
    PROVE  e = f /\ b = c
<1>1. PICK m, num, off : IndexAt(p, m, num, off)  BY DEF IndexInv
<1>2. Numbered(sub[p].entries, m, num)  BY <1>1 DEF IndexAt, Indexed
<1>3. /\ e \in 1..Len(sub[p].entries) /\ sub[p].entries[e].key = k
      /\ f \in 1..Len(sub[p].entries) /\ sub[p].entries[f].key = k
      /\ sub[p].entries[e].value # Null /\ sub[p].entries[f].value # Null
      /\ b = sub[p].entries[e].value /\ c = sub[p].entries[f].value
  BY DEF LiveAt, LiveIn
<1>4. k = num[e] * BlockSize /\ num[e] \in Nat  BY <1>2, <1>3, LiveNum
<1>5. k = num[f] * BlockSize /\ num[f] \in Nat  BY <1>2, <1>3, LiveNum
<1>6. num[e] \in Int /\ num[f] \in Int  BY <1>4, <1>5
<1>7. num[e] = num[f]  BY <1>4, <1>5, <1>6, Multiples, Zenon
<1>8. e = f  BY <1>2, <1>3, <1>7, NumberedShape
<1> QED BY <1>3, <1>8

LEMMA BlockOne ==
    ASSUME PlaceInv, NEW p \in Producers, NEW q \in Producers, NEW e, NEW f, NEW k, NEW l, NEW b,
           LiveAt(p, e, k, b), LiveAt(q, f, l, b)
    PROVE  p = q /\ e = f /\ k = l
<1>1. PICK kind, len, s : PlaceAt(kind, len, s)  BY DEF PlaceInv
<1>2. NamedAt(kind)  BY <1>1 DEF PlaceAt
<1>3. p = q /\ e = f  BY <1>2 DEF NamedAt
<1> QED BY <1>3 DEF LiveAt, LiveIn

LEMMA LiveBlock ==
    ASSUME PlaceInv, NEW p \in Producers, NEW e, NEW k, NEW b, LiveAt(p, e, k, b)
    PROVE  b \in Blocks /\ b # Null
<1>1. PICK kind, len, s : PlaceAt(kind, len, s)  BY DEF PlaceInv
<1>2. NamedAt(kind)  BY <1>1 DEF PlaceAt
<1>3. b \in Blocks  BY <1>2 DEF NamedAt
<1> QED BY <1>3 DEF LiveAt, LiveIn

\* What the steps of a dequeue on its way to the element do to its locals.
LEMMA MyFields ==
    ASSUME QueueTypes, NEW t \in Threads, NEW r, r = my[t]
    PROVE  /\ \A l : Go(t, l) => /\ my'[t].pc = l /\ my'[t].p = r.p /\ my'[t].i = r.i
                                 /\ my'[t].entry = r.entry /\ my'[t].block = r.block
           /\ \A h, x : Set(t, [my[t] EXCEPT !.pc = "entry", !.header = h, !.tail = x])
                => /\ my'[t].pc = "entry" /\ my'[t].p = r.p /\ my'[t].i = r.i
                   /\ my'[t].header = h /\ my'[t].tail = x
           /\ \A e, b : Set(t, [my[t] EXCEPT !.pc = "move", !.entry = e, !.block = b])
                => /\ my'[t].pc = "move" /\ my'[t].p = r.p /\ my'[t].i = r.i
                   /\ my'[t].entry = e /\ my'[t].block = b
           /\ Finish(t) => my'[t].pc = "out"
<1>1. CallOK(r)  BY DEF QueueTypes
<1>2. r = [pc |-> r.pc, p |-> r.p, i |-> r.i, over |-> r.over, tail |-> r.tail,
           best |-> r.best, size |-> r.size, found |-> r.found, entry |-> r.entry,
           block |-> r.block, header |-> r.header, alone |-> r.alone, had |-> r.had]
  BY <1>1, CallShape
<1>3. \A x : Set(t, x) => my'[t] = x  BY MyAt DEF Set
<1>4. ASSUME NEW l, Go(t, l)
      PROVE  /\ my'[t].pc = l /\ my'[t].p = r.p /\ my'[t].i = r.i
             /\ my'[t].entry = r.entry /\ my'[t].block = r.block
  <2> DEFINE x == [r EXCEPT !.pc = l]
  <2>1. my' = [my EXCEPT ![t] = x]  BY <1>4 DEF Go
  <2>2. x.pc = l /\ x.p = r.p /\ x.i = r.i /\ x.entry = r.entry /\ x.block = r.block  BY <1>2
  <2> HIDE DEF x
  <2>3. my'[t] = x  BY <2>1, MyAt
  <2> QED BY <2>2, <2>3
<1>5. ASSUME NEW h, NEW x, Set(t, [my[t] EXCEPT !.pc = "entry", !.header = h, !.tail = x])
      PROVE  /\ my'[t].pc = "entry" /\ my'[t].p = r.p /\ my'[t].i = r.i
             /\ my'[t].header = h /\ my'[t].tail = x
  <2>1. my'[t] = [r EXCEPT !.pc = "entry", !.header = h, !.tail = x]  BY <1>3, <1>5
  <2> QED BY <1>2, <2>1
<1>6. ASSUME NEW e, NEW b, Set(t, [my[t] EXCEPT !.pc = "move", !.entry = e, !.block = b])
      PROVE  /\ my'[t].pc = "move" /\ my'[t].p = r.p /\ my'[t].i = r.i
             /\ my'[t].entry = e /\ my'[t].block = b
  <2>1. my'[t] = [r EXCEPT !.pc = "move", !.entry = e, !.block = b]  BY <1>3, <1>6
  <2> QED BY <1>2, <2>1
<1>8. Finish(t) => my'[t].pc = "out"  BY <1>3 DEF Finish, Idle
<1> QED BY <1>4, <1>5, <1>6, <1>8

\* Which steps change what the dequeuers read.
LEMMA HeadsSame ==
    ASSUME TableInv, QueueTypes, ClaimInv, NEW t \in Threads, ThreadStep(t), ~TakeIndex(t)
    PROVE  \A p \in Producers : sub'[p].headIndex = sub[p].headIndex
<1>t. TableTypes  BY DEF TableInv
<1>1. CASE CallEnqueue(t) \/ FailEnqueue(t) \/ InsertEntry(t) \/ TakeFromPool(t)
             \/ TakeBlock(t) \/ PutFirst(t) \/ Put(t)
  BY <1>t, <1>1, CallEnqueueEffect, FailEnqueueEffect, InsertEntryEffect, TakeFromPoolEffect,
     TakeBlockEffect, PutFirstEffect, PutEffect DEF EnqueueEffect
<1>2. CASE Score(t) \/ LoadOver(t) \/ TestOptimistic(t) \/ FindIndex(t) \/ FindEntry(t) \/ Move(t)
             \/ Unlink(t) \/ EndDequeue(t)
  <2>1. NoClaim(t)  BY <1>t, <1>2, ScoreEffect, LoadOverEffect, TestEffect, TakenEffect
  <2> QED BY <2>1 DEF NoClaim, SameCounts
<1>3. CASE Claim(t)
  <2>1. PICK p : p = my[t].p  OBVIOUS
  <2> QED BY <1>t, <1>3, <2>1, ClaimEffect
<1>4. CASE Check(t)  BY <1>t, <1>4, CheckEffect
<1>5. CASE Excess(t)
  <2>1. PICK p : p = my[t].p  OBVIOUS
  <2> QED BY <1>t, <1>5, <2>1, ExcessEffect
<1>6. CASE CallDequeue(t) \/ ThreadExit(t) \/ TableStep(t) \/ FreeStep(t)
  BY <1>6 DEF CallDequeue, ThreadExit, TableStep, FreeStep
<1> QED BY <1>1, <1>2, <1>3, <1>4, <1>5, <1>6 DEF ThreadStep

\* Steps that leave the tail, the cells and the counters.
SameTail(p) == sub'[p].tailIndex = sub[p].tailIndex /\ sub'[p].tailBlock = sub[p].tailBlock

LEMMA TailEdited ==
    ASSUME QueueTypes, NEW p \in Producers, NEW s, sub' = [sub EXCEPT ![p] = s],
           s.tailIndex = sub[p].tailIndex, s.tailBlock = sub[p].tailBlock
    PROVE  \A q \in Producers : SameTail(q)
<1>1. sub'[p] = s /\ \A q \in Producers : q # p => sub'[q] = sub[q]  BY SubEdit
<1> QED BY <1>1 DEF SameTail

LEMMA TailsSame ==
    ASSUME Base, NEW t \in Threads, ThreadStep(t), ~PutFirst(t), ~Put(t)
    PROVE  \A p \in Producers : SameTail(p)
<1>t. TableInv /\ TableTypes /\ QueueTypes /\ ClaimInv /\ LabelInv  BY DEF Base, TableInv
<1>1. CASE ~EditsIndex(t)
  <2>1. \A p \in Producers : SubKept(p)  BY <1>t, <1>1, QuietIndex
  <2> QED BY <2>1 DEF SubKept, SameTail
<1>2. CASE sub' = sub  BY <1>2 DEF SameTail
<1>3. CASE InsertEntry(t)
  <2>1. PICK p : p = mine[t]  OBVIOUS
  <2>2. p # 0  BY <1>3, <2>1 DEF InsertEntry, StartsBlock, Table!NoProducer
  <2>3. p \in Producers /\ SubOK(sub[p])  BY <1>t, <2>1, <2>2, OwnSub
  <2>4. PICK h : h = Header(p)  OBVIOUS
  <2>5. PICK e : e = h.index[NextSlot(h)]  OBVIOUS
  <2>6. \/ sub' = sub
        \/ sub' = [sub EXCEPT ![p] = WithEntry(sub[p], e, sub[p].tailIndex)]
        \/ sub' = [sub EXCEPT ![p] = Doubled(sub[p])]
    BY <1>3, <2>1, <2>4, <2>5 DEF InsertEntry
  <2>7. CASE sub' = [sub EXCEPT ![p] = WithEntry(sub[p], e, sub[p].tailIndex)]
    <3>1. PICK s : s = WithEntry(sub[p], e, sub[p].tailIndex)  OBVIOUS
    <3>2. s.tailIndex = sub[p].tailIndex /\ s.tailBlock = sub[p].tailBlock
      BY <2>3, <3>1, WithEntryFields
    <3>3. sub' = [sub EXCEPT ![p] = s]  BY <2>7, <3>1
    <3> QED BY <1>t, <2>3, <3>2, <3>3, TailEdited
  <2>8. CASE sub' = [sub EXCEPT ![p] = Doubled(sub[p])]
    <3>1. PICK s : s = Doubled(sub[p])  OBVIOUS
    <3>2. LastOf(sub[p], h, Len(sub[p].entries))
      <4>1. PICK m, num, off : IndexAt(p, m, num, off)  BY <2>3 DEF Base, IndexInv
      <4>2. Indexed(sub[p].entries, sub[p].headers, m, num, off)  BY <4>1 DEF IndexAt
      <4>3. Size(h.index) = Len(sub[p].entries)  BY <2>4, <4>2, TailNum DEF Header
      <4> QED BY <2>4, <4>3 DEF LastOf, Header
    <3>3. DoubledTo(s, sub[p], h, Len(sub[p].entries))  BY <2>3, <3>1, <3>2, DoubledFields
    <3>4. s.tailIndex = sub[p].tailIndex /\ s.tailBlock = sub[p].tailBlock  BY <3>3 DEF DoubledTo
    <3>5. sub' = [sub EXCEPT ![p] = s]  BY <2>8, <3>1
    <3> QED BY <1>t, <2>3, <3>4, <3>5, TailEdited
  <2> QED BY <1>2, <2>6, <2>7, <2>8
<1>4. CASE TakeBlock(t)
  <2>1. PICK p : p = mine[t]  OBVIOUS
  <2>2. p # 0
    <3>1. Inserting(t)  BY <1>4 DEF TakeBlock, Inserting
    <3> QED BY <1>t, <2>1, <3>1 DEF LabelInv, LabelAt
  <2>3. p \in Producers /\ SubOK(sub[p])  BY <1>t, <2>1, <2>2, OwnSub
  <2>4. PICK e : e = my[t].entry  OBVIOUS
  <2>5. sub' = sub \/ sub' = [sub EXCEPT ![p] = Rewound(sub[p], e)]  BY <1>4, <2>1, <2>4 DEF TakeBlock
  <2>6. CASE sub' = [sub EXCEPT ![p] = Rewound(sub[p], e)]
    <3>1. PICK s : s = Rewound(sub[p], e)  OBVIOUS
    <3>2. PICK h : h = sub[p].headers[Len(sub[p].headers)]  OBVIOUS
    <3>3. PICK x : x = (h.tail + Size(h.index) - 1) % Size(h.index)  OBVIOUS
    <3>4. s.tailIndex = sub[p].tailIndex /\ s.tailBlock = sub[p].tailBlock
      BY <2>3, <3>1, <3>2, <3>3, RewoundFields
    <3>5. sub' = [sub EXCEPT ![p] = s]  BY <2>6, <3>1
    <3> QED BY <1>t, <2>3, <3>4, <3>5, TailEdited
  <2> QED BY <1>2, <2>5, <2>6
<1>5. CASE Unlink(t)
  <2>1. PICK p, e : p = my[t].p /\ e = my[t].entry  OBVIOUS
  <2>2. my[t].pc \in Walking  BY <1>5 DEF Unlink, Walking
  <2>3. p \in Producers /\ SubOK(sub[p])  BY <1>t, <2>1, <2>2, WalkerAt DEF QueueTypes
  <2>4. PICK s : s = NamedIn(sub[p], e, Null)  OBVIOUS
  <2>5. s.tailIndex = sub[p].tailIndex /\ s.tailBlock = sub[p].tailBlock  BY <2>3, <2>4, NamedFields
  <2>6. sub' = [sub EXCEPT ![p].entries[e].value = Null]  BY <1>5, <2>1 DEF Unlink
  <2>7. sub' = [sub EXCEPT ![p] = s]  BY <2>4, <2>6 DEF NamedIn
  <2> QED BY <1>t, <2>3, <2>5, <2>7, TailEdited
<1> QED BY <1>1, <1>3, <1>4, <1>5 DEF EditsIndex

LEMMA CellsSame ==
    ASSUME NEW t \in Threads, ThreadStep(t), ~PutFirst(t), ~Put(t), ~Move(t)
    PROVE  cell' = cell /\ dequeued' = dequeued
<1>1. CallEnqueue(t) \/ FailEnqueue(t) \/ InsertEntry(t) \/ TakeFromPool(t) \/ TakeBlock(t)
        => cell' = cell /\ dequeued' = dequeued
  BY DEF CallEnqueue, FailEnqueue, InsertEntry, TakeFromPool, TakeBlock, blocks
<1>2. CallDequeue(t) \/ Score(t) \/ LoadOver(t) \/ TestOptimistic(t) \/ Claim(t) \/ Check(t)
        \/ Excess(t) \/ TakeIndex(t) \/ FindIndex(t) \/ FindEntry(t) \/ Unlink(t) \/ EndDequeue(t)
        => cell' = cell /\ dequeued' = dequeued
  BY DEF CallDequeue, Score, LoadOver, TestOptimistic, Claim, Check, Excess, TakeIndex, FindIndex,
         FindEntry, Unlink, EndDequeue, blocks
<1>3. ThreadExit(t) \/ TableStep(t) \/ FreeStep(t) => cell' = cell /\ dequeued' = dequeued
  BY DEF ThreadExit, TableStep, FreeStep, blocks
<1> QED BY <1>1, <1>2, <1>3 DEF ThreadStep

LEMMA CreatedGrows ==
    ASSUME TableInv, QueueTypes, ClaimInv, NEW t \in Threads, ThreadStep(t)
    PROVE  created <= created' /\ created \in Nat /\ created' \in Nat
<1>1. [Next]_vars  BY DEF Next
<1>2. TableTypes /\ TableTypes'  BY <1>1, TableNext DEF TableInv
<1>3. created \in Nat /\ created' \in Nat  BY <1>2, QueueAssumption DEF TableTypes
<1>4. created <= created'
  <2>1. StillEffect => created <= created'  BY DEF StillEffect
  <2>2. \A u : EnqueueEffect(u) \/ CallDequeueEffect(u) \/ DequeueEffect(u) => created' = created
    BY DEF EnqueueEffect, CallDequeueEffect, DequeueEffect
  <2> QED BY <1>1, <1>3, <2>1, <2>2, QueueSteps
<1> QED BY <1>3, <1>4

\* A thread stays on its way with the index it has.
SameReader(t) == /\ \A p, i : HoldsIt(t, p, i)' <=> HoldsIt(t, p, i)
                 /\ \A p, e : Unlinker(t, p, e)' <=> Unlinker(t, p, e)

\* Steps after which a thread reads and unlinks as before.
LEMMA ApartReader == ASSUME NEW u, Apart(u)  PROVE SameReader(u)
BY DEF Apart, CallApart, SameReader, HoldsIt, Unlinker

LEMMA ReaderSame ==
    ASSUME TableInv, QueueTypes, ClaimInv, NEW t \in Threads, ThreadStep(t),
           ~TakeIndex(t), ~Move(t), ~Unlink(t)
    PROVE  SameReader(t)
<1>t. TableTypes  BY DEF TableInv
<1> DEFINE Quiet(l) == l \notin Moving \cup {"unlink"}
<1>1. ASSUME Quiet(my[t].pc), Quiet(my'[t].pc)  PROVE SameReader(t)
  BY <1>1 DEF SameReader, HoldsIt, Unlinker
<1>2. \A l \in Walking : l \in Moving \/ l = "unlink" \/ Quiet(l)  BY DEF Walking
<1>3. CASE CallEnqueue(t) \/ FailEnqueue(t) \/ InsertEntry(t) \/ TakeFromPool(t)
             \/ TakeBlock(t) \/ PutFirst(t) \/ Put(t)
  <2>1. EnqueueEffect(t)
    BY <1>t, <1>3, CallEnqueueEffect, FailEnqueueEffect, InsertEntryEffect, TakeFromPoolEffect,
       TakeBlockEffect, PutFirstEffect, PutEffect
  <2>2. my[t].pc \notin Walking /\ my'[t].pc \notin Walking  BY <2>1 DEF EnqueueEffect
  <2> QED BY <1>1, <2>2 DEF Walking, Moving
<1>4. CASE CallDequeue(t)
  <2>1. my[t].pc = "out" /\ my'[t].pc = "score"  BY <1>t, <1>4, CallDequeueHas DEF CallDequeueEffect
  <2> QED BY <1>1, <2>1 DEF Moving
<1>5. CASE Score(t) \/ LoadOver(t) \/ TestOptimistic(t) \/ Claim(t) \/ Check(t) \/ Excess(t)
  <2>1. my[t].pc \in {"score", "load", "test", "claim", "check", "excess"}
    BY <1>5 DEF Score, LoadOver, TestOptimistic, Claim, Check, Excess
  <2>2. CASE Score(t)
    <3>1. my'[t].pc \in {"score", "load", "out"}
      <4> DEFINE r == my[t]
      <4>1. CallOK(r)  BY DEF QueueTypes
      <4>2. r = [pc |-> r.pc, p |-> r.p, i |-> r.i, over |-> r.over, tail |-> r.tail,
                 best |-> r.best, size |-> r.size, found |-> r.found, entry |-> r.entry,
                 block |-> r.block, header |-> r.header, alone |-> r.alone, had |-> r.had]
        BY <4>1, CallShape
      <4>3. r.pc = "score"  BY <2>2 DEF Score
      <4> DEFINE size == IF Holds(r.p) THEN sub[r.p].tailIndex - sub[r.p].headIndex ELSE 0
                 found == IF size > 0 THEN r.found + 1 ELSE r.found
                 best == IF size > r.size THEN r.p ELSE r.best
                 more == IF size > r.size THEN size ELSE r.size
      <4>9. \/ Set(t, [r EXCEPT !.p = r.p - 1, !.found = found, !.best = best, !.size = more])
            \/ Set(t, Idle)
            \/ Set(t, [r EXCEPT !.pc = "load", !.p = best, !.best = best, !.found = 0, !.size = 0])
        BY <2>2 DEF Score, Finish
      <4> HIDE DEF size, found, best, more
      <4>4. \/ \E a, b, c, d : Set(t, [r EXCEPT !.p = a, !.found = b, !.best = c, !.size = d])
            \/ Set(t, Idle)
            \/ \E a, b, c, d : Set(t, [r EXCEPT !.pc = "load", !.p = a, !.best = b, !.found = c, !.size = d])
        BY <4>9
      <4>5. \A x : Set(t, x) => my'[t] = x  BY MyAt DEF Set
      <4> HIDE DEF r
      <4>6. CASE \E a, b, c, d : Set(t, [r EXCEPT !.p = a, !.found = b, !.best = c, !.size = d])
        BY <4>2, <4>3, <4>5, <4>6
      <4>7. CASE Set(t, Idle)  BY <4>5, <4>7 DEF Idle
      <4>8. CASE \E a, b, c, d : Set(t, [r EXCEPT !.pc = "load", !.p = a, !.best = b, !.found = c, !.size = d])
        BY <4>2, <4>5, <4>8
      <4> QED BY <4>4, <4>6, <4>7, <4>8
    <3> QED BY <1>1, <2>1, <3>1 DEF Moving
  <2>3. CASE LoadOver(t)
    <3>1. my'[t].pc = "test"  BY <1>t, <2>3, LoadOverEffect
    <3> QED BY <1>1, <2>1, <3>1 DEF Moving
  <2>4. CASE TestOptimistic(t)
    <3>1. Go(t, "claim") \/ Onwards(t)  BY <2>4 DEF TestOptimistic
    <3>2. Go(t, "claim") => my'[t].pc = "claim"  BY MyFields
    <3>3. my[t].pc \in Walking  BY <2>1 DEF Walking
    <3>4. Onwards(t) => my'[t].pc \in {"load", "out"}  BY <1>t, <3>3, OnwardsEffect
    <3> QED BY <1>1, <2>1, <3>1, <3>2, <3>4 DEF Moving
  <2>5. CASE Claim(t)
    <3> DEFINE r == my[t]
    <3>1. CallOK(r)  BY DEF QueueTypes
    <3>2. r = [pc |-> r.pc, p |-> r.p, i |-> r.i, over |-> r.over, tail |-> r.tail,
               best |-> r.best, size |-> r.size, found |-> r.found, entry |-> r.entry,
               block |-> r.block, header |-> r.header, alone |-> r.alone, had |-> r.had]
      BY <3>1, CallShape
    <3>5. PICK x : x = sub[my[t].p].optimistic  OBVIOUS
    <3>6. Set(t, [r EXCEPT !.pc = "check", !.i = x])  BY <2>5, <3>5 DEF Claim
    <3> HIDE DEF r
    <3>3. my'[t] = [r EXCEPT !.pc = "check", !.i = x]  BY <3>6, MyAt DEF Set
    <3>4. my'[t].pc = "check"  BY <3>2, <3>3
    <3> QED BY <1>1, <2>1, <3>4 DEF Moving
  <2>6. CASE Check(t)
    <3>1. my'[t].pc \in {"take index", "excess"}  BY <1>t, <2>6, CheckEffect
    <3> QED BY <1>1, <2>1, <3>1 DEF Moving
  <2>7. CASE Excess(t)
    <3>1. my'[t].pc \in {"load", "out"}  BY <1>t, <2>7, ExcessEffect
    <3> QED BY <1>1, <2>1, <3>1 DEF Moving
  <2> QED BY <1>5, <2>2, <2>3, <2>4, <2>5, <2>6, <2>7
<1>6. CASE FindIndex(t)
  <2>1. PICK h, x : Set(t, [my[t] EXCEPT !.pc = "entry", !.header = h, !.tail = x])
    BY <1>6 DEF FindIndex
  <2>0. PICK r : r = my[t]  OBVIOUS
  <2>2. my'[t].pc = "entry" /\ my'[t].p = my[t].p /\ my'[t].i = my[t].i
    <3>1. my'[t].pc = "entry" /\ my'[t].p = r.p /\ my'[t].i = r.i  BY <2>0, <2>1, MyFields
    <3> QED BY <2>0, <3>1
  <2>3. my[t].pc = "find"  BY <1>6 DEF FindIndex
  <2> QED BY <2>2, <2>3 DEF SameReader, HoldsIt, Unlinker, Moving
<1>7. CASE FindEntry(t)
  <2>1. PICK e, b : Set(t, [my[t] EXCEPT !.pc = "move", !.entry = e, !.block = b])
    BY <1>7 DEF FindEntry
  <2>0. PICK r : r = my[t]  OBVIOUS
  <2>2. my'[t].pc = "move" /\ my'[t].p = my[t].p /\ my'[t].i = my[t].i
    <3>1. my'[t].pc = "move" /\ my'[t].p = r.p /\ my'[t].i = r.i  BY <2>0, <2>1, MyFields
    <3> QED BY <2>0, <3>1
  <2>3. my[t].pc = "entry"  BY <1>7 DEF FindEntry
  <2> QED BY <2>2, <2>3 DEF SameReader, HoldsIt, Unlinker, Moving
<1>8. CASE EndDequeue(t)
  <2>1. my[t].pc = "add" /\ my'[t].pc = "out"  BY <1>8, MyFields DEF EndDequeue
  <2> QED BY <1>1, <2>1 DEF Moving
<1>9. CASE ThreadExit(t) \/ TableStep(t) \/ FreeStep(t)
  BY <1>9 DEF ThreadExit, TableStep, FreeStep, SameReader, HoldsIt, Unlinker
<1> QED BY <1>3, <1>4, <1>5, <1>6, <1>7, <1>8, <1>9 DEF ThreadStep

\* What is unmoved stays so.
StillUnmoved == \A p \in Producers : \A i \in Int : UnmovedAt(p, i)' <=> UnmovedAt(p, i)

LEMMA UnmovedSame ==
    ASSUME \A u \in Threads : SameReader(u), \A p \in Producers : sub'[p].headIndex = sub[p].headIndex
    PROVE  StillUnmoved
<1> SUFFICES ASSUME NEW p \in Producers, NEW i \in Int  PROVE UnmovedAt(p, i)' <=> UnmovedAt(p, i)
  BY DEF StillUnmoved
<1>1. sub'[p].headIndex = sub[p].headIndex  OBVIOUS
<1>2. (\E u \in Threads : HoldsIt(u, p, i)') <=> (\E u \in Threads : HoldsIt(u, p, i))
  BY DEF SameReader
<1> QED BY <1>1, <1>2 DEF UnmovedAt

LEMMA UnmovedSets ==
    ASSUME StillUnmoved, NEW p \in Producers  PROVE \A k : Unmoved(p, k)' = Unmoved(p, k)
<1>1. \A k : CellsOf(k) \subseteq Int  BY DEF CellsOf
<1> QED BY <1>1 DEF StillUnmoved, Unmoved, CellsOf

LEMMA UnmovedNat ==
    ASSUME NEW p, NEW k, Whole(k)
    PROVE  /\ Unmoved(p, k) \subseteq CellsOf(k)
           /\ IsFiniteSet(Unmoved(p, k)) /\ Cardinality(Unmoved(p, k)) \in Nat
           /\ IsFiniteSet(CellsOf(k)) /\ Cardinality(CellsOf(k)) = BlockSize
<1>1. Unmoved(p, k) \subseteq CellsOf(k)  BY DEF Unmoved
<1>2. k \in Int /\ BlockSize \in Nat /\ k + BlockSize - 1 \in Int  BY WholeNat, QueueAssumption
<1>3. IsFiniteSet(CellsOf(k)) /\ Cardinality(CellsOf(k)) = BlockSize
  <2>1. PICK l : l = k + BlockSize - 1  OBVIOUS
  <2>2. l \in Int /\ k <= l + 1 /\ l - k + 1 = BlockSize  BY <1>2, <2>1
  <2>3. IsFiniteSet(k..l) /\ Cardinality(k..l) = IF k > l THEN 0 ELSE l - k + 1
    BY <1>2, <2>2, FS_Interval
  <2>4. k <= l  BY <1>2, <2>2, QueueAssumption
  <2>5. Cardinality(k..l) = BlockSize  BY <1>2, <2>2, <2>3, <2>4
  <2> QED BY <2>1, <2>3, <2>5 DEF CellsOf
<1>4. IsFiniteSet(Unmoved(p, k))  BY <1>1, <1>3, FS_Subset
<1> QED BY <1>1, <1>3, <1>4, FS_CardinalityType

\* The live blocks stay in order when a step moves nothing and unlinks nothing.
LEMMA LiveKept ==
    ASSUME LiveInv, StillUnmoved, cell' = cell, dequeued' = dequeued,
           created \in Nat, created' \in Nat, created <= created',
           \A p \in Producers : SameTail(p),
           \A p \in Producers : \A e, k, b : LiveAt(p, e, k, b)' =>
             /\ LiveAt(p, e, k, b)
             /\ (\E u \in Threads : Unlinker(u, p, e)) => \E u \in Threads : Unlinker(u, p, e)'
    PROVE  LiveInv'
<1> SUFFICES ASSUME NEW p \in Producers, NEW e, NEW k, NEW b, LiveAt(p, e, k, b)'
             PROVE  LiveOK(p, e, k, b)'
  BY DEF LiveInv
<1>1. LiveAt(p, e, k, b)  OBVIOUS
<1>2. LiveOK(p, e, k, b)  BY <1>1 DEF LiveInv
<1>3. sub'[p].tailIndex = sub[p].tailIndex /\ sub'[p].tailBlock = sub[p].tailBlock  BY DEF SameTail
<1>4. Unmoved(p, k)' = Unmoved(p, k)  BY UnmovedSets
<1>5. p <= created' /\ k < sub'[p].tailIndex
  <2>1. p \in Nat  BY QueueAssumption
  <2>2. p <= created /\ k < sub[p].tailIndex  BY <1>2 DEF LiveOK
  <2> QED BY <1>3, <2>1, <2>2
<1>6. CountOK(p, k, b)'
  <2>1. CountOK(p, k, b)  BY <1>2 DEF LiveOK
  <2> QED BY <1>4, <2>1 DEF CountOK
<1>7. CellsOK(p, k, b)'
  <2>1. CellsOK(p, k, b)  BY <1>2 DEF LiveOK
  <2> QED BY <1>3, <1>4, <2>1 DEF CellsOK, At
<1>8. LastOK(p, k, b)'
  <2>1. LastOK(p, k, b)  BY <1>2 DEF LiveOK
  <2> QED BY <1>3, <2>1 DEF LastOK
<1>9. GoesOK(p, e, k)'
  <2>1. GoesOK(p, e, k)  BY <1>2 DEF LiveOK
  <2>2. (\E u \in Threads : Unlinker(u, p, e)) => \E u \in Threads : Unlinker(u, p, e)'  OBVIOUS
  <2> QED BY <1>4, <2>1, <2>2 DEF GoesOK
<1> QED BY <1>5, <1>6, <1>7, <1>8, <1>9 DEF LiveOK

LEMMA CoverKept ==
    ASSUME CoverInv, StillUnmoved, \A p \in Producers : SameTail(p),
           \A p \in Producers : \A e, k, b :
             LiveAt(p, e, k, b) /\ Unmoved(p, k) # {} => LiveAt(p, e, k, b)'
    PROVE  CoverInv'
<1> SUFFICES ASSUME NEW p \in Producers, NEW k, Whole(k), k < sub'[p].tailIndex, Unmoved(p, k)' # {}
             PROVE  \E e, b : LiveAt(p, e, k, b)'
  BY DEF CoverInv, Whole
<1>1. k < sub[p].tailIndex  BY DEF SameTail
<1>2. Unmoved(p, k) # {}  BY UnmovedSets
<1>3. PICK e, b : LiveAt(p, e, k, b)  BY <1>1, <1>2 DEF CoverInv
<1> QED BY <1>2, <1>3

LEMMA TakenKept ==
    ASSUME TableTypes, QueueTypes, TakenInv, \A u \in Threads : SameReader(u),
           \A p \in Producers : sub'[p].headIndex = sub[p].headIndex
    PROVE  TakenInv'
<1> SUFFICES ASSUME NEW t \in Threads, NEW p, NEW i, HoldsIt(t, p, i)'
             PROVE  i < sub'[p].headIndex /\ \A u \in Threads : HoldsIt(u, p, i)' => u = t
  BY DEF TakenInv
<1>1. HoldsIt(t, p, i)  BY DEF SameReader
<1>2. my[t].pc \in Walking /\ my[t].p = p  BY <1>1 DEF HoldsIt, Moving, Walking
<1>3. p \in Producers  BY <1>2, WalkerAt
<1>4. i < sub'[p].headIndex  BY <1>1, <1>3 DEF TakenInv
<1>5. \A u \in Threads : HoldsIt(u, p, i)' => HoldsIt(u, p, i)  BY DEF SameReader
<1>6. \A u \in Threads : HoldsIt(u, p, i) => u = t  BY <1>1 DEF TakenInv
<1> QED BY <1>4, <1>5, <1>6

LEMMA UnlinkKept ==
    ASSUME UnlinkOne, \A u \in Threads : SameReader(u)  PROVE UnlinkOne'
BY DEF UnlinkOne, SameReader

\* A slot of a header has an entry of the index.
LEMMA SlotEntry ==
    ASSUME IndexInv, NEW p \in Producers, NEW j \in 1..Len(sub[p].headers),
           NEW f, f = sub[p].headers[j].index, NEW x \in DOMAIN f
    PROVE  f[x] \in 1..Len(sub[p].entries)
<1>1. PICK m, num, off : IndexAt(p, m, num, off)  BY DEF IndexInv
<1>2. PICK h : h = sub[p].headers[j]  OBVIOUS
<1>3. Fits(h, Len(sub[p].entries), num, off[j])  BY <1>1, <1>2 DEF IndexAt, Indexed, Headed
<1>4. f \in [0..(Size(f)-1) -> 1..Len(sub[p].entries)]  BY <1>2, <1>3, FitsShape
<1> QED BY <1>4

\* A thread that holds an index finds its block unmoved.
LEMMA HolderUnmoved ==
    ASSUME TableTypes, QueueTypes, NEW t \in Threads, NEW p, NEW i, HoldsIt(t, p, i)
    PROVE  /\ p \in Producers /\ p \in 1..created /\ i \in Nat
           /\ UnmovedAt(p, i) /\ i \in Unmoved(p, FirstOf(i))
<1>1. my[t].pc \in Walking /\ my[t].p = p /\ my[t].i = i  BY DEF HoldsIt, Moving, Walking
<1>2. p \in Producers /\ p \in 1..created  BY <1>1, WalkerAt
<1>3. i \in Nat  BY <1>1 DEF QueueTypes, CallOK
<1>4. UnmovedAt(p, i)  BY DEF UnmovedAt
<1>5. i \in CellsOf(FirstOf(i))  BY <1>3, FirstWhole
<1> QED BY <1>2, <1>3, <1>4, <1>5 DEF Unmoved

\* What a thread read stays good while its entry is not unlinked.
LEMMA ReadKept ==
    ASSUME TableTypes, QueueTypes, IndexInv, NEW u \in Threads, ReadAt(u), CallApart(u),
           \A p \in Producers : SubGrows(p),
           \A p \in Producers : \A e, k, b :
             LiveAt(p, e, k, b) /\ (Unmoved(p, k) # {} \/ Unlinker(u, p, e)) => LiveAt(p, e, k, b)',
           \A p \in Producers : \A k : Unmoved(p, k) = {} => Unmoved(p, k)' = {}
    PROVE  ReadAt(u)'
<1>1. PICK p, i, e, b, h, x : /\ p = my[u].p /\ i = my[u].i /\ e = my[u].entry /\ b = my[u].block
                              /\ h = my[u].header /\ x = my[u].tail
  OBVIOUS
<1>2. /\ my'[u].pc = my[u].pc /\ p = my'[u].p /\ i = my'[u].i /\ e = my'[u].entry /\ b = my'[u].block
      /\ h = my'[u].header /\ x = my'[u].tail
  BY <1>1 DEF CallApart
<1>3. CASE my[u].pc = "entry"
  <2>1. HoldsIt(u, p, i)  BY <1>1, <1>3 DEF HoldsIt, Moving
  <2>2. p \in Producers /\ Unmoved(p, FirstOf(i)) # {}  BY <2>1, HolderUnmoved
  <2>3. EntryRead(p, i, h, x)  BY <1>1, <1>3 DEF ReadAt
  <2>4. PICK f : f = sub[p].headers[h].index  OBVIOUS
  <2>5. /\ h \in 1..Len(sub[p].headers) /\ x \in DOMAIN f /\ sub[p].entries[f[x]].key # NoKey
        /\ \E a \in DOMAIN f : \E c : LiveAt(p, f[a], FirstOf(i), c)
    BY <2>3, <2>4 DEF EntryRead
  <2>6. SubGrows(p)  BY <2>2
  <2>7. h \in 1..Len(sub'[p].headers) /\ sub'[p].headers[h].index = f
    BY <2>4, <2>5, <2>6 DEF SubGrows, Grown
  <2>8. f[x] \in 1..Len(sub[p].entries)  BY <2>2, <2>4, <2>5, SlotEntry
  <2>9. sub'[p].entries[f[x]].key # NoKey  BY <2>5, <2>6, <2>8 DEF SubGrows, Grown
  <2>10. \E a \in DOMAIN f : \E c : LiveAt(p, f[a], FirstOf(i), c)'  BY <2>2, <2>5
  <2>11. EntryRead(p, i, h, x)'  BY <2>5, <2>7, <2>9, <2>10 DEF EntryRead, FirstOf
  <2> QED BY <1>2, <1>3, <2>11 DEF ReadAt
<1>4. CASE my[u].pc = "move"
  <2>1. HoldsIt(u, p, i)  BY <1>1, <1>4 DEF HoldsIt, Moving
  <2>2. p \in Producers /\ Unmoved(p, FirstOf(i)) # {}  BY <2>1, HolderUnmoved
  <2>3. LiveAt(p, e, FirstOf(i), b)  BY <1>1, <1>4 DEF ReadAt
  <2>4. LiveAt(p, e, FirstOf(i), b)'  BY <2>2, <2>3 DEF FirstOf
  <2> QED BY <1>2, <1>4, <2>4 DEF ReadAt, FirstOf
<1>5. CASE my[u].pc = "unlink"
  <2>1. Unlinker(u, p, e)  BY <1>1, <1>5 DEF Unlinker
  <2>2. p \in Producers  BY <1>1, <1>5, WalkerAt DEF Walking
  <2>3. PICK k : LiveAt(p, e, k, b) /\ Unmoved(p, k) = {}  BY <1>1, <1>5 DEF ReadAt, EmptyAt
  <2>4. LiveAt(p, e, k, b)' /\ Unmoved(p, k)' = {}  BY <2>1, <2>2, <2>3
  <2>5. EmptyAt(p, e, b)'  BY <2>4 DEF EmptyAt
  <2> QED BY <1>2, <1>5, <2>5 DEF ReadAt
<1>6. CASE my[u].pc \notin {"entry", "move", "unlink"}
  BY <1>2, <1>6 DEF ReadAt
<1> QED BY <1>3, <1>4, <1>5, <1>6

\* A step that leaves the live entries, the counters and the cells as they are.
LEMMA QuietRead ==
    ASSUME Base, Reading, NEW t \in Threads, ThreadStep(t),
           ~(Move(t) \/ Unlink(t) \/ PutFirst(t) \/ Put(t)), ReadAt(t)', StillUnmoved,
           TakenInv', UnlinkOne', \A p, e : Unlinker(t, p, e)' <=> Unlinker(t, p, e)
    PROVE  Reading'
<1>0. /\ TableInv /\ QueueTypes /\ ClaimInv /\ IndexInv /\ TableTypes
      /\ CellShape /\ LiveInv /\ CoverInv /\ ReadInv /\ UnlinkOne
  BY DEF Base, Reading, TableInv
<1>1. IndexStep(t) /\ \A u \in Threads \ {t} : Apart(u)  BY StepOthers
<1>2. \A p \in Producers : SubGrows(p) /\ SubLive(p)  BY <1>1 DEF IndexStep
<1>3. \A p \in Producers : \A e, k, b : LiveAt(p, e, k, b)' <=> LiveAt(p, e, k, b)
  BY <1>2 DEF SubLive, SameLive, LiveAt
<1>4. \A u \in Threads : \A p, e : Unlinker(u, p, e)' <=> Unlinker(u, p, e)
  BY <1>1, ApartReader DEF SameReader
<1>5. cell' = cell /\ dequeued' = dequeued  BY CellsSame
<1>6. \A p \in Producers : SameTail(p)  BY TailsSame
<1>7. LiveInv'
  <2>1. created <= created' /\ created \in Nat /\ created' \in Nat  BY <1>0, CreatedGrows
  <2> QED BY <1>0, <1>3, <1>4, <1>5, <1>6, <2>1, LiveKept
<1>8. CoverInv'  BY <1>0, <1>3, <1>6, CoverKept
<1>9. ReadInv'
  <2>1. ASSUME NEW u \in Threads \ {t}  PROVE ReadAt(u)'
    <3>1. ReadAt(u) /\ CallApart(u)  BY <1>0, <1>1 DEF ReadInv, Apart
    <3>2. \A p \in Producers : \A k : Unmoved(p, k) = {} => Unmoved(p, k)' = {}  BY UnmovedSets
    <3> QED BY <1>0, <1>2, <1>3, <3>1, <3>2, ReadKept
  <2> QED BY <2>1 DEF ReadInv
<1>10. CellShape'  BY <1>0, <1>5 DEF CellShape
<1> QED BY <1>7, <1>8, <1>9, <1>10 DEF Reading

LEMMA IdleRead ==
    ASSUME Base, Reading, NEW t \in Threads, ThreadStep(t),
           ~(TakeIndex(t) \/ Move(t) \/ Unlink(t) \/ PutFirst(t) \/ Put(t)), ReadAt(t)'
    PROVE  Reading'
<1>0. TableInv /\ QueueTypes /\ ClaimInv /\ TableTypes /\ TakenInv /\ UnlinkOne
  BY DEF Base, Reading, TableInv
<1>1. \A u \in Threads \ {t} : Apart(u)  BY StepOthers
<1>2. SameReader(t)  BY <1>0, ReaderSame
<1>3. \A u \in Threads : SameReader(u)  BY <1>1, <1>2, ApartReader
<1>4. \A p \in Producers : sub'[p].headIndex = sub[p].headIndex  BY <1>0, HeadsSame
<1>5. StillUnmoved  BY <1>3, <1>4, UnmovedSame
<1>6. TakenInv' /\ UnlinkOne'  BY <1>0, <1>3, <1>4, TakenKept, UnlinkKept
<1> QED BY <1>2, <1>5, <1>6, QuietRead DEF SameReader

\* The head moves on, and what it was at is in the hands of the thread.
LEMMA TakeIndexRead ==
    ASSUME Base, Reading, NEW t \in Threads, TakeIndex(t)
    PROVE  Reading'
<1>0. TableInv /\ QueueTypes /\ ClaimInv /\ TableTypes /\ TakenInv /\ UnlinkOne /\ ThreadStep(t)
  BY DEF Base, Reading, TableInv, ThreadStep
<1>1. \A u \in Threads \ {t} : Apart(u)  BY <1>0, StepOthers
<1>2. \A u \in Threads \ {t} : SameReader(u)  BY <1>1, ApartReader
<1>3. PICK p, h : p = my[t].p /\ h = sub[my[t].p].headIndex  OBVIOUS
<1>4. /\ my[t].pc = "take index" /\ p \in Producers
      /\ sub'[p].headIndex = h + 1
      /\ \A q \in Producers : q # p => sub'[q] = sub[q]
  BY <1>0, <1>3, TakeIndexEffect
<1>5. my'[t].pc = "find" /\ my'[t].p = p /\ my'[t].i = h
  <2>1. Set(t, [my[t] EXCEPT !.pc = "find", !.i = h])  BY <1>3 DEF TakeIndex
  <2>2. PICK r : r = my[t]  OBVIOUS
  <2>3. my'[t].pc = "find" /\ my'[t].p = r.p /\ my'[t].i = h
    <3>1. QueueTypes  BY <1>0
    <3>2. CallOK(r)  BY <2>2, <3>1 DEF QueueTypes
    <3>3. r = [pc |-> r.pc, p |-> r.p, i |-> r.i, over |-> r.over, tail |-> r.tail,
               best |-> r.best, size |-> r.size, found |-> r.found, entry |-> r.entry,
               block |-> r.block, header |-> r.header, alone |-> r.alone, had |-> r.had]
      BY <3>2, CallShape
    <3>4. my'[t] = [r EXCEPT !.pc = "find", !.i = h]  BY <2>1, <2>2, <3>1, MyAt DEF Set
    <3> QED BY <3>3, <3>4
  <2> QED BY <1>3, <2>2, <2>3
<1>6. h \in Nat /\ h = sub[p].headIndex  BY <1>0, <1>3, <1>4, ClaimNumbers
<1>7. \A q, i : HoldsIt(t, q, i)' <=> q = p /\ i = h  BY <1>5 DEF HoldsIt, Moving
<1>8. \A q, i : ~HoldsIt(t, q, i)  BY <1>4 DEF HoldsIt, Moving
<1>9. \A q, e : ~Unlinker(t, q, e) /\ ~Unlinker(t, q, e)'  BY <1>4, <1>5 DEF Unlinker
<1>10. \A u \in Threads \ {t} : \A q, i : HoldsIt(u, q, i)' <=> HoldsIt(u, q, i)
  BY <1>2 DEF SameReader
<1>11. \A u \in Threads : \A q, i : HoldsIt(u, q, i) =>
         q \in Producers /\ i \in Nat /\ i < sub[q].headIndex
  BY <1>0, HolderUnmoved DEF TakenInv
<1>12. StillUnmoved
  <2> SUFFICES ASSUME NEW q \in Producers, NEW i \in Int  PROVE UnmovedAt(q, i)' <=> UnmovedAt(q, i)
    BY DEF StillUnmoved
  <2>1. (\E u \in Threads : HoldsIt(u, q, i)')
          <=> (q = p /\ i = h) \/ \E u \in Threads : HoldsIt(u, q, i)
    BY <1>7, <1>8, <1>10
  <2>2. CASE q # p
    <3>1. sub'[q].headIndex = sub[q].headIndex  BY <1>4, <2>2
    <3> QED BY <2>1, <2>2, <3>1 DEF UnmovedAt
  <2>3. CASE q = p
    <3>1. i >= sub[p].headIndex <=> i >= sub'[p].headIndex \/ i = h
      <4>1. sub[p].headIndex = h /\ sub'[p].headIndex = h + 1  BY <1>4, <1>6
      <4>2. i >= h <=> i >= h + 1 \/ i = h  BY <1>6
      <4> QED BY <4>1, <4>2
    <3> QED BY <2>1, <2>3, <3>1 DEF UnmovedAt
  <2> QED BY <2>2, <2>3
<1>13. TakenInv'
  <2> SUFFICES ASSUME NEW v \in Threads, NEW q, NEW i, HoldsIt(v, q, i)'
               PROVE  i < sub'[q].headIndex /\ \A u \in Threads : HoldsIt(u, q, i)' => u = v
    BY DEF TakenInv
  <2>1. CASE v = t
    <3>1. q = p /\ i = h  BY <1>7, <2>1
    <3>2. i < sub'[q].headIndex
      <4>1. h < h + 1  BY <1>6
      <4> QED BY <1>4, <3>1, <4>1
    <3>3. \A u \in Threads \ {t} : ~HoldsIt(u, p, h)
      <4>1. ~(h < h)  BY <1>6
      <4> QED BY <1>6, <1>11, <4>1
    <3>4. \A u \in Threads \ {t} : ~HoldsIt(u, p, h)'  BY <1>10, <3>3
    <3> QED BY <2>1, <3>1, <3>2, <3>4
  <2>2. CASE v # t
    <3>1. HoldsIt(v, q, i)  BY <1>10, <2>2
    <3>2. q \in Producers /\ i \in Nat /\ i < sub[q].headIndex  BY <1>11, <3>1
    <3>3. i < sub'[q].headIndex
      <4>1. CASE q = p
        <5>1. i < h  BY <1>6, <3>2, <4>1
        <5>2. i < h + 1  BY <1>6, <3>2, <5>1
        <5> QED BY <1>4, <4>1, <5>2
      <4>2. CASE q # p  BY <1>4, <3>2, <4>2
      <4> QED BY <4>1, <4>2
    <3>4. ~(q = p /\ i = h)
      <4>1. ~(h < h)  BY <1>6
      <4> QED BY <1>6, <3>2, <4>1
    <3>5. ~HoldsIt(t, q, i)'  BY <1>7, <3>4
    <3>6. \A u \in Threads : HoldsIt(u, q, i) => u = v  BY <1>0, <3>1 DEF TakenInv
    <3> QED BY <1>10, <3>3, <3>5, <3>6
  <2> QED BY <2>1, <2>2
<1>14. UnlinkOne'
  <2>1. \A u \in Threads : \A q, e : Unlinker(u, q, e)' <=> Unlinker(u, q, e)
    BY <1>2, <1>9 DEF SameReader
  <2> QED BY <1>0, <2>1 DEF UnlinkOne
<1>15. ReadAt(t)'  BY <1>5 DEF ReadAt
<1>16. ~(Move(t) \/ Unlink(t) \/ PutFirst(t) \/ Put(t))  BY <1>4 DEF Move, Unlink, PutFirst, Put
<1> QED BY <1>0, <1>9, <1>12, <1>13, <1>14, <1>15, <1>16, QuietRead

ToEntry(r, h, x) == [r EXCEPT !.pc = "entry", !.header = h, !.tail = x]
ToMove(r, e, b) == [r EXCEPT !.pc = "move", !.entry = e, !.block = b]

LEMMA EntryFields ==
    ASSUME QueueTypes, NEW t \in Threads, NEW r, r = my[t], NEW h, NEW x,
           Set(t, ToEntry(r, h, x))
    PROVE  /\ my'[t].pc = "entry" /\ my'[t].p = r.p /\ my'[t].i = r.i
           /\ my'[t].header = h /\ my'[t].tail = x
<1>1. CallOK(r)  BY DEF QueueTypes
<1>2. r = [pc |-> r.pc, p |-> r.p, i |-> r.i, over |-> r.over, tail |-> r.tail,
           best |-> r.best, size |-> r.size, found |-> r.found, entry |-> r.entry,
           block |-> r.block, header |-> r.header, alone |-> r.alone, had |-> r.had]
  BY <1>1, CallShape
<1>3. my'[t] = ToEntry(r, h, x)  BY MyAt DEF Set
<1> QED BY <1>2, <1>3 DEF ToEntry

LEMMA MoveFields ==
    ASSUME QueueTypes, NEW t \in Threads, NEW r, r = my[t], NEW e, NEW b,
           Set(t, ToMove(r, e, b))
    PROVE  /\ my'[t].pc = "move" /\ my'[t].p = r.p /\ my'[t].i = r.i
           /\ my'[t].entry = e /\ my'[t].block = b
<1>1. CallOK(r)  BY DEF QueueTypes
<1>2. r = [pc |-> r.pc, p |-> r.p, i |-> r.i, over |-> r.over, tail |-> r.tail,
           best |-> r.best, size |-> r.size, found |-> r.found, entry |-> r.entry,
           block |-> r.block, header |-> r.header, alone |-> r.alone, had |-> r.had]
  BY <1>1, CallShape
<1>3. my'[t] = ToMove(r, e, b)  BY MyAt DEF Set
<1> QED BY <1>2, <1>3 DEF ToMove

\* The newest index has the entry of each block that is named.
LEMMA NewestReads ==
    ASSUME IndexInv, NEW p \in Producers, NEW e, NEW k, NEW b, LiveAt(p, e, k, b),
           NEW f, f = Header(p).index
    PROVE  /\ Len(sub[p].headers) \in 1..Len(sub[p].headers)
           /\ Header(p).tail \in DOMAIN f
           /\ sub[p].entries[f[Header(p).tail]].key # NoKey
           /\ \E a \in DOMAIN f : f[a] = e
<1>1. PICK m, num, off : IndexAt(p, m, num, off)  BY DEF IndexInv
<1>2. Indexed(sub[p].entries, sub[p].headers, m, num, off)  BY <1>1 DEF IndexAt
<1>3. PICK h, n : h = Header(p) /\ n = Len(sub[p].entries)  OBVIOUS
<1>4. /\ n \in Nat /\ m \in Nat
      /\ h.index \in [0..(n-1) -> 1..n] /\ h.tail \in 0..(n-1)
      /\ num[h.index[h.tail]] = m - 1
  <2>1. PICK E, H : E = sub[p].entries /\ H = sub[p].headers  OBVIOUS
  <2>2. h = H[Len(H)] /\ n = Len(E)  BY <1>3, <2>1 DEF Header
  <2>3. Indexed(E, H, m, num, off)  BY <1>2, <2>1
  <2>4. /\ Len(E) \in Nat /\ m \in Nat
        /\ H[Len(H)].index \in [0..(Len(E)-1) -> 1..Len(E)] /\ H[Len(H)].tail \in 0..(Len(E)-1)
        /\ num[H[Len(H)].index[H[Len(H)].tail]] = m - 1
    BY <2>3, TailNum
  <2> QED BY <2>2, <2>4
<1>5. Numbered(sub[p].entries, m, num)  BY <1>2 DEF Indexed
<1>6. e \in 1..n /\ sub[p].entries[e].value # Null  BY <1>3 DEF LiveAt, LiveIn
<1>7. num[e] \in Nat  BY <1>3, <1>5, <1>6, LiveNum
<1>8. num[e] <= m - 1  BY <1>3, <1>5, <1>6, NumberedShape
<1>9. m >= 1  BY <1>4, <1>7, <1>8
<1>10. h.index[h.tail] \in 1..n  BY <1>4
<1>11. sub[p].entries[h.index[h.tail]].key # NoKey
  <2>1. PICK y : y = h.index[h.tail]  OBVIOUS
  <2>2. y \in 1..Len(sub[p].entries) /\ num[y] = m - 1  BY <1>3, <1>4, <1>10, <2>1
  <2>3. sub[p].entries[y].key # NoKey  BY <1>5, <1>9, <2>2, NumberedShape
  <2> QED BY <2>1, <2>3
<1>12. \E a \in 0..(n-1) : h.index[a] = e
  <2>1. Newest(h, n, m, off[Len(sub[p].headers)])  BY <1>2, <1>3 DEF Indexed, Headed, Header
  <2> QED BY <1>6, <2>1 DEF Newest
<1>13. Len(sub[p].headers) \in 1..Len(sub[p].headers)
  <2>1. Len(sub[p].headers) >= 1 /\ sub[p].headers \in Seq(AHeader)  BY <1>2 DEF Indexed, Headed
  <2>2. Len(sub[p].headers) \in Nat  BY <2>1
  <2> QED BY <2>1, <2>2
<1> QED BY <1>3, <1>4, <1>11, <1>12, <1>13

\* An element that was taken is in a block that is named.
LEMMA HeldNamed ==
    ASSUME Base, Reading, NEW t \in Threads, NEW p, NEW i, HoldsIt(t, p, i)
    PROVE  p \in Producers /\ i \in Nat /\ \E e, b : LiveAt(p, e, FirstOf(i), b)
<1>0. TableTypes /\ QueueTypes /\ ClaimInv /\ TakenInv /\ CoverInv
  BY DEF Base, Reading, TableInv
<1>1. p \in Producers /\ i \in Nat /\ i \in Unmoved(p, FirstOf(i))  BY <1>0, HolderUnmoved
<1>2. i < sub[p].headIndex  BY <1>0 DEF TakenInv
<1>3. sub[p].headIndex <= sub[p].tailIndex
  <2>1. ClaimsAdd(p)  BY <1>0, <1>1 DEF ClaimInv, ClaimAt
  <2>2. Taken(p) <= sub[p].tailIndex  BY <2>1 DEF ClaimsAdd
  <2>3. sub[p].headIndex \in Nat /\ sub[p].tailIndex \in Nat
        /\ Cardinality(AtLabel(p, "take index")) \in Nat
    BY <1>0, <1>1, ClaimNumbers
  <2>4. PICK x, y, z : /\ x = sub[p].headIndex /\ y = sub[p].tailIndex
                       /\ z = Cardinality(AtLabel(p, "take index"))
    OBVIOUS
  <2>5. x + z <= y  BY <2>2, <2>4 DEF Taken
  <2>6. x \in Nat /\ y \in Nat /\ z \in Nat  BY <2>3, <2>4
  <2>7. x <= y  BY <2>5, <2>6
  <2> QED BY <2>4, <2>7
<1>4. FirstOf(i) < sub[p].tailIndex
  <2>1. sub[p].headIndex \in Nat /\ sub[p].tailIndex \in Nat  BY <1>0, <1>1, ClaimNumbers
  <2>2. FirstOf(i) \in Nat /\ FirstOf(i) <= i  BY <1>1, FirstWhole
  <2> QED BY <1>1, <1>2, <1>3, <2>1, <2>2
<1>5. Whole(FirstOf(i))  BY <1>1, FirstWhole
<1> QED BY <1>0, <1>1, <1>4, <1>5 DEF CoverInv

\* The reader loads the newest header and its tail: the entry of its element is
\* there.
LEMMA FindIndexRead ==
    ASSUME Base, Reading, NEW t \in Threads, FindIndex(t)
    PROVE  Reading'
<1>0. QueueTypes /\ IndexInv /\ ThreadStep(t)  BY DEF Base, ThreadStep
<1>1. PICK r, p, i : r = my[t] /\ p = r.p /\ i = r.i  OBVIOUS
<1>2. PICK h, x : h = Len(sub[p].headers) /\ x = Header(p).tail  OBVIOUS
<1>3. r.pc = "find" /\ Set(t, [my[t] EXCEPT !.pc = "entry", !.header = h, !.tail = x]) /\ sub' = sub
  BY <1>1, <1>2 DEF FindIndex
<1>4. my'[t].pc = "entry" /\ my'[t].p = p /\ my'[t].i = i /\ my'[t].header = h /\ my'[t].tail = x
  <2>1. Set(t, ToEntry(r, h, x))  BY <1>1, <1>3 DEF ToEntry
  <2>2. QueueTypes /\ r = my[t] /\ Set(t, ToEntry(r, h, x))  BY <1>0, <1>1, <2>1
  <2>3. my'[t].pc = "entry" /\ my'[t].p = r.p /\ my'[t].i = r.i /\ my'[t].header = h /\ my'[t].tail = x
    <3>1. QueueTypes /\ t \in Threads /\ r = my[t] /\ Set(t, ToEntry(r, h, x))  BY <2>2
    <3>2. my'[t].pc = "entry"  BY <3>1, EntryFields
    <3>3. my'[t].p = r.p /\ my'[t].i = r.i  BY <3>1, EntryFields
    <3>4. my'[t].header = h  BY <3>1, EntryFields
    <3>5. my'[t].tail = x  BY <3>1, EntryFields
    <3> QED BY <3>2, <3>3, <3>4, <3>5
  <2> QED BY <1>1, <2>3
<1>5. HoldsIt(t, p, i)  BY <1>1, <1>3 DEF HoldsIt, Moving
<1>6. p \in Producers /\ i \in Nat  BY <1>5, HeldNamed
<1>7. PICK e, b : LiveAt(p, e, FirstOf(i), b)  BY <1>5, HeldNamed
<1>8. PICK f : f = Header(p).index  OBVIOUS
<1>9. /\ h \in 1..Len(sub[p].headers) /\ x \in DOMAIN f /\ sub[p].entries[f[x]].key # NoKey
      /\ \E a \in DOMAIN f : f[a] = e
  BY <1>0, <1>2, <1>6, <1>7, <1>8, NewestReads
<1>10. f = sub[p].headers[h].index  BY <1>2, <1>8 DEF Header
<1>11. \E a \in DOMAIN f : LiveAt(p, f[a], FirstOf(i), b)  BY <1>7, <1>9
<1>12. EntryRead(p, i, h, x)  BY <1>9, <1>10, <1>11 DEF EntryRead
<1>13. EntryRead(p, i, h, x)'  BY <1>3, <1>12 DEF EntryRead, LiveAt, FirstOf
<1>14. ReadAt(t)'  BY <1>4, <1>13 DEF ReadAt
<1>15. ~(TakeIndex(t) \/ Move(t) \/ Unlink(t) \/ PutFirst(t) \/ Put(t))
  BY <1>1, <1>3 DEF TakeIndex, Move, Unlink, PutFirst, Put
<1> QED BY <1>0, <1>14, <1>15, IdleRead

\* The reader finds the entry by its key, counted back from the tail that it has.
LEMMA FindEntryRead ==
    ASSUME Base, Reading, NEW t \in Threads, FindEntry(t)
    PROVE  Reading'
<1>0. QueueTypes /\ IndexInv /\ ReadInv /\ ThreadStep(t)  BY DEF Base, Reading, ThreadStep
<1>1. PICK r, p, i : r = my[t] /\ p = r.p /\ i = r.i  OBVIOUS
<1>2. PICK j, x : j = r.header /\ x = r.tail  OBVIOUS
<1>3. PICK h : h = sub[p].headers[j]  OBVIOUS
<1>4. PICK e : e = EntryFor(p, h, x, i)  OBVIOUS
<1>5. PICK b : b = sub[p].entries[e].value  OBVIOUS
<1>6. r.pc = "entry" /\ Set(t, [my[t] EXCEPT !.pc = "move", !.entry = e, !.block = b]) /\ sub' = sub
  BY <1>1, <1>2, <1>3, <1>4, <1>5 DEF FindEntry
<1>7. my'[t].pc = "move" /\ my'[t].p = p /\ my'[t].i = i /\ my'[t].entry = e /\ my'[t].block = b
  <2>1. Set(t, ToMove(r, e, b))  BY <1>1, <1>6 DEF ToMove
  <2>2. QueueTypes /\ r = my[t] /\ Set(t, ToMove(r, e, b))  BY <1>0, <1>1, <2>1
  <2>3. my'[t].pc = "move" /\ my'[t].p = r.p /\ my'[t].i = r.i /\ my'[t].entry = e /\ my'[t].block = b
    BY <2>2, MoveFields
  <2> QED BY <1>1, <2>3
<1>8. HoldsIt(t, p, i)  BY <1>1, <1>6 DEF HoldsIt, Moving
<1>9. p \in Producers /\ i \in Nat  BY <1>8, HeldNamed
<1>10. EntryRead(p, i, j, x)  BY <1>0, <1>1, <1>2, <1>6 DEF ReadInv, ReadAt
<1>11. PICK a \in DOMAIN h.index : \E c : LiveAt(p, h.index[a], FirstOf(i), c)
  BY <1>3, <1>10 DEF EntryRead
<1>12. PICK c : LiveAt(p, h.index[a], FirstOf(i), c)  BY <1>11
<1>13. /\ j \in 1..Len(sub[p].headers) /\ x \in DOMAIN h.index
       /\ sub[p].entries[h.index[x]].key # NoKey
  BY <1>3, <1>10 DEF EntryRead
<1>14. /\ sub[p].entries[h.index[a]].value = c /\ c # Null
       /\ sub[p].entries[h.index[a]].key = FirstOf(i)
  BY <1>12 DEF LiveAt, LiveIn
<1>15. PICK m, num, off : IndexAt(p, m, num, off)  BY <1>0, <1>9 DEF IndexInv
<1>16. Indexed(sub[p].entries, sub[p].headers, m, num, off)  BY <1>15 DEF IndexAt
<1>17. EntryFor(p, h, x, i) = h.index[a]
  <2>1. h.index = sub[p].headers[j].index /\ a \in DOMAIN h.index  BY <1>3, <1>11
  <2>2. sub[p].entries[h.index[a]].value # Null  BY <1>14
  <2>3. /\ j \in 1..Len(sub[p].headers) /\ x \in DOMAIN h.index
        /\ sub[p].entries[h.index[x]].key # NoKey /\ sub[p].entries[h.index[a]].key = FirstOf(i)
        /\ i \in Nat
    BY <1>9, <1>13, <1>14
  <2>4. FindsAt(p, m, num, off, j, h, x, i, a)  BY <1>16, <2>1, <2>2, <2>3 DEF FindsAt
  <2> QED BY <2>4, EntryForFinds
<1>18. LiveAt(p, e, FirstOf(i), b)  BY <1>4, <1>5, <1>12, <1>14, <1>17
<1>19. LiveAt(p, e, FirstOf(i), b)'  BY <1>6, <1>18 DEF LiveAt, FirstOf
<1>20. ReadAt(t)'  BY <1>7, <1>19 DEF ReadAt, FirstOf
<1>21. ~(TakeIndex(t) \/ Move(t) \/ Unlink(t) \/ PutFirst(t) \/ Put(t))
  BY <1>1, <1>6 DEF TakeIndex, Move, Unlink, PutFirst, Put
<1> QED BY <1>0, <1>20, <1>21, IdleRead

\* The steps that are neither of a dequeue on its way nor put an element.
LEMMA OtherRead ==
    ASSUME Base, Reading, NEW t \in Threads, ThreadStep(t),
           ~(TakeIndex(t) \/ FindIndex(t) \/ FindEntry(t) \/ Move(t) \/ Unlink(t) \/ PutFirst(t) \/ Put(t))
    PROVE  Reading'
<1>0. TableInv /\ QueueTypes /\ ClaimInv /\ TableTypes /\ LabelInv  BY DEF Base, TableInv
<1>1. SameReader(t)  BY <1>0, ReaderSame
<1>2. ASSUME TableStep(t) \/ FreeStep(t) \/ ThreadExit(t)  PROVE ReadAt(t)'
  <2>1. my' = my /\ sub' = sub  BY <1>2 DEF TableStep, FreeStep, ThreadExit
  <2>2. ReadAt(t)  BY DEF Reading, ReadInv
  <2> QED BY <2>1, <2>2 DEF ReadAt, EntryRead, EmptyAt, LiveAt, Unmoved, UnmovedAt, HoldsIt, CellsOf, FirstOf
<1>3. ASSUME ~(TableStep(t) \/ FreeStep(t) \/ ThreadExit(t))  PROVE ReadAt(t)'
  <2>1. my[t].pc \notin Moving \cup {"unlink"}
    BY <1>3 DEF ThreadStep, CallEnqueue, FailEnqueue, InsertEntry, StartsBlock, TakeFromPool, TakeBlock,
                CallDequeue, Score, LoadOver, TestOptimistic, Claim, Check, Excess, EndDequeue, Moving
  <2>2. PICK p, i, e : p = my'[t].p /\ i = my'[t].i /\ e = my'[t].entry  OBVIOUS
  <2>3. ~HoldsIt(t, p, i) /\ ~Unlinker(t, p, e)  BY <2>1 DEF HoldsIt, Unlinker
  <2>4. ~HoldsIt(t, p, i)' /\ ~Unlinker(t, p, e)'  BY <1>1, <2>3 DEF SameReader
  <2>5. my'[t].pc \notin Moving \cup {"unlink"}  BY <2>2, <2>4 DEF HoldsIt, Unlinker
  <2> QED BY <2>5 DEF ReadAt, Moving
<1>4. ReadAt(t)'  BY <1>2, <1>3
<1> QED BY <1>4, IdleRead

\* The entry that goes is of a block that is empty: no reader is on its way to
\* it, and no other thread unlinks it.
LEMMA UnlinkRead ==
    ASSUME Base, Reading, NEW t \in Threads, Unlink(t)
    PROVE  Reading'
<1>0. /\ TableInv /\ QueueTypes /\ ClaimInv /\ IndexInv /\ TableTypes /\ ThreadStep(t)
      /\ CellShape /\ LiveInv /\ CoverInv /\ ReadInv /\ UnlinkOne /\ TakenInv
  BY DEF Base, Reading, TableInv, ThreadStep
<1>1. IndexStep(t) /\ \A u \in Threads \ {t} : Apart(u)  BY <1>0, StepOthers
<1>2. \A u \in Threads \ {t} : SameReader(u)  BY <1>1, ApartReader
<1>3. PICK p, e, b : p = my[t].p /\ e = my[t].entry /\ b = my[t].block  OBVIOUS
<1>4. my[t].pc = "unlink" /\ p \in Producers /\ Unlinker(t, p, e)
  <2>1. my[t].pc = "unlink"  BY DEF Unlink
  <2>2. my[t].pc \in Walking  BY <2>1 DEF Walking
  <2> QED BY <1>0, <1>3, <2>1, <2>2, WalkerAt DEF Unlinker
<1>5. ~(TakeIndex(t) \/ Move(t) \/ PutFirst(t) \/ Put(t))  BY <1>4 DEF TakeIndex, Move, PutFirst, Put
<1>6. my'[t].pc \in {"add", "out"}
  <2>1. Go(t, "add") \/ Finish(t)  BY DEF Unlink
  <2>2. PICK r : r = my[t]  OBVIOUS
  <2>3. Go(t, "add") => my'[t].pc = "add"  BY <1>0, <2>2, MyFields
  <2>4. Finish(t) => my'[t].pc = "out"  BY <1>0, <2>2, MyFields
  <2> QED BY <2>1, <2>3, <2>4
<1>7. \A q, i : ~HoldsIt(t, q, i) /\ ~HoldsIt(t, q, i)'  BY <1>4, <1>6 DEF HoldsIt, Moving
<1>8. \A q, f : ~Unlinker(t, q, f)'  BY <1>6 DEF Unlinker
<1>9. \A u \in Threads : \A q, i : HoldsIt(u, q, i)' <=> HoldsIt(u, q, i)
  BY <1>2, <1>7 DEF SameReader
<1>10. \A q \in Producers : sub'[q].headIndex = sub[q].headIndex  BY <1>0, <1>5, HeadsSame
<1>11. StillUnmoved
  <2> SUFFICES ASSUME NEW q \in Producers, NEW i \in Int  PROVE UnmovedAt(q, i)' <=> UnmovedAt(q, i)
    BY DEF StillUnmoved
  <2>1. (\E u \in Threads : HoldsIt(u, q, i)') <=> (\E u \in Threads : HoldsIt(u, q, i))  BY <1>9
  <2> QED BY <1>10, <2>1 DEF UnmovedAt
<1>12. PICK k : LiveAt(p, e, k, b) /\ Unmoved(p, k) = {}  BY <1>0, <1>3, <1>4 DEF ReadInv, ReadAt, EmptyAt
<1>13. \A q \in Producers : \A f, l, c : LiveAt(q, f, l, c)' <=> LiveAt(q, f, l, c) /\ ~(q = p /\ f = e)
  <2>1. OnlyUnlinks(t)  BY <1>1 DEF IndexStep
  <2>2. \A f, l, c : LiveAt(p, f, l, c)' <=> LiveAt(p, f, l, c) /\ f # e
    <3>1. \A f, l, c : LiveIn(sub'[p].entries, f, l, c) <=> LiveAt(p, f, l, c) /\ f # e
      BY <1>3, <2>1 DEF OnlyUnlinks
    <3> QED BY <3>1 DEF LiveAt
  <2>3. \A q \in Producers : q # p => \A f, l, c : LiveAt(q, f, l, c)' <=> LiveAt(q, f, l, c)
    BY <1>3, <2>1 DEF OnlyUnlinks, SubLive, SameLive, LiveAt
  <2> QED BY <2>2, <2>3
<1>14. \A q \in Producers : \A f, l, c : LiveAt(q, f, l, c) /\ Unmoved(q, l) # {} => LiveAt(q, f, l, c)'
  <2>1. \A l, c : LiveAt(p, e, l, c) => l = k  BY <1>12 DEF LiveAt, LiveIn
  <2> QED BY <1>12, <1>13, <2>1
<1>15. \A q, f : Unlinker(t, q, f) => q = p /\ f = e  BY <1>3 DEF Unlinker
<1>16. \A u \in Threads \ {t} : \A q, f : Unlinker(u, q, f)' <=> Unlinker(u, q, f)
  BY <1>2 DEF SameReader
<1>17. \A u \in Threads \ {t} : ~Unlinker(u, p, e)  BY <1>0, <1>4 DEF UnlinkOne
<1>18. cell' = cell /\ dequeued' = dequeued  BY <1>0, <1>5, CellsSame
<1>19. \A q \in Producers : SameTail(q)  BY <1>0, <1>5, TailsSame
<1>20. LiveInv'
  <2>1. created <= created' /\ created \in Nat /\ created' \in Nat  BY <1>0, CreatedGrows
  <2>2. \A q \in Producers : \A f, l, c : LiveAt(q, f, l, c)' =>
          /\ LiveAt(q, f, l, c)
          /\ (\E u \in Threads : Unlinker(u, q, f)) => \E u \in Threads : Unlinker(u, q, f)'
    BY <1>13, <1>15, <1>16
  <2> QED BY <1>0, <1>11, <1>18, <1>19, <2>1, <2>2, LiveKept
<1>21. CoverInv'  BY <1>0, <1>11, <1>14, <1>19, CoverKept
<1>22. ReadInv'
  <2>1. ASSUME NEW u \in Threads \ {t}  PROVE ReadAt(u)'
    <3>1. ReadAt(u) /\ CallApart(u)  BY <1>0, <1>1 DEF ReadInv, Apart
    <3>2. \A q \in Producers : \A l : Unmoved(q, l) = {} => Unmoved(q, l)' = {}  BY <1>11, UnmovedSets
    <3>3. \A q \in Producers : SubGrows(q)  BY <1>1 DEF IndexStep
    <3>4. u \in Threads  OBVIOUS
    <3>5. CASE \E q, f : Unlinker(u, q, f)
      <4>1. PICK q, f, c : q = my[u].p /\ f = my[u].entry /\ c = my[u].block  OBVIOUS
      <4>2. my[u].pc = "unlink" /\ Unlinker(u, q, f)  BY <3>5, <4>1 DEF Unlinker
      <4>3. q \in Producers
        <5>1. my[u].pc \in Walking  BY <4>2 DEF Walking
        <5> QED BY <1>0, <4>1, <5>1, WalkerAt
      <4>4. PICK l : LiveAt(q, f, l, c) /\ Unmoved(q, l) = {}
        BY <3>1, <4>1, <4>2 DEF ReadAt, EmptyAt
      <4>5. LiveAt(q, f, l, c)' /\ Unmoved(q, l)' = {}  BY <1>13, <1>17, <3>2, <4>2, <4>3, <4>4
      <4>6. EmptyAt(q, f, c)'  BY <4>5 DEF EmptyAt
      <4>7. my'[u].pc = "unlink" /\ q = my'[u].p /\ f = my'[u].entry /\ c = my'[u].block
        BY <3>1, <4>1, <4>2 DEF CallApart
      <4> QED BY <4>6, <4>7 DEF ReadAt
    <3>6. CASE \A q, f : ~Unlinker(u, q, f)
      <4>1. \A q \in Producers : \A f, l, c :
              LiveAt(q, f, l, c) /\ (Unmoved(q, l) # {} \/ Unlinker(u, q, f)) => LiveAt(q, f, l, c)'
        BY <1>14, <3>6
      <4> QED BY <1>0, <3>1, <3>2, <3>3, <3>4, <4>1, ReadKept
    <3> QED BY <3>5, <3>6
  <2>2. ReadAt(t)'  BY <1>6 DEF ReadAt
  <2> QED BY <2>1, <2>2 DEF ReadInv
<1>23. TakenInv'
  <2> SUFFICES ASSUME NEW v \in Threads, NEW q, NEW i, HoldsIt(v, q, i)'
               PROVE  i < sub'[q].headIndex /\ \A u \in Threads : HoldsIt(u, q, i)' => u = v
    BY DEF TakenInv
  <2>1. HoldsIt(v, q, i)  BY <1>9
  <2>2. q \in Producers  BY <1>0, <2>1, HolderUnmoved
  <2>3. i < sub[q].headIndex /\ \A u \in Threads : HoldsIt(u, q, i) => u = v  BY <1>0, <2>1 DEF TakenInv
  <2> QED BY <1>9, <1>10, <2>2, <2>3
<1>24. UnlinkOne'
  <2>1. \A u \in Threads : \A q, f : Unlinker(u, q, f)' => Unlinker(u, q, f)  BY <1>8, <1>16
  <2> QED BY <1>0, <2>1 DEF UnlinkOne
<1>25. CellShape'  BY <1>0, <1>18 DEF CellShape
<1> QED BY <1>20, <1>21, <1>22, <1>23, <1>24, <1>25 DEF Reading

LEMMA HeadTail ==
    ASSUME QueueTypes, ClaimInv, NEW p \in Producers
    PROVE  /\ sub[p].headIndex \in Nat /\ sub[p].tailIndex \in Nat
           /\ sub[p].headIndex <= sub[p].tailIndex
<1>1. Taken(p) <= sub[p].tailIndex  BY DEF ClaimInv, ClaimAt, ClaimsAdd
<1>2. sub[p].headIndex \in Nat /\ sub[p].tailIndex \in Nat
      /\ Cardinality(AtLabel(p, "take index")) \in Nat
  BY ClaimNumbers
<1>3. PICK x, y, z : x = sub[p].headIndex /\ y = sub[p].tailIndex
                     /\ z = Cardinality(AtLabel(p, "take index"))
  OBVIOUS
<1>4. x + z <= y /\ x \in Nat /\ y \in Nat /\ z \in Nat  BY <1>1, <1>2, <1>3 DEF Taken
<1>5. x <= y  BY <1>4
<1> QED BY <1>2, <1>3, <1>5

\* What is not put yet is not moved either.
LEMMA TailUnmoved ==
    ASSUME QueueTypes, ClaimInv, NEW p \in Producers, NEW j \in Int, j >= sub[p].tailIndex
    PROVE  UnmovedAt(p, j)
<1>1. PICK x, y : x = sub[p].headIndex /\ y = sub[p].tailIndex  OBVIOUS
<1>2. x \in Nat /\ y \in Nat /\ x <= y  BY <1>1, HeadTail
<1>3. j >= x  BY <1>1, <1>2
<1> QED BY <1>1, <1>3 DEF UnmovedAt

\* A cell is written.
Filled(b, i, e) == [cell EXCEPT ![b][i % BlockSize] = e]

LEMMA FilledCells ==
    ASSUME CellShape, NEW b \in Blocks, NEW e, NEW i \in Nat, cell' = Filled(b, i, e)
    PROVE  /\ cell' = [c \in Blocks |-> cell'[c]]
           /\ \A c \in Blocks : cell'[c] = [j \in 0..(BlockSize-1) |-> cell'[c][j]]
           /\ \A c \in Blocks : c # b => cell'[c] = cell[c]
           /\ \A j \in Nat : j % BlockSize # i % BlockSize => At(b, j)' = At(b, j)
           /\ At(b, i)' = e
<1>1. PICK x : x = i % BlockSize  OBVIOUS
<1>2. x \in 0..(BlockSize-1)  BY <1>1, FirstWhole
<1>3. cell' = [cell EXCEPT ![b][x] = e]  BY <1>1 DEF Filled
<1>4. cell = [c \in Blocks |-> cell[c]] /\ cell[b] = [j \in 0..(BlockSize-1) |-> cell[b][j]]
  BY DEF CellShape
<1>5. /\ cell' = [c \in Blocks |-> cell'[c]]
      /\ cell'[b] = [cell[b] EXCEPT ![x] = e]
      /\ \A c \in Blocks : c # b => cell'[c] = cell[c]
  BY <1>3, <1>4
<1>6. /\ cell'[b] = [j \in 0..(BlockSize-1) |-> cell'[b][j]]
      /\ cell'[b][x] = e
      /\ \A j \in 0..(BlockSize-1) : j # x => cell'[b][j] = cell[b][j]
  BY <1>2, <1>4, <1>5
<1>7. \A c \in Blocks : cell'[c] = [j \in 0..(BlockSize-1) |-> cell'[c][j]]
  <2>1. \A c \in Blocks : cell[c] = [j \in 0..(BlockSize-1) |-> cell[c][j]]  BY DEF CellShape
  <2> SUFFICES ASSUME NEW c \in Blocks  PROVE cell'[c] = [j \in 0..(BlockSize-1) |-> cell'[c][j]]
    OBVIOUS
  <2>2. CASE c = b  BY <1>6, <2>2
  <2>3. CASE c # b
    <3>1. PICK f : f = cell[c]  OBVIOUS
    <3>2. f = [j \in 0..(BlockSize-1) |-> f[j]]  BY <2>1, <3>1
    <3>3. cell'[c] = f  BY <1>5, <2>3, <3>1
    <3> QED BY <3>2, <3>3
  <2> QED BY <2>2, <2>3
<1>8. \A j \in Nat : j % BlockSize # i % BlockSize => At(b, j)' = At(b, j)
  <2> SUFFICES ASSUME NEW j \in Nat, j % BlockSize # i % BlockSize  PROVE At(b, j)' = At(b, j)
    OBVIOUS
  <2>1. PICK y : y = j % BlockSize  OBVIOUS
  <2>2. y \in 0..(BlockSize-1) /\ y # x  BY <1>1, <2>1, FirstWhole
  <2>3. cell'[b][y] = cell[b][y]  BY <1>6, <2>2
  <2> QED BY <2>1, <2>3 DEF At
<1>9. At(b, i)' = e  BY <1>1, <1>6 DEF At
<1> QED BY <1>5, <1>7, <1>8, <1>9

LEMMA WrittenCells ==
    ASSUME CellShape, NEW b \in Blocks, NEW p, NEW i \in Nat, cell' = Written(b, p, i)
    PROVE  /\ cell' = [c \in Blocks |-> cell'[c]]
           /\ \A c \in Blocks : cell'[c] = [j \in 0..(BlockSize-1) |-> cell'[c][j]]
           /\ \A c \in Blocks : c # b => cell'[c] = cell[c]
           /\ \A j \in Nat : j % BlockSize # i % BlockSize => At(b, j)' = At(b, j)
           /\ At(b, i)' = <<p, i>>
<1>1. PICK e : e = <<p, i>>  OBVIOUS
<1>2. cell' = Filled(b, i, e)  BY <1>1 DEF Filled, Written
<1>3. /\ cell' = [c \in Blocks |-> cell'[c]]
      /\ \A c \in Blocks : cell'[c] = [j \in 0..(BlockSize-1) |-> cell'[c][j]]
      /\ \A c \in Blocks : c # b => cell'[c] = cell[c]
      /\ \A j \in Nat : j % BlockSize # i % BlockSize => At(b, j)' = At(b, j)
      /\ At(b, i)' = e
  BY <1>2, FilledCells
<1> QED BY <1>1, <1>3

\* The locals of the readers when an element is put.
LEMMA PutsRead ==
    ASSUME Base, Reading, NEW t \in Threads, PutFirst(t) \/ Put(t),
           \A q \in Producers : \A f, l, c : LiveAt(q, f, l, c) => LiveAt(q, f, l, c)'
    PROVE  /\ TakenInv' /\ UnlinkOne' /\ ReadInv' /\ StillUnmoved
           /\ \A u \in Threads : \A q, f : Unlinker(u, q, f)' <=> Unlinker(u, q, f)
<1>0. /\ TableInv /\ QueueTypes /\ ClaimInv /\ IndexInv /\ TableTypes /\ ThreadStep(t)
      /\ ReadInv /\ UnlinkOne /\ TakenInv
  BY DEF Base, Reading, TableInv, ThreadStep
<1>1. my[t].pc \in {"put", "lookup"}  BY DEF PutFirst, Put
<1>2. ~(TakeIndex(t) \/ Move(t) \/ Unlink(t))  BY <1>1 DEF TakeIndex, Move, Unlink
<1>3. IndexStep(t) /\ \A u \in Threads \ {t} : Apart(u)  BY <1>0, StepOthers
<1>4. SameReader(t)  BY <1>0, <1>2, ReaderSame
<1>5. \A u \in Threads : SameReader(u)  BY <1>3, <1>4, ApartReader
<1>6. \A q \in Producers : sub'[q].headIndex = sub[q].headIndex  BY <1>0, <1>2, HeadsSame
<1>7. StillUnmoved  BY <1>5, <1>6, UnmovedSame
<1>8. TakenInv' /\ UnlinkOne'  BY <1>0, <1>5, <1>6, TakenKept, UnlinkKept
<1>9. ReadInv'
  <2>1. ASSUME NEW u \in Threads \ {t}  PROVE ReadAt(u)'
    <3>1. ReadAt(u) /\ CallApart(u)  BY <1>0, <1>3 DEF ReadInv, Apart
    <3>2. \A q \in Producers : \A l : Unmoved(q, l) = {} => Unmoved(q, l)' = {}  BY <1>7, UnmovedSets
    <3>3. \A q \in Producers : SubGrows(q)  BY <1>3 DEF IndexStep
    <3> QED BY <1>0, <3>1, <3>2, <3>3, ReadKept
  <2>2. my'[t].pc = "out"
    <3>1. PICK r : r = my[t]  OBVIOUS
    <3>2. Finish(t)  BY DEF PutFirst, Put
    <3> QED BY <1>0, <3>1, <3>2, MyFields
  <2>3. ReadAt(t)'  BY <2>2 DEF ReadAt
  <2> QED BY <2>1, <2>3 DEF ReadInv
<1>10. \A u \in Threads : \A q, f : Unlinker(u, q, f)' <=> Unlinker(u, q, f)  BY <1>5 DEF SameReader
<1> QED BY <1>7, <1>8, <1>9, <1>10

\* A named block into which nothing is put.
LEMMA LiveBeside ==
    ASSUME QueueTypes, LiveInv, StillUnmoved, NEW p \in Producers, NEW e, NEW k, NEW b,
           LiveAt(p, e, k, b), k \in Nat, created' = created,
           \A u \in Threads : \A q, f : Unlinker(u, q, f)' <=> Unlinker(u, q, f),
           cell'[b] = cell[b], dequeued'[b] = dequeued[b],
           sub'[p].tailIndex \in Nat, sub[p].tailIndex <= sub'[p].tailIndex,
           \A i \in Unmoved(p, k) : i < sub'[p].tailIndex => i < sub[p].tailIndex,
           k + BlockSize >= sub'[p].tailIndex =>
             k + BlockSize >= sub[p].tailIndex /\ sub'[p].tailBlock = sub[p].tailBlock
    PROVE  LiveOK(p, e, k, b)'
<1>1. LiveOK(p, e, k, b)  BY DEF LiveInv
<1>2. Unmoved(p, k)' = Unmoved(p, k)  BY UnmovedSets
<1>3. p <= created' /\ k < sub'[p].tailIndex
  <2>1. sub[p].tailIndex \in Nat  BY ClaimNumbers
  <2>2. p <= created /\ k < sub[p].tailIndex  BY <1>1 DEF LiveOK
  <2> QED BY <2>1, <2>2
<1>4. CountOK(p, k, b)'  BY <1>1, <1>2 DEF LiveOK, CountOK
<1>5. CellsOK(p, k, b)'
  <2>1. \A i : At(b, i)' = At(b, i)  BY DEF At
  <2> QED BY <1>1, <1>2, <2>1 DEF LiveOK, CellsOK
<1>6. LastOK(p, k, b)'  BY <1>1 DEF LiveOK, LastOK
<1>7. GoesOK(p, e, k)'  BY <1>1, <1>2 DEF LiveOK, GoesOK
<1> QED BY <1>3, <1>4, <1>5, <1>6, <1>7 DEF LiveOK

\* A named block of a sub-queue whose tail moves on from a cell of another one.
LEMMA LivePassed ==
    ASSUME Base, PlaceInv, Reading, StillUnmoved, NEW p \in Producers, NEW e, NEW k, NEW b,
           LiveAt(p, e, k, b), created' = created,
           \A u \in Threads : \A q, f : Unlinker(u, q, f)' <=> Unlinker(u, q, f),
           cell'[b] = cell[b], dequeued'[b] = dequeued[b], NEW i, i = sub[p].tailIndex,
           sub'[p].tailIndex = i + 1, Whole(i) \/ sub'[p].tailBlock = sub[p].tailBlock,
           FirstOf(i) # k
    PROVE  LiveOK(p, e, k, b)'
<1>0. QueueTypes /\ IndexInv /\ LiveInv  BY DEF Base, Reading
<1>1. Whole(k) /\ k \in Nat  BY <1>0, LiveKey
<1>2. i \in Nat /\ BlockSize \in Nat  BY <1>0, ClaimNumbers, QueueAssumption
<1>3. k < i  BY <1>0 DEF LiveInv, LiveOK
<1>4. sub'[p].tailIndex \in Nat /\ sub[p].tailIndex <= sub'[p].tailIndex  BY <1>2
<1>5. \A j \in Unmoved(p, k) : j < sub'[p].tailIndex => j < sub[p].tailIndex
  <2> SUFFICES ASSUME NEW j \in Unmoved(p, k), j < i + 1  PROVE j < i  OBVIOUS
  <2>1. j \in CellsOf(k)  BY DEF Unmoved
  <2>2. FirstOf(j) = k /\ j \in Nat  BY <1>1, <2>1, WholeFirst, CellNat
  <2>3. j # i  BY <2>2
  <2> QED BY <1>2, <2>2, <2>3
<1>6. k + BlockSize >= sub'[p].tailIndex =>
        k + BlockSize >= sub[p].tailIndex /\ sub'[p].tailBlock = sub[p].tailBlock
  <2> SUFFICES ASSUME k + BlockSize >= i + 1
               PROVE  k + BlockSize >= i /\ sub'[p].tailBlock = sub[p].tailBlock
    OBVIOUS
  <2>1. k + BlockSize >= i  BY <1>1, <1>2
  <2>2. ~Whole(i)
    <3> SUFFICES ASSUME Whole(i)  PROVE FALSE  OBVIOUS
    <3>1. k + BlockSize <= i  BY <1>1, <1>3, WholeApart
    <3> QED BY <1>1, <1>2, <3>1
  <2> QED BY <2>1, <2>2
<1> QED BY <1>0, <1>1, <1>4, <1>5, <1>6, LiveBeside

\* An element goes to the next cell of the last block.
LEMMA PutRead ==
    ASSUME Base, PlaceInv, Reading, NEW t \in Threads, Put(t)
    PROVE  Reading'
<1>0. /\ TableInv /\ QueueTypes /\ ClaimInv /\ IndexInv /\ TableTypes /\ ThreadStep(t)
      /\ CellShape /\ LiveInv /\ CoverInv
  BY DEF Base, Reading, TableInv, ThreadStep
<1>1. PICK p, b, i : p = mine[t] /\ b = sub[p].tailBlock /\ i = sub[p].tailIndex  OBVIOUS
<1>2. /\ my[t].pc = "lookup" /\ p # 0 /\ i % BlockSize # 0 /\ cell' = Written(b, p, i)
      /\ sub' = [sub EXCEPT ![p].tailIndex = i + 1] /\ dequeued' = dequeued /\ created' = created
  BY <1>1 DEF Put, tableVars, Table!NoProducer
<1>3. p \in Producers /\ SubOK(sub[p]) /\ i \in Nat  BY <1>0, <1>1, <1>2, OwnSub, SubFields
<1>4. /\ sub'[p].tailIndex = i + 1 /\ sub'[p].tailBlock = b /\ sub'[p].entries = sub[p].entries
      /\ \A q \in Producers : q # p => sub'[q] = sub[q]
  <2>1. PICK s : s = [sub[p] EXCEPT !.tailIndex = sub[p].tailIndex + 1]  OBVIOUS
  <2>2. sub' = [sub EXCEPT ![p] = s]  BY <1>1, <1>2, <2>1
  <2>3. sub'[p] = s /\ \A q \in Producers : q # p => sub'[q] = sub[q]  BY <1>0, <1>3, <2>2, SubEdit
  <2>4. /\ s.entries = sub[p].entries /\ s.tailIndex = sub[p].tailIndex + 1
        /\ s.tailBlock = sub[p].tailBlock
    BY <1>3, <2>1, PutFields
  <2> QED BY <1>1, <2>3, <2>4
<1>5. \A q \in Producers : \A f, l, c : LiveAt(q, f, l, c)' <=> LiveAt(q, f, l, c)
  <2>1. \A q \in Producers : sub'[q].entries = sub[q].entries  BY <1>4
  <2> QED BY <2>1 DEF LiveAt
<1>6. /\ TakenInv' /\ UnlinkOne' /\ ReadInv' /\ StillUnmoved
      /\ \A u \in Threads : \A q, f : Unlinker(u, q, f)' <=> Unlinker(u, q, f)
  BY <1>5, PutsRead
<1>7. PICK k : k = FirstOf(i)  OBVIOUS
<1>8. Whole(k) /\ k \in Nat /\ i \in CellsOf(k) /\ k < i /\ ~Whole(i) /\ i < k + BlockSize
  <2>1. k \in Nat /\ Whole(k) /\ k <= i /\ i < k + BlockSize /\ i \in CellsOf(k)
    BY <1>3, <1>7, FirstWhole
  <2>2. ~Whole(i)  BY <1>2, <1>3, ModWhole
  <2>3. k # i  BY <2>1, <2>2
  <2> QED BY <1>3, <2>1, <2>2, <2>3
<1>9. i \in Unmoved(p, k)
  <2>1. i >= sub[p].tailIndex  BY <1>1, <1>3
  <2>2. UnmovedAt(p, i)  BY <1>0, <1>3, <2>1, TailUnmoved
  <2> QED BY <1>8, <2>2 DEF Unmoved
<1>10. PICK e : LiveAt(p, e, k, b)
  <2>1. k < sub[p].tailIndex /\ Unmoved(p, k) # {}  BY <1>1, <1>8, <1>9
  <2>2. PICK e, c : LiveAt(p, e, k, c)  BY <1>0, <1>3, <1>8, <2>1 DEF CoverInv
  <2>3. LastOK(p, k, c)  BY <1>0, <1>3, <2>2 DEF LiveInv, LiveOK
  <2>4. k + BlockSize >= i  BY <1>3, <1>8, QueueAssumption
  <2> QED BY <1>1, <2>2, <2>3, <2>4 DEF LastOK
<1>11. b \in Blocks  BY <1>3, <1>10, LiveBlock
<1>12. /\ CellShape'
       /\ \A c \in Blocks : c # b => cell'[c] = cell[c]
       /\ \A j \in Nat : j % BlockSize # i % BlockSize => At(b, j)' = At(b, j)
       /\ At(b, i)' = <<p, i>>
  <2>1. /\ cell' = [c \in Blocks |-> cell'[c]]
        /\ \A c \in Blocks : cell'[c] = [j \in 0..(BlockSize-1) |-> cell'[c][j]]
        /\ \A c \in Blocks : c # b => cell'[c] = cell[c]
        /\ \A j \in Nat : j % BlockSize # i % BlockSize => At(b, j)' = At(b, j)
        /\ At(b, i)' = <<p, i>>
    BY <1>0, <1>2, <1>3, <1>11, WrittenCells
  <2>2. dequeued' \in [Blocks -> Nat]  BY <1>0, <1>2 DEF CellShape
  <2> QED BY <2>1, <2>2 DEF CellShape
<1>13. LiveInv'
  <2> SUFFICES ASSUME NEW q \in Producers, NEW f, NEW l, NEW c, LiveAt(q, f, l, c)'
               PROVE  LiveOK(q, f, l, c)'
    BY DEF LiveInv
  <2>1. LiveAt(q, f, l, c)  BY <1>5
  <2>2. c \in Blocks /\ l \in Nat  BY <1>0, <2>1, LiveBlock, LiveKey
  <2>3. CASE q = p /\ f = e /\ l = k /\ c = b
    <3>1. LiveOK(p, e, k, b)  BY <1>0, <1>3, <1>10 DEF LiveInv
    <3>2. Unmoved(p, k)' = Unmoved(p, k)  BY <1>3, <1>6, UnmovedSets
    <3>3. p <= created' /\ k < sub'[p].tailIndex
      <4>1. k < i + 1  BY <1>3, <1>8
      <4> QED BY <1>2, <1>4, <3>1, <4>1 DEF LiveOK
    <3>4. CountOK(p, k, b)'  BY <1>2, <3>1, <3>2 DEF LiveOK, CountOK
    <3>5. CellsOK(p, k, b)'
      <4> SUFFICES ASSUME NEW j \in Unmoved(p, k), j < i + 1  PROVE At(b, j)' = <<p, j>>
        BY <1>4, <3>2 DEF CellsOK
      <4>1. j \in CellsOf(k)  BY DEF Unmoved
      <4>2. j \in Nat  BY <1>8, <4>1, CellNat
      <4>3. CASE j = i  BY <1>12, <4>3
      <4>4. CASE j # i
        <5>1. j < i  BY <1>3, <4>2, <4>4
        <5>2. At(b, j) = <<p, j>>  BY <1>1, <3>1, <5>1 DEF LiveOK, CellsOK
        <5>3. j % BlockSize # i % BlockSize  BY <1>8, <4>1, <4>4, SameCell
        <5> QED BY <1>12, <4>2, <5>2, <5>3
      <4> QED BY <4>3, <4>4
    <3>6. LastOK(p, k, b)'  BY <1>4 DEF LastOK
    <3>7. GoesOK(p, e, k)'  BY <1>6, <3>1, <3>2 DEF LiveOK, GoesOK
    <3>8. LiveOK(p, e, k, b)'  BY <3>3, <3>4, <3>5, <3>6, <3>7 DEF LiveOK
    <3> QED BY <2>3, <3>8
  <2>4. CASE ~(q = p /\ f = e /\ l = k /\ c = b)
    <3>1. c # b
      <4> SUFFICES ASSUME c = b  PROVE FALSE  OBVIOUS
      <4>1. LiveAt(q, f, l, b)  BY <2>1
      <4>2. q = p /\ f = e /\ l = k  BY <1>3, <1>10, <4>1, BlockOne
      <4> QED BY <2>4, <4>2
    <3>2. cell'[c] = cell[c] /\ dequeued'[c] = dequeued[c]  BY <1>2, <1>12, <2>2, <3>1
    <3>3. CASE q = p
      <4>1. l # k
        <5> SUFFICES ASSUME l = k  PROVE FALSE  OBVIOUS
        <5>1. LiveAt(p, f, k, c)  BY <2>1, <3>3
        <5>2. f = e /\ c = b  BY <1>0, <1>3, <1>10, <5>1, KeyOne
        <5> QED BY <3>1, <5>2
      <4>2. LiveAt(p, f, l, c)  BY <2>1, <3>3
      <4>3. FirstOf(i) # l  BY <1>7, <4>1
      <4>4. Whole(i) \/ sub'[p].tailBlock = sub[p].tailBlock  BY <1>1, <1>4
      <4>5. sub'[p].tailIndex = i + 1 /\ i = sub[p].tailIndex  BY <1>1, <1>4
      <4>6. LiveOK(p, f, l, c)'  BY <1>2, <1>3, <1>6, <3>2, <4>2, <4>3, <4>4, <4>5, LivePassed
      <4> QED BY <3>3, <4>6
    <3>4. CASE q # p
      <4>1. sub'[q].tailIndex = sub[q].tailIndex /\ sub'[q].tailBlock = sub[q].tailBlock  BY <1>4, <3>4
      <4>2. sub'[q].tailIndex \in Nat /\ sub[q].tailIndex <= sub'[q].tailIndex
        BY <1>0, <4>1, ClaimNumbers
      <4> QED BY <1>0, <1>2, <1>6, <2>1, <2>2, <3>2, <4>1, <4>2, LiveBeside
    <3> QED BY <3>3, <3>4
  <2> QED BY <2>3, <2>4
<1>14. CoverInv'
  <2> SUFFICES ASSUME NEW q \in Producers, NEW l, Whole(l), l < sub'[q].tailIndex, Unmoved(q, l)' # {}
               PROVE  \E f, c : LiveAt(q, f, l, c)'
    BY DEF CoverInv, Whole
  <2>1. Unmoved(q, l) # {}  BY <1>6, UnmovedSets
  <2>2. l \in Nat  BY WholeNat
  <2>3. l < sub[q].tailIndex
    <3>1. CASE q = p
      <4>1. l < i + 1 /\ l # i  BY <1>4, <1>8, <3>1
      <4>2. l < i  BY <1>3, <2>2, <4>1
      <4> QED BY <1>1, <3>1, <4>2
    <3>2. CASE q # p  BY <1>4, <3>2
    <3> QED BY <3>1, <3>2
  <2>4. PICK f, c : LiveAt(q, f, l, c)  BY <1>0, <2>1, <2>3 DEF CoverInv
  <2> QED BY <1>5, <2>4
<1> QED BY <1>6, <1>12, <1>13, <1>14 DEF Reading

\* The block that is put first is named by no entry yet.
LEMMA PutsUnnamed ==
    ASSUME Base, PlaceInv, NEW t \in Threads, my[t].pc = "put", NEW b, b = my[t].block
    PROVE  /\ b \in Blocks /\ b # Null
           /\ \A q \in Producers : \A f, l, c : LiveAt(q, f, l, c) => c \in Blocks /\ c # b
<1>1. PICK kind, len, q : PlaceAt(kind, len, q)  BY DEF PlaceInv
<1>2. NamedAt(kind) /\ OwnedAt(kind)  BY <1>1 DEF PlaceAt
<1>3. at[t] = "out"  BY DEF Base, LabelInv, LabelAt
<1>4. Has(t) = b /\ As(t) = "held"  BY <1>3, HasOut
<1>5. b \in Blocks /\ b # Null  BY BlockSets DEF Base, PutBlocks
<1>6. kind[b] = "held"  BY <1>2, <1>4, <1>5 DEF OwnedAt
<1>7. \A p \in Producers : \A f, l, c : LiveAt(p, f, l, c) => c \in Blocks /\ kind[c] = "named"
  BY <1>2 DEF NamedAt
<1> QED BY <1>5, <1>6, <1>7

\* An element goes to the first cell of a block, which is named from now on.
LEMMA PutFirstRead ==
    ASSUME Base, PlaceInv, Reading, NEW t \in Threads, PutFirst(t)
    PROVE  Reading'
<1>0. /\ TableInv /\ QueueTypes /\ ClaimInv /\ IndexInv /\ TableTypes /\ ThreadStep(t)
      /\ CellShape /\ LiveInv /\ CoverInv /\ FreeShape /\ LabelInv /\ PutBlocks
  BY DEF Base, Reading, TableInv, ThreadStep
<1>1. PICK p, b, i, e : p = mine[t] /\ b = my[t].block /\ i = sub[p].tailIndex /\ e = my[t].entry
  OBVIOUS
<1>2. /\ my[t].pc = "put" /\ p # 0 /\ cell' = Written(b, p, i)
      /\ dequeued' = [dequeued EXCEPT ![b] = 0] /\ created' = created
  <2>1. Inserting(t)  BY DEF PutFirst, Inserting
  <2> QED BY <1>0, <1>1, <2>1 DEF PutFirst, tableVars, LabelInv, LabelAt
<1>3. p \in Producers /\ SubOK(sub[p]) /\ i \in Nat  BY <1>0, <1>1, <1>2, OwnSub, SubFields
<1>4. /\ sub'[p].tailIndex = i + 1 /\ sub'[p].tailBlock = b
      /\ \A q \in Producers : q # p => sub'[q] = sub[q]
  <2>1. PICK s : s = FirstIn(sub[p], e, b)  OBVIOUS
  <2>2. sub' = [sub EXCEPT ![p] = s]  BY <1>1, <2>1 DEF PutFirst, FirstIn
  <2>3. sub'[p] = s /\ \A q \in Producers : q # p => sub'[q] = sub[q]  BY <1>0, <1>3, <2>2, SubEdit
  <2>4. s.tailIndex = sub[p].tailIndex + 1 /\ s.tailBlock = b
    BY <1>3, <2>1, PutFirstFields
  <2> QED BY <1>1, <2>3, <2>4
<1>5. IndexStep(t) /\ e \in 1..Len(sub[p].entries) /\ i % BlockSize = 0
  BY <1>0, <1>1, PutFirstIndex
<1>6. \A q \in Producers : \A f, l, c : LiveAt(q, f, l, c)' <=>
        LiveAt(q, f, l, c) \/ (q = p /\ f = e /\ l = i /\ c = b)
  <2>1. OnlyPuts(t)  BY <1>5 DEF IndexStep
  <2>2. \A f, l, c : LiveIn(sub'[p].entries, f, l, c) <=> LiveAt(p, f, l, c) \/ (f = e /\ l = i /\ c = b)
    BY <1>1, <2>1 DEF OnlyPuts
  <2>3. \A q \in Producers : q # p => \A f, l, c : LiveAt(q, f, l, c)' <=> LiveAt(q, f, l, c)
    BY <1>1, <2>1 DEF OnlyPuts, SubLive, SameLive, LiveAt
  <2>4. \A f, l, c : LiveAt(p, f, l, c)' <=> LiveAt(p, f, l, c) \/ (f = e /\ l = i /\ c = b)
    BY <2>2 DEF LiveAt
  <2> QED BY <2>3, <2>4
<1>7. /\ TakenInv' /\ UnlinkOne' /\ ReadInv' /\ StillUnmoved
      /\ \A u \in Threads : \A q, f : Unlinker(u, q, f)' <=> Unlinker(u, q, f)
  BY <1>6, PutsRead
<1>8. /\ b \in Blocks
      /\ \A q \in Producers : \A f, l, c : LiveAt(q, f, l, c) => c \in Blocks /\ c # b
  BY <1>1, <1>2, PutsUnnamed
<1>9. Whole(i) /\ i \in CellsOf(i) /\ FirstOf(i) = i
  <2>1. Whole(i)  BY <1>3, <1>5, ModWhole
  <2>2. i \in CellsOf(i)  BY <1>3, QueueAssumption DEF CellsOf
  <2> QED BY <2>1, <2>2, WholeFirst
<1>10. Unmoved(p, i) = CellsOf(i)
  <2> SUFFICES ASSUME NEW j \in CellsOf(i)  PROVE UnmovedAt(p, j)  BY DEF Unmoved
  <2>1. j \in Nat /\ j >= sub[p].tailIndex  BY <1>1, <1>3, <1>9, CellNat
  <2> QED BY <1>0, <1>3, <2>1, TailUnmoved
<1>11. Unmoved(p, i)' = CellsOf(i)  BY <1>3, <1>7, <1>10, UnmovedSets
<1>12. /\ CellShape'
       /\ \A c \in Blocks : c # b => cell'[c] = cell[c] /\ dequeued'[c] = dequeued[c]
       /\ At(b, i)' = <<p, i>> /\ dequeued'[b] = 0
  <2>1. /\ cell' = [c \in Blocks |-> cell'[c]]
        /\ \A c \in Blocks : cell'[c] = [j \in 0..(BlockSize-1) |-> cell'[c][j]]
        /\ \A c \in Blocks : c # b => cell'[c] = cell[c]
        /\ At(b, i)' = <<p, i>>
    BY <1>0, <1>2, <1>3, <1>8, WrittenCells
  <2>2. dequeued \in [Blocks -> Nat]  BY <1>0 DEF CellShape
  <2>3. /\ dequeued' \in [Blocks -> Nat] /\ dequeued'[b] = 0
        /\ \A c \in Blocks : c # b => dequeued'[c] = dequeued[c]
    BY <1>2, <1>8, <2>2
  <2> QED BY <2>1, <2>3 DEF CellShape
<1>13. LiveOK(p, e, i, b)'
  <2>1. p <= created' /\ i < sub'[p].tailIndex
    <3>1. EnqueueEffect(t)  BY <1>0, PutFirstEffect
    <3>2. p > created => sub'[p].tailIndex = sub[p].tailIndex  BY <1>3, <3>1 DEF EnqueueEffect
    <3>3. i # i + 1 /\ i < i + 1  BY <1>3
    <3>4. ~(p > created)  BY <1>1, <1>4, <3>2, <3>3
    <3>5. p \in Nat /\ created \in Nat  BY <1>0, <1>3, QueueAssumption DEF TableTypes
    <3> QED BY <1>2, <1>4, <3>3, <3>4, <3>5
  <2>2. CountOK(p, i, b)'
    <3>1. Cardinality(CellsOf(i)) = BlockSize  BY <1>9, UnmovedNat
    <3>2. dequeued'[b] + Cardinality(Unmoved(p, i)') = BlockSize
      BY <1>11, <1>12, <3>1, QueueAssumption
    <3> QED BY <3>2 DEF CountOK
  <2>3. CellsOK(p, i, b)'
    <3> SUFFICES ASSUME NEW j \in CellsOf(i), j < i + 1  PROVE At(b, j)' = <<p, j>>
      BY <1>4, <1>11 DEF CellsOK
    <3>1. j \in Nat /\ i <= j  BY <1>9, CellNat
    <3>2. j = i  BY <1>3, <3>1
    <3> QED BY <1>12, <3>2
  <2>4. LastOK(p, i, b)'  BY <1>4 DEF LastOK
  <2>5. GoesOK(p, e, i)'  BY <1>9, <1>11 DEF GoesOK
  <2> QED BY <2>1, <2>2, <2>3, <2>4, <2>5 DEF LiveOK
<1>14. LiveInv'
  <2> SUFFICES ASSUME NEW q \in Producers, NEW f, NEW l, NEW c, LiveAt(q, f, l, c)'
               PROVE  LiveOK(q, f, l, c)'
    BY DEF LiveInv
  <2>1. CASE q = p /\ f = e /\ l = i /\ c = b  BY <1>13, <2>1
  <2>2. CASE LiveAt(q, f, l, c)
    <3>1. c \in Blocks /\ c # b /\ l \in Nat  BY <1>0, <1>8, <2>2, LiveKey
    <3>2. cell'[c] = cell[c] /\ dequeued'[c] = dequeued[c]  BY <1>12, <3>1
    <3>3. CASE q = p
      <4>1. LiveAt(p, f, l, c)  BY <2>2, <3>3
      <4>2. l < i  BY <1>0, <1>1, <1>3, <4>1 DEF LiveInv, LiveOK
      <4>3. FirstOf(i) # l  BY <1>3, <1>9, <3>1, <4>2
      <4>4. Whole(i) \/ sub'[p].tailBlock = sub[p].tailBlock  BY <1>9
      <4>5. sub'[p].tailIndex = i + 1 /\ i = sub[p].tailIndex  BY <1>1, <1>4
      <4>6. LiveOK(p, f, l, c)'  BY <1>2, <1>3, <1>7, <3>2, <4>1, <4>3, <4>4, <4>5, LivePassed
      <4> QED BY <3>3, <4>6
    <3>4. CASE q # p
      <4>1. sub'[q].tailIndex = sub[q].tailIndex /\ sub'[q].tailBlock = sub[q].tailBlock  BY <1>4, <3>4
      <4>2. sub'[q].tailIndex \in Nat /\ sub[q].tailIndex <= sub'[q].tailIndex
        BY <1>0, <4>1, ClaimNumbers
      <4> QED BY <1>0, <1>2, <1>7, <2>2, <3>1, <3>2, <4>1, <4>2, LiveBeside
    <3> QED BY <3>3, <3>4
  <2> QED BY <1>6, <2>1, <2>2
<1>15. CoverInv'
  <2> SUFFICES ASSUME NEW q \in Producers, NEW l, Whole(l), l < sub'[q].tailIndex, Unmoved(q, l)' # {}
               PROVE  \E f, c : LiveAt(q, f, l, c)'
    BY DEF CoverInv, Whole
  <2>1. Unmoved(q, l) # {}  BY <1>7, UnmovedSets
  <2>2. l \in Nat  BY WholeNat
  <2>3. CASE q = p /\ l = i  BY <1>6, <2>3
  <2>4. CASE ~(q = p /\ l = i)
    <3>1. l < sub[q].tailIndex
      <4>1. CASE q = p
        <5>1. l < i + 1 /\ l # i  BY <1>4, <2>4, <4>1
        <5>2. l < i  BY <1>3, <2>2, <5>1
        <5> QED BY <1>1, <4>1, <5>2
      <4>2. CASE q # p  BY <1>4, <4>2
      <4> QED BY <4>1, <4>2
    <3>2. PICK f, c : LiveAt(q, f, l, c)  BY <1>0, <2>1, <3>1 DEF CoverInv
    <3> QED BY <1>6, <3>2
  <2> QED BY <2>3, <2>4
<1> QED BY <1>7, <1>12, <1>14, <1>15 DEF Reading

\* What a move changes: the thread lets go of the index, its cell is empty and
\* counted, and it goes on to unlink the block if that was the last of them.
Moves(t, p, i, e, b) ==
    /\ my[t].pc = "move" /\ p \in Producers /\ i \in Nat /\ b \in Blocks
    /\ HoldsIt(t, p, i) /\ my[t].entry = e /\ my[t].block = b
    /\ LiveAt(p, e, FirstOf(i), b)
    /\ cell' = Filled(b, i, Nothing) /\ dequeued' = [dequeued EXCEPT ![b] = dequeued[b] + 1]
    /\ sub' = sub /\ created' = created
    /\ \/ my'[t].pc = "out" /\ dequeued[b] # BlockSize - 1
       \/ Unlinker(t, p, e)' /\ dequeued[b] = BlockSize - 1 /\ my'[t].block = b

\* Only the thread that took the index moves its element, and one that finds all
\* others counted goes on to unlink.
LEMMA MoveEffect ==
    ASSUME Base, PlaceInv, Reading, NEW t \in Threads, Move(t)
    PROVE  \E p, i, e, b : Moves(t, p, i, e, b)
<1>1. PICK p, i, e, b : p = my[t].p /\ i = my[t].i /\ e = my[t].entry /\ b = my[t].block  OBVIOUS
<1>2. my[t].pc = "move" /\ QueueTypes /\ TableTypes  BY DEF Move, Base, TableInv
<1>3. HoldsIt(t, p, i)  BY <1>1, <1>2 DEF HoldsIt, Moving
<1>4. p \in Producers /\ i \in Nat  BY <1>2, <1>3, HolderUnmoved
<1>5. LiveAt(p, e, FirstOf(i), b)  BY <1>1, <1>2 DEF Reading, ReadInv, ReadAt
<1>6. b \in Blocks  BY <1>4, <1>5, LiveBlock
<1>7. cell' = Filled(b, i, Nothing)  BY <1>1 DEF Move, Filled
<1>8. dequeued' = [dequeued EXCEPT ![b] = dequeued[b] + 1]  BY <1>1 DEF Move
<1>9. sub' = sub /\ created' = created  BY DEF Move, tableVars
<1>10. \/ my'[t].pc = "out" /\ dequeued[b] # BlockSize - 1
       \/ Unlinker(t, p, e)' /\ dequeued[b] = BlockSize - 1 /\ my'[t].block = b
  <2>1. IF dequeued[b] = BlockSize - 1 THEN Go(t, "unlink") ELSE Finish(t)  BY <1>1 DEF Move
  <2>2. PICK r : r = my[t]  OBVIOUS
  <2>3. Finish(t) => my'[t].pc = "out"  BY <1>2, <2>2, MyFields
  <2>4. ASSUME Go(t, "unlink")  PROVE Unlinker(t, p, e)' /\ my'[t].block = b
    <3>1. /\ my'[t].pc = "unlink" /\ my'[t].p = r.p /\ my'[t].entry = r.entry
          /\ my'[t].block = r.block
      BY <1>2, <2>2, <2>4, MyFields
    <3>2. my'[t].p = p /\ my'[t].entry = e /\ my'[t].block = b  BY <1>1, <2>2, <3>1
    <3> QED BY <3>1, <3>2 DEF Unlinker
  <2> QED BY <2>1, <2>3, <2>4
<1>11. Moves(t, p, i, e, b)  BY <1>1, <1>2, <1>3, <1>4, <1>5, <1>6, <1>7, <1>8, <1>9, <1>10 DEF Moves
<1> QED BY <1>11

\* The element is moved, and nothing else is.
LEMMA MoveUnmoved ==
    ASSUME Base, Reading, NEW t \in Threads, NEW p, NEW i, NEW e, NEW b, Moves(t, p, i, e, b),
           \A u \in Threads \ {t} : SameReader(u), NEW k, k = FirstOf(i)
    PROVE  /\ \A q \in Producers : \A j \in Int : UnmovedAt(q, j)' <=> UnmovedAt(q, j) /\ ~(q = p /\ j = i)
           /\ \A q \in Producers : \A l : Unmoved(q, l)' \subseteq Unmoved(q, l)
           /\ \A q \in Producers : \A l : Whole(l) /\ ~(q = p /\ l = k) => Unmoved(q, l)' = Unmoved(q, l)
           /\ i \in Unmoved(p, k) /\ Unmoved(p, k)' = Unmoved(p, k) \ {i}
<1>0. TakenInv /\ QueueTypes /\ TableTypes  BY DEF Base, Reading, TableInv
<1>1. /\ p \in Producers /\ i \in Nat /\ HoldsIt(t, p, i) /\ sub' = sub
      /\ my[t].pc = "move" /\ my'[t].pc \in {"out", "unlink"}
  BY DEF Moves, Unlinker
<1>2. \A q, j : ~HoldsIt(t, q, j)'  BY <1>1 DEF HoldsIt, Moving
<1>3. \A q, j : HoldsIt(t, q, j) => q = p /\ j = i  BY <1>1 DEF HoldsIt
<1>4. i < sub[p].headIndex /\ \A u \in Threads : HoldsIt(u, p, i) => u = t  BY <1>0, <1>1 DEF TakenInv
<1>5. \A q \in Producers : \A j \in Int : UnmovedAt(q, j)' <=> UnmovedAt(q, j) /\ ~(q = p /\ j = i)
  <2> SUFFICES ASSUME NEW q \in Producers, NEW j \in Int
               PROVE  UnmovedAt(q, j)' <=> UnmovedAt(q, j) /\ ~(q = p /\ j = i)
    OBVIOUS
  <2>1. \A u \in Threads \ {t} : HoldsIt(u, q, j)' <=> HoldsIt(u, q, j)  BY DEF SameReader
  <2>2. UnmovedAt(q, j)' <=> j >= sub[q].headIndex \/ \E u \in Threads \ {t} : HoldsIt(u, q, j)
    BY <1>1, <1>2, <2>1 DEF UnmovedAt
  <2>3. CASE q = p /\ j = i
    <3>1. ~(i >= sub[p].headIndex)
      <4>1. sub[p].headIndex \in Nat  BY <1>0, <1>1, ClaimNumbers
      <4> QED BY <1>1, <1>4, <4>1
    <3>2. \A u \in Threads \ {t} : ~HoldsIt(u, p, i)  BY <1>4
    <3> QED BY <2>2, <2>3, <3>1, <3>2
  <2>4. CASE ~(q = p /\ j = i)
    <3>1. ~HoldsIt(t, q, j)  BY <1>3, <2>4
    <3> QED BY <2>2, <2>4, <3>1 DEF UnmovedAt
  <2> QED BY <2>3, <2>4
<1>6. \A l : CellsOf(l) \subseteq Int  BY DEF CellsOf
<1>7. \A q \in Producers : \A l : \A j : j \in Unmoved(q, l)' <=> j \in Unmoved(q, l) /\ ~(q = p /\ j = i)
  <2> SUFFICES ASSUME NEW q \in Producers, NEW l, NEW j
               PROVE  j \in Unmoved(q, l)' <=> j \in Unmoved(q, l) /\ ~(q = p /\ j = i)
    OBVIOUS
  <2>1. j \in Unmoved(q, l)' <=> j \in CellsOf(l) /\ UnmovedAt(q, j)'  BY DEF Unmoved, CellsOf
  <2>2. j \in Unmoved(q, l) <=> j \in CellsOf(l) /\ UnmovedAt(q, j)  BY DEF Unmoved
  <2> QED BY <1>5, <1>6, <2>1, <2>2
<1>8. i \in CellsOf(k) /\ Whole(k)  BY <1>1, FirstWhole
<1>9. i \in Unmoved(p, k)  BY <1>0, <1>1, HolderUnmoved
<1>10. Unmoved(p, k)' = Unmoved(p, k) \ {i}  BY <1>1, <1>7
<1>11. ASSUME NEW q \in Producers, NEW l, Whole(l), ~(q = p /\ l = k)
       PROVE  Unmoved(q, l)' = Unmoved(q, l)
  <2>1. q = p => i \notin CellsOf(l)
    <3> SUFFICES ASSUME q = p, i \in CellsOf(l)  PROVE FALSE  OBVIOUS
    <3>1. FirstOf(i) = l  BY <1>11, WholeFirst
    <3> QED BY <1>11, <3>1
  <2>2. \A j \in Unmoved(q, l) : ~(q = p /\ j = i)  BY <2>1 DEF Unmoved
  <2> QED BY <1>7, <2>2
<1>12. \A q \in Producers : \A l : Unmoved(q, l)' \subseteq Unmoved(q, l)  BY <1>7
<1> QED BY <1>5, <1>9, <1>10, <1>11, <1>12

LEMMA MoveLive ==
    ASSUME Base, PlaceInv, Reading, NEW t \in Threads, Move(t), \A u \in Threads \ {t} : SameReader(u),
           NEW p, NEW i, NEW e, NEW b, Moves(t, p, i, e, b)
    PROVE  /\ CellShape' /\ LiveInv'
           /\ my'[t].pc = "unlink" => Unmoved(p, FirstOf(i))' = {}
<1>0. /\ QueueTypes /\ TableTypes /\ IndexInv /\ LiveInv /\ CellShape /\ ReadInv
  BY DEF Base, Reading, TableInv
<1>1. /\ p \in Producers /\ i \in Nat /\ b \in Blocks /\ sub' = sub /\ created' = created
      /\ my[t].pc = "move" /\ LiveAt(p, e, FirstOf(i), b)
      /\ cell' = Filled(b, i, Nothing) /\ dequeued' = [dequeued EXCEPT ![b] = dequeued[b] + 1]
      /\ \/ my'[t].pc = "out" /\ dequeued[b] # BlockSize - 1
         \/ Unlinker(t, p, e)' /\ dequeued[b] = BlockSize - 1
  BY DEF Moves
<1>2. PICK k : k = FirstOf(i)  OBVIOUS
<1>3. Whole(k) /\ i \in CellsOf(k)  BY <1>1, <1>2, FirstWhole
<1>4. LiveAt(p, e, k, b)  BY <1>1, <1>2
<1>5. /\ \A q \in Producers : \A l : Whole(l) /\ ~(q = p /\ l = k) => Unmoved(q, l)' = Unmoved(q, l)
      /\ i \in Unmoved(p, k) /\ Unmoved(p, k)' = Unmoved(p, k) \ {i}
  BY <1>2, MoveUnmoved
<1>6. /\ \A c \in Blocks : c # b => cell'[c] = cell[c]
      /\ \A j \in Nat : j % BlockSize # i % BlockSize => At(b, j)' = At(b, j)
      /\ cell' = [c \in Blocks |-> cell'[c]]
      /\ \A c \in Blocks : cell'[c] = [j \in 0..(BlockSize-1) |-> cell'[c][j]]
  <2>1. PICK w : w = Nothing  OBVIOUS
  <2>2. cell' = Filled(b, i, w)  BY <1>1, <2>1
  <2> QED BY <1>0, <1>1, <2>2, FilledCells
<1>7. /\ dequeued \in [Blocks -> Nat] /\ dequeued' \in [Blocks -> Nat]
      /\ dequeued'[b] = dequeued[b] + 1 /\ \A c \in Blocks : c # b => dequeued'[c] = dequeued[c]
  <2>1. dequeued \in [Blocks -> Nat]  BY <1>0 DEF CellShape
  <2> QED BY <1>1, <2>1
<1>8. \A q \in Producers : \A f, l, c : LiveAt(q, f, l, c)' <=> LiveAt(q, f, l, c)  BY <1>1 DEF LiveAt
<1>9. LiveOK(p, e, k, b)  BY <1>0, <1>1, <1>4 DEF LiveInv
<1>10. /\ dequeued[b] + Cardinality(Unmoved(p, k)) = BlockSize
       /\ Cardinality(Unmoved(p, k)) \in Nat /\ Cardinality(Unmoved(p, k)') \in Nat
       /\ Cardinality(Unmoved(p, k)') = Cardinality(Unmoved(p, k)) - 1
       /\ IsFiniteSet(Unmoved(p, k)')
  <2>1. IsFiniteSet(Unmoved(p, k))  BY <1>3, UnmovedNat
  <2>2. PICK S : S = Unmoved(p, k)  OBVIOUS
  <2>3. /\ IsFiniteSet(S \ {i}) /\ Cardinality(S \ {i}) = Cardinality(S) - 1
    BY <1>5, <2>1, <2>2, FS_RemoveElement
  <2>4. Cardinality(S) \in Nat /\ Cardinality(S \ {i}) \in Nat
    BY <2>1, <2>2, <2>3, FS_CardinalityType
  <2>5. Unmoved(p, k)' = S \ {i}  BY <1>5, <2>2
  <2>6. dequeued[b] + Cardinality(Unmoved(p, k)) = BlockSize  BY <1>9 DEF LiveOK, CountOK
  <2> QED BY <2>2, <2>3, <2>4, <2>5, <2>6
<1>11. dequeued[b] = BlockSize - 1 <=> Unmoved(p, k)' = {}
  <2>1. PICK x, y, d : x = Cardinality(Unmoved(p, k)) /\ y = Cardinality(Unmoved(p, k)') /\ d = dequeued[b]
    OBVIOUS
  <2>2. d \in Nat /\ x \in Nat /\ y \in Nat /\ BlockSize \in Nat /\ d + x = BlockSize /\ y = x - 1
    BY <1>1, <1>7, <1>10, <2>1, QueueAssumption
  <2>3. d = BlockSize - 1 <=> y = 0  BY <2>2
  <2>4. y = 0 <=> Unmoved(p, k)' = {}  BY <1>10, <2>1, FS_EmptySet
  <2> QED BY <2>1, <2>3, <2>4
<1>12. ASSUME NEW q \in Producers, NEW f, NEW l, NEW c, LiveAt(q, f, l, c)  PROVE LiveOK(q, f, l, c)'
  <2>1. LiveOK(q, f, l, c)  BY <1>0, <1>12 DEF LiveInv
  <2>2. q <= created' /\ l < sub'[q].tailIndex  BY <1>1, <2>1 DEF LiveOK
  <2>3. LastOK(q, l, c)'  BY <1>1, <2>1 DEF LiveOK, LastOK
  <2>4. Whole(l)  BY <1>0, <1>12, LiveKey
  <2>5. CASE q = p /\ f = e /\ l = k /\ c = b
    <3>1. CountOK(p, k, b)'
      <4>1. PICK x, y, d : x = Cardinality(Unmoved(p, k)) /\ y = Cardinality(Unmoved(p, k)')
                           /\ d = dequeued[b]
        OBVIOUS
      <4>2. d \in Nat /\ x \in Nat /\ y \in Nat /\ BlockSize \in Nat /\ d + x = BlockSize /\ y = x - 1
        BY <1>1, <1>7, <1>10, <4>1, QueueAssumption
      <4>3. d + 1 + y = BlockSize  BY <4>2
      <4> QED BY <1>7, <4>1, <4>3 DEF CountOK
    <3>2. CellsOK(p, k, b)'
      <4> SUFFICES ASSUME NEW j \in Unmoved(p, k), j # i, j < sub[p].tailIndex
                   PROVE  At(b, j)' = <<p, j>>
        BY <1>1, <1>5 DEF CellsOK
      <4>1. At(b, j) = <<p, j>>  BY <1>9 DEF LiveOK, CellsOK
      <4>2. j \in CellsOf(k)  BY DEF Unmoved
      <4>3. j % BlockSize # i % BlockSize /\ j \in Nat  BY <1>3, <4>2, SameCell, CellNat
      <4> QED BY <1>6, <4>1, <4>3
    <3>3. GoesOK(p, e, k)'
      <4> SUFFICES ASSUME Unmoved(p, k)' = {}  PROVE \E u \in Threads : Unlinker(u, p, e)'
        BY DEF GoesOK
      <4>1. dequeued[b] = BlockSize - 1  BY <1>11
      <4>2. Unlinker(t, p, e)'  BY <1>1, <4>1
      <4> QED BY <4>2
    <3> QED BY <2>2, <2>3, <2>5, <3>1, <3>2, <3>3 DEF LiveOK
  <2>6. CASE ~(q = p /\ f = e /\ l = k /\ c = b)
    <3>1. c # b
      <4> SUFFICES ASSUME c = b  PROVE FALSE  OBVIOUS
      <4>1. LiveAt(q, f, l, b)  BY <1>12
      <4>2. q = p /\ f = e /\ l = k  BY <1>1, <1>4, <4>1, BlockOne
      <4> QED BY <2>6, <4>2
    <3>2. ~(q = p /\ l = k)
      <4> SUFFICES ASSUME q = p, l = k  PROVE FALSE  OBVIOUS
      <4>1. LiveAt(p, f, k, c)  BY <1>12
      <4>2. f = e /\ c = b  BY <1>0, <1>1, <1>4, <4>1, KeyOne
      <4> QED BY <3>1, <4>2
    <3>3. Unmoved(q, l)' = Unmoved(q, l)  BY <1>5, <2>4, <3>2
    <3>4. c \in Blocks  BY <1>12, LiveBlock
    <3>5. cell'[c] = cell[c] /\ dequeued'[c] = dequeued[c]  BY <1>6, <1>7, <3>1, <3>4
    <3>6. CountOK(q, l, c)'  BY <2>1, <3>3, <3>5 DEF LiveOK, CountOK
    <3>7. CellsOK(q, l, c)'
      <4>1. \A j : At(c, j)' = At(c, j)  BY <3>5 DEF At
      <4> QED BY <1>1, <2>1, <3>3, <4>1 DEF LiveOK, CellsOK
    <3>8. GoesOK(q, f, l)'
      <4> SUFFICES ASSUME Unmoved(q, l) = {}  PROVE \E u \in Threads : Unlinker(u, q, f)'
        BY <3>3 DEF GoesOK
      <4>1. PICK u \in Threads : Unlinker(u, q, f)  BY <2>1 DEF LiveOK, GoesOK
      <4>2. u # t  BY <1>1, <4>1 DEF Unlinker
      <4> QED BY <4>1, <4>2 DEF SameReader
    <3> QED BY <2>2, <2>3, <3>6, <3>7, <3>8 DEF LiveOK
  <2> QED BY <2>5, <2>6
<1>13. LiveInv'  BY <1>8, <1>12 DEF LiveInv
<1>14. CellShape'  BY <1>6, <1>7 DEF CellShape
<1>15. my'[t].pc = "unlink" => Unmoved(p, k)' = {}  BY <1>1, <1>11
<1> QED BY <1>2, <1>13, <1>14, <1>15 DEF FirstOf

\* An element is moved out; the thread that moves the last one of a block is
\* the only one that unlinks it.
LEMMA MoveRead ==
    ASSUME Base, PlaceInv, Reading, NEW t \in Threads, Move(t)
    PROVE  Reading'
<1>0. /\ TableInv /\ QueueTypes /\ ClaimInv /\ IndexInv /\ TableTypes /\ ThreadStep(t)
      /\ LiveInv /\ CoverInv /\ ReadInv /\ UnlinkOne /\ TakenInv
  BY DEF Base, Reading, TableInv, ThreadStep
<1>1. IndexStep(t) /\ \A u \in Threads \ {t} : Apart(u)  BY <1>0, StepOthers
<1>2. \A u \in Threads \ {t} : SameReader(u)  BY <1>1, ApartReader
<1>3. PICK p, i, e, b : Moves(t, p, i, e, b)  BY MoveEffect
<1>4. /\ p \in Producers /\ i \in Nat /\ sub' = sub /\ my[t].pc = "move"
      /\ LiveAt(p, e, FirstOf(i), b)
      /\ my'[t].pc = "out" \/ (Unlinker(t, p, e)' /\ my'[t].block = b)
  BY <1>3 DEF Moves
<1>5. PICK k : k = FirstOf(i)  OBVIOUS
<1>6. /\ \A q \in Producers : \A l : Unmoved(q, l)' \subseteq Unmoved(q, l)
      /\ i \in Unmoved(p, k)
  BY <1>2, <1>3, <1>5, MoveUnmoved
<1>7. CellShape' /\ LiveInv' /\ (my'[t].pc = "unlink" => Unmoved(p, FirstOf(i))' = {})
  BY <1>2, <1>3, MoveLive
<1>8. \A q \in Producers : \A f, l, c : LiveAt(q, f, l, c)' <=> LiveAt(q, f, l, c)  BY <1>4 DEF LiveAt
<1>9. CoverInv'
  <2> SUFFICES ASSUME NEW q \in Producers, NEW l, Whole(l), l < sub'[q].tailIndex, Unmoved(q, l)' # {}
               PROVE  \E f, c : LiveAt(q, f, l, c)'
    BY DEF CoverInv, Whole
  <2>1. Unmoved(q, l) # {} /\ l < sub[q].tailIndex  BY <1>4, <1>6
  <2>2. PICK f, c : LiveAt(q, f, l, c)  BY <1>0, <2>1 DEF CoverInv
  <2> QED BY <1>8, <2>2
<1>10. ReadAt(t)'
  <2>1. CASE my'[t].pc = "out"  BY <2>1 DEF ReadAt
  <2>2. CASE Unlinker(t, p, e)' /\ my'[t].block = b
    <3>1. my'[t].pc = "unlink" /\ my'[t].p = p /\ my'[t].entry = e  BY <2>2 DEF Unlinker
    <3>2. Unmoved(p, k)' = {}  BY <1>5, <1>7, <3>1 DEF FirstOf
    <3>3. LiveAt(p, e, k, b)'  BY <1>4, <1>5, <1>8
    <3>4. EmptyAt(p, e, b)'  BY <3>2, <3>3 DEF EmptyAt
    <3> QED BY <2>2, <3>1, <3>4 DEF ReadAt
  <2> QED BY <1>4, <2>1, <2>2
<1>11. ReadInv'
  <2>1. ASSUME NEW u \in Threads \ {t}  PROVE ReadAt(u)'
    <3>1. ReadAt(u) /\ CallApart(u)  BY <1>0, <1>1 DEF ReadInv, Apart
    <3>2. \A q \in Producers : \A l : Unmoved(q, l) = {} => Unmoved(q, l)' = {}  BY <1>6
    <3>3. \A q \in Producers : SubGrows(q)  BY <1>1 DEF IndexStep
    <3> QED BY <1>0, <1>8, <3>1, <3>2, <3>3, ReadKept
  <2> QED BY <1>10, <2>1 DEF ReadInv
<1>12. TakenInv'
  <2> SUFFICES ASSUME NEW v \in Threads, NEW q, NEW j, HoldsIt(v, q, j)'
               PROVE  j < sub'[q].headIndex /\ \A u \in Threads : HoldsIt(u, q, j)' => u = v
    BY DEF TakenInv
  <2>1. \A r, l : ~HoldsIt(t, r, l)'  BY <1>4 DEF HoldsIt, Moving, Unlinker
  <2>2. v # t  BY <2>1
  <2>3. HoldsIt(v, q, j)  BY <1>2, <2>2 DEF SameReader
  <2>4. j < sub[q].headIndex /\ \A u \in Threads : HoldsIt(u, q, j) => u = v  BY <1>0, <2>3 DEF TakenInv
  <2>5. \A u \in Threads : HoldsIt(u, q, j)' => u = v  BY <1>2, <2>1, <2>4 DEF SameReader
  <2> QED BY <1>4, <2>4, <2>5
<1>13. \A u \in Threads : ~Unlinker(u, p, e)
  <2> SUFFICES ASSUME NEW u \in Threads, Unlinker(u, p, e)  PROVE FALSE  OBVIOUS
  <2>1. my[u].pc = "unlink" /\ my[u].p = p /\ my[u].entry = e  BY DEF Unlinker
  <2>2. EmptyAt(p, e, my[u].block)  BY <1>0, <2>1 DEF ReadInv, ReadAt
  <2>3. PICK l, c : LiveAt(p, e, l, c) /\ Unmoved(p, l) = {}  BY <2>2 DEF EmptyAt
  <2>4. l = k  BY <1>4, <1>5, <2>3 DEF LiveAt, LiveIn
  <2> QED BY <1>6, <2>3, <2>4
<1>14. UnlinkOne'
  <2> SUFFICES ASSUME NEW v \in Threads, NEW u \in Threads, v # u, NEW q, NEW f,
                      Unlinker(v, q, f)', Unlinker(u, q, f)'
               PROVE  FALSE
    BY DEF UnlinkOne
  <2>1. \A w \in Threads \ {t} : Unlinker(w, q, f)' => Unlinker(w, q, f)  BY <1>2 DEF SameReader
  <2>2. Unlinker(t, q, f)' => q = p /\ f = e  BY <1>4 DEF Unlinker
  <2>3. CASE v = t  BY <1>13, <2>1, <2>2, <2>3
  <2>4. CASE u = t  BY <1>13, <2>1, <2>2, <2>4
  <2>5. CASE v # t /\ u # t  BY <1>0, <2>1, <2>5 DEF UnlinkOne
  <2> QED BY <2>3, <2>4, <2>5
<1> QED BY <1>7, <1>9, <1>11, <1>12, <1>14 DEF Reading

\* A block that is about to be unlinked is named, and by that entry.
LEMMA ReadUnlinks ==
    ASSUME PlaceInv, TableTypes, QueueTypes, ReadInv
    PROVE  Unlinks /\ UnlinkBlocks
<1> SUFFICES ASSUME NEW t \in Threads, my[t].pc = "unlink"
             PROVE  /\ \E k : LiveAt(my[t].p, my[t].entry, k, my[t].block)
                    /\ my[t].block \in Blocks
  BY DEF Unlinks, UnlinkBlocks
<1>1. PICK p, e, b : p = my[t].p /\ e = my[t].entry /\ b = my[t].block  OBVIOUS
<1>2. p \in Producers  BY <1>1, WalkerAt DEF Walking
<1>3. PICK k : LiveAt(p, e, k, b)  BY <1>1 DEF ReadInv, ReadAt, EmptyAt
<1>4. b \in Blocks  BY <1>2, <1>3, LiveBlock
<1> QED BY <1>1, <1>3, <1>4

\* The read layer in steps that leave the queue, and at the start.
LEMMA ReadStays ==
    ASSUME Reading, UNCHANGED <<sub, my, cell, dequeued, created>>  PROVE Reading'
<1>1. TakenInv'  BY DEF Reading, TakenInv, HoldsIt
<1>2. CellShape'  BY DEF Reading, CellShape
<1>3. \A p, k : Unmoved(p, k)' = Unmoved(p, k)  BY DEF Unmoved, UnmovedAt, HoldsIt, CellsOf
<1>4. \A p, e, k, b : LiveAt(p, e, k, b)' <=> LiveAt(p, e, k, b)  BY DEF LiveAt
<1>5. \A t, p, e : Unlinker(t, p, e)' <=> Unlinker(t, p, e)  BY DEF Unlinker
<1>6. LiveInv'
  <2> SUFFICES ASSUME NEW p \in Producers, NEW e, NEW k, NEW b, LiveAt(p, e, k, b)'
               PROVE  LiveOK(p, e, k, b)'
    BY DEF LiveInv
  <2>1. LiveOK(p, e, k, b)  BY <1>4 DEF Reading, LiveInv
  <2>2. p <= created' /\ k < sub'[p].tailIndex  BY <2>1 DEF LiveOK
  <2>3. CountOK(p, k, b)'  BY <1>3, <2>1 DEF LiveOK, CountOK
  <2>4. CellsOK(p, k, b)'  BY <1>3, <2>1 DEF LiveOK, CellsOK, At
  <2>5. LastOK(p, k, b)'  BY <2>1 DEF LiveOK, LastOK
  <2>6. GoesOK(p, e, k)'  BY <1>3, <1>5, <2>1 DEF LiveOK, GoesOK
  <2> QED BY <2>2, <2>3, <2>4, <2>5, <2>6 DEF LiveOK
<1>7. CoverInv'
  <2> SUFFICES ASSUME NEW p \in Producers, NEW k, Whole(k), k < sub'[p].tailIndex, Unmoved(p, k)' # {}
               PROVE  \E e, b : LiveAt(p, e, k, b)'
    BY DEF CoverInv, Whole
  <2>1. k < sub[p].tailIndex /\ Unmoved(p, k) # {}  BY <1>3
  <2>2. PICK e, b : LiveAt(p, e, k, b)  BY <2>1 DEF Reading, CoverInv
  <2> QED BY <1>4, <2>2
<1>8. ReadInv'
  <2> SUFFICES ASSUME NEW t \in Threads  PROVE ReadAt(t)'  BY DEF ReadInv
  <2>1. ReadAt(t)  BY DEF Reading, ReadInv
  <2>2. my'[t] = my[t]  OBVIOUS
  <2>3. \A p, i, j, x : EntryRead(p, i, j, x)' <=> EntryRead(p, i, j, x)  BY DEF EntryRead, LiveAt, FirstOf
  <2>4. \A p, e, b : EmptyAt(p, e, b)' <=> EmptyAt(p, e, b)  BY <1>3, <1>4 DEF EmptyAt
  <2> QED BY <1>4, <2>1, <2>2, <2>3, <2>4 DEF ReadAt, FirstOf
<1>9. UnlinkOne'  BY <1>5 DEF Reading, UnlinkOne
<1> QED BY <1>1, <1>2, <1>6, <1>7, <1>8, <1>9 DEF Reading

\* Each step keeps what the readers rely on.
LEMMA ReadNext == ASSUME Base, PlaceInv, Reading, [Next]_vars  PROVE Reading'
<1>1. CASE UNCHANGED <<sub, my, cell, dequeued, created>>  BY <1>1, ReadStays
<1>2. ASSUME NEW t \in Threads, ThreadStep(t)  PROVE Reading'
  BY <1>2, TakeIndexRead, FindIndexRead, FindEntryRead, MoveRead, UnlinkRead, PutFirstRead,
     PutRead, OtherRead
<1>3. Destroy \/ UNCHANGED vars => UNCHANGED <<sub, my, cell, dequeued, created>>
  BY DEF Destroy, vars, tableVars, blocks
<1> QED BY <1>1, <1>2, <1>3 DEF Next

LEMMA ReadInit == ASSUME Init  PROVE Reading
<1>1. my = [t \in Threads |-> Idle] /\ cell = [b \in Blocks |-> [i \in 0..(BlockSize-1) |-> Nothing]]
  BY DEF Init
<1>2. \A t \in Threads : my[t].pc = "out"  BY <1>1 DEF Idle
<1>3. (\A t \in Threads : \A p, i : ~HoldsIt(t, p, i)) /\ \A t \in Threads : \A p, e : ~Unlinker(t, p, e)
  BY <1>2 DEF HoldsIt, Unlinker, Moving
<1>4. TakenInv /\ UnlinkOne  BY <1>3 DEF TakenInv, UnlinkOne
<1>5. ReadInv  BY <1>2 DEF ReadInv, ReadAt
<1>6. LiveInv  BY NoneLive DEF LiveInv
<1>7. CellShape
  <2>1. dequeued \in [Blocks -> Nat]
    <3>1. BlockSize \in Nat  BY QueueAssumption
    <3>2. InitNew => dequeued \in [Blocks -> Nat]  BY DEF InitNew
    <3>4. InitUsed => dequeued = [b \in Blocks |-> BlockSize]  BY DEF InitUsed
    <3>3. InitUsed => dequeued \in [Blocks -> Nat]  BY <3>1, <3>4
    <3> QED BY <3>2, <3>3 DEF Init
  <2>2. /\ cell = [b \in Blocks |-> cell[b]]
        /\ \A b \in Blocks : cell[b] = [i \in 0..(BlockSize-1) |-> cell[b][i]]
    BY <1>1
  <2> QED BY <2>1, <2>2 DEF CellShape
<1>8. CoverInv
  <2> SUFFICES ASSUME NEW p \in Producers, NEW k, Whole(k), k < sub[p].tailIndex, Unmoved(p, k) # {}
               PROVE  FALSE
    BY DEF CoverInv
  <2>1. k \in Nat  BY WholeNat
  <2>2. sub[p] = NewSub \/ sub[p] = UsedSub(p)  BY InitSub
  <2>3. \/ sub[p].tailIndex = 0
        \/ sub[p].tailIndex = BlockSize /\ sub[p].headIndex = BlockSize
    BY <2>2, NewFields, UsedFields
  <2>4. CASE sub[p].tailIndex = 0  BY <2>1, <2>4
  <2>5. CASE sub[p].tailIndex = BlockSize /\ sub[p].headIndex = BlockSize
    <3>1. PICK z : z = 0  OBVIOUS
    <3>2. Whole(z) /\ z \in Nat
      <4>1. 0 = 0 * BlockSize /\ 0 \in Nat  BY QueueAssumption
      <4> QED BY <3>1, <4>1 DEF Whole
    <3>3. ~(z < k)
      <4> SUFFICES ASSUME z < k  PROVE FALSE  OBVIOUS
      <4>1. z + BlockSize <= k  BY <3>2, WholeApart
      <4> QED BY <2>1, <2>5, <3>1, <4>1, QueueAssumption
    <3>4. k = 0  BY <2>1, <3>1, <3>3
    <3>5. PICK i \in Unmoved(p, k) : TRUE  OBVIOUS
    <3>6. i \in CellsOf(k) /\ UnmovedAt(p, i)  BY <3>5 DEF Unmoved
    <3>7. i >= BlockSize  BY <1>3, <2>5, <3>6 DEF UnmovedAt
    <3>8. i \in Nat /\ i < k + BlockSize  BY <3>6, CellNat
    <3> QED BY <3>4, <3>7, <3>8, QueueAssumption
  <2> QED BY <2>3, <2>4, <2>5
<1> QED BY <1>4, <1>5, <1>6, <1>7, <1>8 DEF Reading

\* What is read of a block is what was put there.
LEMMA ReadsPut == ASSUME Base, Reading  PROVE ReadsWhatWasPut
<1> SUFFICES ASSUME NEW t \in Threads, my[t].pc = "move"
             PROVE  cell[my[t].block][my[t].i % BlockSize] = <<my[t].p, my[t].i>>
  BY DEF ReadsWhatWasPut
<1>1. PICK p, i, e, b : p = my[t].p /\ i = my[t].i /\ e = my[t].entry /\ b = my[t].block  OBVIOUS
<1>2. TableTypes /\ QueueTypes /\ ClaimInv  BY DEF Base, TableInv
<1>3. HoldsIt(t, p, i)  BY <1>1 DEF HoldsIt, Moving
<1>4. p \in Producers /\ i \in Nat /\ i \in Unmoved(p, FirstOf(i))  BY <1>2, <1>3, HolderUnmoved
<1>5. LiveAt(p, e, FirstOf(i), b)  BY <1>1 DEF Reading, ReadInv, ReadAt
<1>6. CellsOK(p, FirstOf(i), b)  BY <1>4, <1>5 DEF Reading, LiveInv, LiveOK
<1>7. i < sub[p].headIndex  BY <1>3 DEF Reading, TakenInv
<1>8. i < sub[p].tailIndex
  <2>1. sub[p].headIndex \in Nat /\ sub[p].tailIndex \in Nat /\ sub[p].headIndex <= sub[p].tailIndex
    BY <1>2, <1>4, HeadTail
  <2> QED BY <1>4, <1>7, <2>1
<1>9. At(b, i) = <<p, i>>  BY <1>4, <1>6, <1>8 DEF CellsOK
<1> QED BY <1>1, <1>9 DEF At

\* The search finds the live entry of a block, from the newest header.
LeftBlock(p, i) == sub[p].entries[EntryFor(p, Header(p), Header(p).tail, i)].value

LEMMA LeftBlockIs ==
    ASSUME IndexInv, NEW p \in Producers, NEW i \in Nat, NEW e, NEW k, NEW b, LiveAt(p, e, k, b),
           k = FirstOf(i)
    PROVE  LeftBlock(p, i) = b
<1>1. PICK h, f, x, j : h = Header(p) /\ f = h.index /\ x = h.tail /\ j = Len(sub[p].headers)  OBVIOUS
<1>2. f = Header(p).index  BY <1>1
<1>3. /\ j \in 1..Len(sub[p].headers) /\ x \in DOMAIN f /\ sub[p].entries[f[x]].key # NoKey
      /\ \E a \in DOMAIN f : f[a] = e
  BY <1>1, <1>2, NewestReads
<1>4. PICK a \in DOMAIN f : f[a] = e  BY <1>3
<1>5. sub[p].entries[e].value = b /\ b # Null /\ sub[p].entries[e].key = FirstOf(i)
  BY DEF LiveAt, LiveIn
<1>6. PICK m, num, off : IndexAt(p, m, num, off)  BY DEF IndexInv
<1>7. Indexed(sub[p].entries, sub[p].headers, m, num, off)  BY <1>6 DEF IndexAt
<1>8. h.index = sub[p].headers[j].index  BY <1>1 DEF Header
<1>9. FindsAt(p, m, num, off, j, h, x, i, a)
  BY <1>1, <1>3, <1>4, <1>5, <1>7, <1>8 DEF FindsAt
<1>10. EntryFor(p, h, x, i) = h.index[a]  BY <1>9, EntryForFinds
<1>11. EntryFor(p, h, x, i) = e  BY <1>1, <1>4, <1>10
<1> QED BY <1>1, <1>5, <1>11 DEF LeftBlock

LEMMA LeftIn ==
    ASSUME NEW p, NEW b, NEW x, x = sub[p].headIndex, NEW y, y = sub[p].tailIndex
    PROVE  b \in LeftBy(p) <=>
             \/ \E i \in x..(y - 1) : FirstOf(i) # FirstOf(y - 1) /\ b = LeftBlock(p, i)
             \/ /\ b = sub[p].tailBlock /\ b # Null
                /\ (\E i \in x..(y - 1) : TRUE) \/ y % BlockSize # 0
BY DEF LeftBy, LeftBlock

\* When no call is under way, the walk from head to tail and the last block
\* are what the index names.
LEMMA LeftNamed ==
    ASSUME Base, PlaceInv, Reading, \A t \in Threads : my[t].pc = "out",
           NEW p \in Producers, NEW b \in Blocks
    PROVE  p \in 1..created /\ b \in LeftBy(p) <=> \E e, k : LiveAt(p, e, k, b)
<1>0. /\ QueueTypes /\ ClaimInv /\ TableTypes /\ IndexInv /\ LiveInv /\ CoverInv
  BY DEF Base, Reading, TableInv
<1>1. PICK x, y : x = sub[p].headIndex /\ y = sub[p].tailIndex  OBVIOUS
<1>2. x \in Nat /\ y \in Nat /\ x <= y /\ BlockSize \in Nat /\ BlockSize >= 1
  BY <1>0, <1>1, HeadTail, QueueAssumption
<1>3. p \in Nat /\ p >= 1 /\ created \in Nat  BY <1>0, QueueAssumption DEF TableTypes
<1>4. \A i : UnmovedAt(p, i) <=> i >= x  BY <1>1 DEF UnmovedAt, HoldsIt, Moving
<1>5. b # Null  BY BlockSets
\* A block with an index at or after the head, and before the tail, is named.
<1>6. ASSUME NEW i \in Nat, i >= x, FirstOf(i) < y
      PROVE  \E e, c : LiveAt(p, e, FirstOf(i), c)
  <2>1. Whole(FirstOf(i)) /\ i \in CellsOf(FirstOf(i))  BY FirstWhole
  <2>2. i \in Unmoved(p, FirstOf(i))  BY <1>4, <1>6, <2>1 DEF Unmoved
  <2> QED BY <1>0, <1>1, <1>6, <2>1, <2>2 DEF CoverInv
<1>7. ASSUME NEW e, NEW k, LiveAt(p, e, k, b)  PROVE p \in 1..created /\ b \in LeftBy(p)
  <2>1. LiveOK(p, e, k, b)  BY <1>0, <1>7 DEF LiveInv
  <2>2. p \in 1..created /\ k < y  BY <1>1, <1>3, <2>1 DEF LiveOK
  <2>3. Whole(k) /\ k \in Nat  BY <1>0, <1>7, LiveKey
  <2>4. PICK i \in Unmoved(p, k) : TRUE
    <3>1. \A t \in Threads : ~Unlinker(t, p, e)  BY DEF Unlinker
    <3> QED BY <2>1, <3>1 DEF LiveOK, GoesOK
  <2>5. i \in CellsOf(k) /\ i >= x  BY <1>4 DEF Unmoved
  <2>6. i \in Nat /\ k <= i /\ i < k + BlockSize /\ FirstOf(i) = k  BY <2>3, <2>5, CellNat, WholeFirst
  <2>7. CASE k + BlockSize >= y
    <3>1. b = sub[p].tailBlock  BY <1>1, <2>1, <2>7 DEF LiveOK, LastOK
    <3>2. (\E j \in x..(y - 1) : TRUE) \/ y % BlockSize # 0
      <4>1. CASE x < y
        <5>1. x \in x..(y - 1)  BY <1>2, <4>1
        <5> QED BY <5>1
      <4>2. CASE ~(x < y)
        <5>1. x = y  BY <1>2, <4>2
        <5>2. y < k + BlockSize  BY <1>2, <2>3, <2>5, <2>6, <5>1
        <5>3. ~Whole(y)
          <6> SUFFICES ASSUME Whole(y)  PROVE FALSE  OBVIOUS
          <6>1. k + BlockSize <= y  BY <2>2, <2>3, WholeApart
          <6> QED BY <1>2, <2>3, <5>2, <6>1
        <5> QED BY <1>2, <5>3, ModWhole
      <4> QED BY <4>1, <4>2
    <3>3. b \in LeftBy(p)  BY <1>1, <1>5, <3>1, <3>2, LeftIn
    <3> QED BY <2>2, <3>3
  <2>8. CASE ~(k + BlockSize >= y)
    <3>1. i \in x..(y - 1) /\ y - 1 \in Nat /\ y - 1 >= k + BlockSize
      BY <1>2, <2>3, <2>5, <2>6, <2>8
    <3>2. FirstOf(y - 1) # k
      <4>1. PICK z : z = y - 1  OBVIOUS
      <4>2. z \in Nat /\ z >= k + BlockSize  BY <3>1, <4>1
      <4>3. FirstOf(z) \in Nat /\ z < FirstOf(z) + BlockSize  BY <4>2, FirstWhole
      <4>4. FirstOf(z) # k  BY <1>2, <2>3, <4>2, <4>3
      <4> QED BY <4>1, <4>4
    <3>3. LeftBlock(p, i) = b  BY <1>0, <1>7, <2>6, LeftBlockIs
    <3>4. b \in LeftBy(p)  BY <1>1, <2>6, <3>1, <3>2, <3>3, LeftIn
    <3> QED BY <2>2, <3>4
  <2> QED BY <2>7, <2>8
<1>8. ASSUME b \in LeftBy(p)  PROVE \E e, k : LiveAt(p, e, k, b)
  <2>1. \/ \E i \in x..(y - 1) : FirstOf(i) # FirstOf(y - 1) /\ b = LeftBlock(p, i)
        \/ /\ b = sub[p].tailBlock /\ b # Null
           /\ (\E i \in x..(y - 1) : TRUE) \/ y % BlockSize # 0
    BY <1>1, <1>8, LeftIn
  <2>2. ASSUME NEW i \in x..(y - 1)  PROVE i \in Nat /\ i >= x /\ i < y /\ FirstOf(i) < y
    <3>1. i \in Nat /\ i >= x /\ i < y  BY <1>2
    <3>2. FirstOf(i) \in Nat /\ FirstOf(i) <= i  BY <3>1, FirstWhole
    <3> QED BY <1>2, <3>1, <3>2
  <2>3. ASSUME NEW i \in x..(y - 1), b = LeftBlock(p, i)  PROVE \E e, k : LiveAt(p, e, k, b)
    <3>1. PICK e, c : LiveAt(p, e, FirstOf(i), c)  BY <1>6, <2>2
    <3>2. LeftBlock(p, i) = c  BY <1>0, <2>2, <3>1, LeftBlockIs
    <3> QED BY <2>3, <3>1, <3>2
  <2>4. ASSUME b = sub[p].tailBlock, (\E i \in x..(y - 1) : TRUE) \/ y % BlockSize # 0
        PROVE  \E e, k : LiveAt(p, e, k, b)
    <3>1. PICK i \in Nat : i >= x /\ FirstOf(i) < y /\ FirstOf(i) + BlockSize >= y
      <4>1. CASE \E i \in x..(y - 1) : TRUE
        <5>1. PICK i : i = y - 1  OBVIOUS
        <5>2. i \in x..(y - 1)  BY <1>2, <4>1, <5>1
        <5>3. i \in Nat /\ i >= x /\ FirstOf(i) < y  BY <2>2, <5>2
        <5>4. FirstOf(i) \in Nat /\ i < FirstOf(i) + BlockSize  BY <5>3, FirstWhole
        <5>5. FirstOf(i) + BlockSize >= y  BY <1>2, <5>1, <5>3, <5>4
        <5> QED BY <5>3, <5>5
      <4>2. CASE y % BlockSize # 0
        <5>1. ~Whole(y)  BY <1>2, <4>2, ModWhole
        <5>2. FirstOf(y) \in Nat /\ Whole(FirstOf(y)) /\ FirstOf(y) <= y /\ y < FirstOf(y) + BlockSize
          BY <1>2, FirstWhole
        <5>3. FirstOf(y) # y  BY <5>1, <5>2
        <5>4. FirstOf(y) < y /\ FirstOf(y) + BlockSize >= y /\ y >= x  BY <1>2, <5>2, <5>3
        <5> QED BY <1>2, <5>4
      <4> QED BY <2>4, <4>1, <4>2
    <3>2. PICK e, c : LiveAt(p, e, FirstOf(i), c)  BY <1>6, <3>1
    <3>3. LastOK(p, FirstOf(i), c)  BY <1>0, <3>2 DEF LiveInv, LiveOK
    <3>4. c = b  BY <1>1, <2>4, <3>1, <3>3 DEF LastOK
    <3> QED BY <3>2, <3>4
  <2> QED BY <2>1, <2>3, <2>4
<1> QED BY <1>7, <1>8

-----------------------------------------------------------------------------
(* The destructor, and the theorems.                                       *)

\* After the destructor nothing runs any more, and it has freed each block
\* once for each sub-queue that names it.
Freed == freed # <<>> =>
    /\ \A t \in Threads : my[t].pc = "out" /\ step[t] = "out"
    /\ \A b \in Blocks : freed[b] = Cardinality(NamedBy(b))

LEMMA StepNotFreed ==
    ASSUME LabelInv, NEW t \in Threads, ThreadStep(t)
    PROVE  /\ freed' = freed
           /\ my[t].pc = "out" /\ step[t] = "out" => freed = <<>>
<1>1. CASE CallEnqueue(t) \/ FailEnqueue(t) \/ InsertEntry(t) \/ TakeFromPool(t) \/ TakeBlock(t)
             \/ PutFirst(t) \/ Put(t)
  BY <1>1 DEF CallEnqueue, FailEnqueue, InsertEntry, StartsBlock, TakeFromPool, TakeBlock, PutFirst, Put
<1>2. CASE CallDequeue(t) \/ Score(t) \/ LoadOver(t) \/ TestOptimistic(t) \/ Claim(t) \/ Check(t)
             \/ Excess(t) \/ TakeIndex(t) \/ FindIndex(t) \/ FindEntry(t) \/ Move(t) \/ Unlink(t)
             \/ EndDequeue(t)
  BY <1>2 DEF CallDequeue, Score, LoadOver, TestOptimistic, Claim, Check, Excess, TakeIndex,
              FindIndex, FindEntry, Move, Unlink, EndDequeue
<1>3. CASE ThreadExit(t)  BY <1>3 DEF ThreadExit
<1>4. CASE TableStep(t)
  <2>1. step[t] # "out" /\ freed' = freed
    BY <1>4 DEF TableStep, Table!Step, Table!Search, Table!Count, Table!TakeFlag, Table!Resize,
            Table!ClearFlag, Table!FailResize, Table!Wait, Table!Recycle, Table!EnterNew,
            Table!Remove, Table!Retire
  <2> QED BY <2>1
<1>5. CASE FreeStep(t)
  <2>1. at[t] # "out" /\ freed' = freed
    BY <1>5 DEF FreeStep, Free!Step, Free!LoadHead, Free!LoadRefs, Free!Hold, Free!LoadNext, Free!Pop,
            Free!Release, Free!Drop, Free!Add, Free!LoadTop, Free!Link, Free!CountOne, Free!Push, Free!Undo
  <2>2. my[t].pc \in {"get", "add"}  BY <2>1 DEF LabelInv, LabelAt
  <2> QED BY <2>1, <2>2
<1> QED BY <1>1, <1>2, <1>3, <1>4, <1>5 DEF ThreadStep

\* The destructor finds what the indexes name.
LEMMA DestroyFrees ==
    ASSUME Base, PlaceInv, Reading, Destroy
    PROVE  Freed'
<1>0. TableTypes  BY DEF Base, TableInv
<1>1. \A t \in Threads : my[t].pc = "out" /\ step[t] = "out"  BY DEF Destroy
<1>2. /\ UNCHANGED <<sub, my, step>>
      /\ freed' = [b \in Blocks |-> Cardinality({p \in 1..created : b \in LeftBy(p)})]
  BY DEF Destroy, tableVars
<1>3. 1..created \subseteq Producers  BY <1>0, QueueAssumption DEF TableTypes
<1>4. ASSUME NEW b \in Blocks  PROVE freed'[b] = Cardinality(NamedBy(b)')
  <2>1. \A p \in Producers : p \in NamedBy(b) <=> p \in 1..created /\ b \in LeftBy(p)
    BY <1>1, LeftNamed, NamedLive
  <2>2. NamedBy(b) \subseteq Producers  BY DEF NamedBy
  <2>3. NamedBy(b) = {p \in 1..created : b \in LeftBy(p)}  BY <1>3, <2>1, <2>2
  <2>4. NamedBy(b)' = NamedBy(b)  BY <1>2 DEF NamedBy
  <2> QED BY <1>2, <2>3, <2>4
<1>5. \A t \in Threads : my'[t].pc = "out" /\ step'[t] = "out"  BY <1>1, <1>2
<1> QED BY <1>4, <1>5 DEF Freed

LEMMA FreedNext ==
    ASSUME Base, PlaceInv, Reading, Freed, [Next]_vars
    PROVE  Freed'
<1>1. CASE Destroy  BY <1>1, DestroyFrees
<1>2. CASE UNCHANGED vars
  <2>1. UNCHANGED <<freed, my, step, sub>>  BY <1>2 DEF vars, tableVars
  <2>2. \A b : NamedBy(b)' = NamedBy(b)  BY <2>1 DEF NamedBy
  <2> QED BY <2>1, <2>2 DEF Freed
<1>3. ASSUME NEW t \in Threads, ThreadStep(t)  PROVE Freed'
  <2>1. freed' = freed /\ (my[t].pc = "out" /\ step[t] = "out" => freed = <<>>)
    BY <1>3, StepNotFreed DEF Base
  <2>2. freed = <<>>  BY <2>1 DEF Freed
  <2> QED BY <2>1, <2>2 DEF Freed
<1> QED BY <1>1, <1>2, <1>3 DEF Next

\* What holds at all times of the free list, the block indexes, the places of
\* the blocks, the readers of their cells and the destructor.
BlocksInv ==
    /\ FreeShape /\ LabelInv /\ PutBlocks
    /\ IndexInv /\ PlaceInv /\ Reading /\ Freed

LEMMA BlocksBase == ASSUME QueueInv, BlocksInv  PROVE Base /\ UnlinkBlocks
<1>1. TableTypes /\ ReadInv  BY DEF QueueInv, TableInv, BlocksInv, Reading
<1>2. Unlinks /\ UnlinkBlocks  BY <1>1, ReadUnlinks DEF QueueInv, BlocksInv
<1> QED BY <1>2 DEF Base, QueueInv, BlocksInv

\* The blocks, the block indexes and the readers stay consistent: it is from
\* this that the properties below follow.
THEOREM QueueBlocks == Spec => []BlocksInv
<1>1. Init => BlocksInv
  <2> SUFFICES ASSUME Init  PROVE BlocksInv  OBVIOUS
  <2>1. Freed  BY DEF Init, Freed
  <2> QED BY <2>1, FreeInit, IndexInit, PlaceInit, ReadInit DEF BlocksInv
<1>2. QueueInv /\ BlocksInv /\ [Next]_vars => BlocksInv'
  <2> SUFFICES ASSUME QueueInv, BlocksInv, [Next]_vars  PROVE BlocksInv'  OBVIOUS
  <2>1. Base /\ UnlinkBlocks /\ PlaceInv /\ Reading /\ Freed  BY BlocksBase DEF BlocksInv
  <2>2. /\ TableInv /\ QueueTypes /\ ClaimInv /\ FreeShape /\ LabelInv /\ PutBlocks /\ Unlinks
        /\ IndexInv
    BY <2>1 DEF Base
  <2>3. FreeShape'  BY <2>1, <2>2, FreeShapeNext
  <2>4. LabelInv'  BY <2>2, LabelNext
  <2>5. IndexInv'  BY <2>2, IndexNext
  <2>6. PlaceInv' /\ PutBlocks'  BY <2>1, PlaceNext
  <2>7. Reading'  BY <2>1, ReadNext
  <2>8. Freed'  BY <2>1, FreedNext
  <2> QED BY <2>3, <2>4, <2>5, <2>6, <2>7, <2>8 DEF BlocksInv
<1> QED BY <1>1, <1>2, QueueInvariant, PTL DEF Spec

\* A dequeuer that is about to move an element out reads, in the block that its
\* search found, the element that was put at its index.
THEOREM QueueReads == Spec => []ReadsWhatWasPut
<1>1. QueueInv /\ BlocksInv => ReadsWhatWasPut  BY BlocksBase, ReadsPut DEF BlocksInv
<1> QED BY <1>1, QueueInvariant, QueueBlocks, PTL

\* Each block of the pool is in one place at a time, and in some place.
THEOREM QueueOnePlace == Spec => []OnePlace
<1>1. QueueInv /\ BlocksInv => OnePlace  BY BlocksBase, PlaceOne DEF BlocksInv
<1> QED BY <1>1, QueueInvariant, QueueBlocks, PTL

\* ~ConcurrentQueue frees each block that still belongs to a sub-queue, once.
THEOREM QueueDestructor == Spec => []DestructorFreesOnce
<1>1. BlocksInv => DestructorFreesOnce  BY DEF BlocksInv, Freed, DestructorFreesOnce, NamedBy
<1> QED BY <1>1, QueueBlocks, PTL
=============================================================================
