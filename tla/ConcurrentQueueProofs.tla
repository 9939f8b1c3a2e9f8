----------------------- MODULE ConcurrentQueueProofs -----------------------
(***************************************************************************)
(* Proofs about ConcurrentQueue: the tables give no two threads the same   *)
(* sub-queue, the four counters of a sub-queue never let more indexes be   *)
(* taken than elements were published, and a dequeue that no other one     *)
(* overlaps finds what is there.  The last part is about the block index:  *)
(* whatever entries it has and however often it was doubled, a search from *)
(* any of its headers finds the entry of a block that was begun.           *)
(* ConcurrentQueueBlocksProofs builds on it.                               *)
(***************************************************************************)
EXTENDS ConcurrentQueue, Integers, FiniteSetTheorems, NaturalsInduction,
        WellFoundedInduction, TLAPS

USE DEF Null

-----------------------------------------------------------------------------
(* Natural numbers.                                                        *)

\* A non-empty set of natural numbers has a least element.
LEMMA LeastNat ==
    ASSUME NEW T \in SUBSET Nat, T # {} PROVE \E m \in T : \A k \in T : m <= k
<1> DEFINE R == OpToRel(<, Nat)
<1>0. IsWellFoundedOn(R, Nat) BY NatLessThanWellFounded
<1>2. \A x, y \in Nat : x < y => <<x, y>> \in R   BY DEF OpToRel
<1> HIDE DEF R
<1>1. PICK x \in T : \A y \in T : ~ (<<y, x>> \in R)  BY <1>0, WFMin
<1>3. \A y \in T : ~(y < x)  BY <1>1, <1>2
<1> QED BY <1>3

\* A set with 0 that is closed under successor has all natural numbers.
LEMMA NatBySteps ==
    ASSUME NEW T \in SUBSET Nat, 0 \in T, \A n \in Nat : n \in T => n + 1 \in T
    PROVE  \A n \in Nat : n \in T
<1> SUFFICES ASSUME Nat \ T # {} PROVE FALSE  OBVIOUS
<1>1. PICK m \in Nat \ T : \A k \in Nat \ T : m <= k
  <2>1. Nat \ T \in SUBSET Nat  OBVIOUS
  <2> QED BY <2>1, LeastNat
<1>2. m # 0 /\ m - 1 \in Nat /\ (m - 1) + 1 = m /\ ~(m <= m - 1)  OBVIOUS
<1>3. m - 1 \in T  BY <1>1, <1>2
<1> QED BY <1>3, <1>2

\* f doubles, from b on, as Doubled does for the count c.
Grows(f, c, b) == \A m \in Nat : m >= b => f[m] = IF c >= m \div 2 THEN f[2 * m] ELSE m

\* Some function doubles as Doubled's does.
LEMMA GrowsExists ==
    ASSUME NEW c \in Int, NEW B \in Nat \ {0}, \A m \in Nat : m >= B => c < m \div 2
    PROVE  \E f \in [Nat -> Nat] : Grows(f, c, 1)
<1> DEFINE Can(j) == j <= B - 1 => \E f \in [Nat -> Nat] : Grows(f, c, B - j)
           T == {j \in Nat : Can(j)}
<1>1. Can(0)
  <2> DEFINE f == [m \in Nat |-> m]
  <2>1. f \in [Nat -> Nat] /\ Grows(f, c, B - 0)  BY DEF Grows
  <2> QED BY <2>1
<1>2. ASSUME NEW j \in Nat, Can(j)  PROVE Can(j + 1)
  <2> SUFFICES ASSUME j + 1 <= B - 1  PROVE \E f \in [Nat -> Nat] : Grows(f, c, B - (j + 1))
    OBVIOUS
  <2>1. PICK f \in [Nat -> Nat] : Grows(f, c, B - j)  BY <1>2
  <2> DEFINE b == B - (j + 1)
             g == [f EXCEPT ![b] = IF c >= b \div 2 THEN f[2 * b] ELSE b]
  <2>7. b \in Nat /\ b >= 1 /\ b + 1 = B - j  OBVIOUS
  <2>8. g \in [Nat -> Nat]  BY <2>7
  <2>9. ASSUME NEW m \in Nat, m >= b  PROVE g[m] = IF c >= m \div 2 THEN g[2 * m] ELSE m
    <3>1. 2 * m # b /\ 2 * m \in Nat  BY <2>7, <2>9
    <3>2. g[2 * m] = f[2 * m]  BY <3>1
    <3>3. CASE m = b  BY <3>2, <3>3, <2>7
    <3>4. CASE m # b
      <4>1. g[m] = f[m]  BY <3>4
      <4>2. f[m] = IF c >= m \div 2 THEN f[2 * m] ELSE m  BY <2>1, <2>7, <2>9, <3>4 DEF Grows
      <4> QED BY <4>1, <4>2, <3>2
    <3> QED BY <3>3, <3>4
  <2>10. Grows(g, c, b)  BY <2>9 DEF Grows
  <2> QED BY <2>8, <2>10
<1> HIDE DEF Can
<1>3. \A j \in Nat : j \in T => j + 1 \in T  BY <1>2
<1>4. 0 \in T /\ T \in SUBSET Nat  BY <1>1
<1>5. \A j \in Nat : j \in T
  <2> HIDE DEF T
  <2> QED BY <1>3, <1>4, NatBySteps
<1>6. B - 1 \in Nat /\ B - (B - 1) = 1 /\ B - 1 <= B - 1  OBVIOUS
<1>7. Can(B - 1)  BY <1>5, <1>6
<1> QED BY <1>6, <1>7 DEF Can

\* Whatever function does so, its values are positive.
LEMMA GrowsValues ==
    ASSUME NEW c \in Int, NEW B \in Nat \ {0}, \A m \in Nat : m >= B => c < m \div 2,
           NEW f, Grows(f, c, 1)
    PROVE  \A m \in Nat \ {0} : f[m] \in Nat \ {0}
<1> DEFINE Fine(j) == \A m \in Nat \ {0} : m + j >= B => f[m] \in Nat \ {0}
           T == {j \in Nat : Fine(j)}
<1>0. \A m \in Nat \ {0} : f[m] = IF c >= m \div 2 THEN f[2 * m] ELSE m  BY DEF Grows
<1>1. Fine(0)  BY <1>0
<1>2. ASSUME NEW j \in Nat, Fine(j)  PROVE Fine(j + 1)
  <2> SUFFICES ASSUME NEW m \in Nat \ {0}, m + (j + 1) >= B  PROVE f[m] \in Nat \ {0}
    OBVIOUS
  <2>1. 2 * m \in Nat \ {0} /\ 2 * m + j >= B  OBVIOUS
  <2>2. f[2 * m] \in Nat \ {0}  BY <1>2, <2>1
  <2> QED BY <2>2, <1>0
<1> HIDE DEF Fine
<1>3. \A j \in Nat : j \in T => j + 1 \in T  BY <1>2
<1>4. 0 \in T /\ T \in SUBSET Nat  BY <1>1
<1>5. \A j \in Nat : j \in T
  <2> HIDE DEF T
  <2> QED BY <1>3, <1>4, NatBySteps
<1>6. Fine(B)  BY <1>5
<1>7. \A m \in Nat \ {0} : m + B >= B  OBVIOUS
<1> QED BY <1>6, <1>7 DEF Fine

\* The new capacity is a positive number.
LEMMA DoubledNat == ASSUME NEW n \in Nat \ {0}, NEW c \in Int PROVE Table!Doubled(n, c) \in Nat \ {0}
<1> DEFINE IsD(f) == f = [m \in Nat |-> IF c >= m \div 2 THEN f[2 * m] ELSE m]
<1>1. PICK B \in Nat \ {0} : \A m \in Nat : m >= B => c < m \div 2
  <2>1. CASE c < 0  BY <2>1
  <2>2. CASE c >= 0
    <3>1. 2 * c + 2 \in Nat \ {0} /\ \A m \in Nat : m >= 2 * c + 2 => c < m \div 2 BY <2>2
    <3> QED BY <3>1
  <2> QED BY <2>1, <2>2
<1>2. PICK g \in [Nat -> Nat] : Grows(g, c, 1)  BY <1>1, GrowsExists
<1> DEFINE f == [g EXCEPT ![0] = 0]
<1>3. f \in [Nat -> Nat]  OBVIOUS
<1>4. ASSUME NEW m \in Nat PROVE f[m] = IF c >= m \div 2 THEN f[2 * m] ELSE m
  <2>1. CASE m = 0  BY <2>1
  <2>2. CASE m # 0
    <3>1. f[2 * m] = g[2 * m] /\ f[m] = g[m]  BY <2>2
    <3>2. g[m] = IF c >= m \div 2 THEN g[2 * m] ELSE m  BY <2>2, <1>2 DEF Grows
    <3> QED BY <3>1, <3>2
  <2> QED BY <2>1, <2>2
<1>5. IsD(f)
  <2> HIDE DEF f
  <2>1. f = [m \in Nat |-> f[m]]  BY <1>3
  <2>2. [m \in Nat |-> f[m]] = [m \in Nat |-> IF c >= m \div 2 THEN f[2 * m] ELSE m]  BY <1>4
  <2> QED BY <2>1, <2>2
<1> DEFINE D == CHOOSE d : IsD(d)
<1>6. IsD(D)
  <2> HIDE DEF IsD, f
  <2> QED BY <1>5
<1>7. Grows(D, c, 1)
  <2> SUFFICES ASSUME NEW m \in Nat, m >= 1
               PROVE  D[m] = IF c >= m \div 2 THEN D[2 * m] ELSE m
    BY DEF Grows
  <2>1. D = [k \in Nat |-> IF c >= k \div 2 THEN D[2 * k] ELSE k]  BY <1>6
  <2> HIDE DEF D
  <2> QED BY <2>1
<1>8. D[2 * n] \in Nat \ {0}
  <2> HIDE DEF D
  <2>1. \A m \in Nat \ {0} : D[m] \in Nat \ {0}
    <3>0. c \in Int  OBVIOUS
    <3> HIDE DEF IsD, f
    <3> QED BY <1>7, <1>1, <3>0, GrowsValues
  <2>2. 2 * n \in Nat \ {0}  OBVIOUS
  <2> QED BY <2>1, <2>2
<1>9. Table!Doubled(n, c) = D[2 * n]  BY DEF Table!Doubled
<1> QED BY <1>8, <1>9
-----------------------------------------------------------------------------
(* The tables of producers.                                                *)

Keys == Threads \cup {Table!Invalid, Table!Reusable}
ATable == UNION {[0..(n-1) -> [key: Keys, value: 0..MaxProducers]] : n \in Nat \ {0}}
Adding == {"count", "flag", "wait", "resize", "unflag", "fail", "recycle", "enter"}

TableTypes ==
    /\ tables \in Seq(ATable) /\ Len(tables) >= 1
    /\ hashCount \in Int
    /\ resizing \in BOOLEAN
    /\ created \in 0..MaxProducers
    /\ inactive \in [Producers -> BOOLEAN]
    /\ step \in [Threads -> {"out", "search", "remove", "retire"} \cup Adding]
    /\ main \in [Threads -> Nat]
    /\ \A t \in Threads : step[t] \in {"search", "remove"} \cup Adding => main[t] \in 1..Len(tables)
    /\ newCount \in [Threads -> Int]
    /\ mine \in [Threads -> 0..MaxProducers]

\* A thread's key is where a search from its own slot gets to, and there only.
InPlace(T, t, i) ==
    LET C == Cardinality(DOMAIN T) IN
    /\ \E k \in 0..(C-1) : /\ i = (Hash[t] + k) % C
                           /\ \A j \in 0..(k-1) : T[(Hash[t] + j) % C].key # Table!Invalid
    /\ \A j \in DOMAIN T : T[j].key = t => j = i
Sound(T) == \A t \in Threads : \A i \in DOMAIN T : T[i].key = t => InPlace(T, t, i)
SoundInv == \A h \in 1..Len(tables) : Sound(tables[h])

\* A thread's entries name the producer that it has.
ValueInv == \A h \in 1..Len(tables) : \A i \in DOMAIN tables[h] : \A t \in Threads :
              tables[h][i].key = t => tables[h][i].value = mine[t] /\ mine[t] # Table!NoProducer

\* Tables without an entry of t: those that came after t loaded the newest one,
\* all of them when its search has failed, those from which it was removed.
Lacks(t, h) == \A i \in DOMAIN tables[h] : tables[h][i].key # t
LacksInv ==
    \A t \in Threads : \A h \in 1..Len(tables) :
      \/ step[t] \in {"search", "remove"} /\ h > main[t]
      \/ step[t] \in Adding \cup {"retire"}
      => Lacks(t, h)

\* Whom a producer belongs to.
MineInv ==
    /\ OneWriter
    /\ \A t \in Threads : mine[t] # Table!NoProducer => mine[t] <= created /\ ~inactive[mine[t]]
    /\ \A p \in Producers : inactive[p] => p <= created
    /\ \A t \in Threads : step[t] \in {"enter", "remove", "retire"} => mine[t] # Table!NoProducer

TableInv == TableTypes /\ SoundInv /\ ValueInv /\ LacksInv /\ MineInv

\* The instance counts as this module does.
LEMMA SameCardinality == \A S : Table!Cardinality(S) = Cardinality(S)
BY DEF Table!Cardinality, Cardinality

\* A table's capacity and its slots.
LEMMA TableShape ==
    ASSUME NEW T \in ATable
    PROVE  LET C == Cardinality(DOMAIN T) IN
           /\ C \in Nat \ {0} /\ DOMAIN T = 0..(C-1)
           /\ T \in [0..(C-1) -> [key: Keys, value: 0..MaxProducers]]
<1>1. PICK n \in Nat \ {0} : T \in [0..(n-1) -> [key: Keys, value: 0..MaxProducers]]
  BY DEF ATable
<1>2. 0 \in Int /\ n - 1 \in Int /\ (n - 1) - 0 + 1 = n /\ ~(0 > n - 1)  OBVIOUS
<1>3. Cardinality(0..(n-1)) = n  BY <1>2, FS_Interval
<1>4. DOMAIN T = 0..(n-1)  BY <1>1
<1> QED BY <1>1, <1>3, <1>4

\* A thread's slots are slots of the table.
LEMMA SlotIn == ASSUME NEW C \in Nat \ {0}, NEW t \in Threads, NEW k \in Nat
                PROVE  (Hash[t] + k) % C \in 0..(C-1)
BY QueueAssumption

\* What a probe returns: the capacity, or the first slot with such a key.
LEMMA ProbeFinds ==
    ASSUME NEW t \in Threads, NEW h, tables[h] \in ATable, NEW keys
    PROVE  LET T == tables[h]  C == Cardinality(DOMAIN T)  i == Table!Probe(h, t, keys) IN
           \/ i = C /\ \A k \in 0..(C-1) : T[(Hash[t] + k) % C].key \notin keys
           \/ \E k \in 0..(C-1) :
                /\ i = (Hash[t] + k) % C /\ i \in DOMAIN T /\ i # C /\ T[i].key \in keys
                /\ \A j \in 0..(k-1) : T[(Hash[t] + j) % C].key \notin keys
<1> DEFINE T == tables[h]
           C == Cardinality(DOMAIN T)
           hits == {k \in 0..(C - 1) : T[(Hash[t] + k) % C].key \in keys}
           m == CHOOSE k \in hits : \A j \in hits : k <= j
<1>1. C \in Nat \ {0} /\ DOMAIN T = 0..(C-1)  BY TableShape
<1>2. Table!Probe(h, t, keys) = IF hits = {} THEN C ELSE (Hash[t] + m) % C
  <2> DEFINE H == {k \in 0..(Table!Capacity(h) - 1) : tables[h][Table!Slot(h, t, k)].key \in keys}
  <2>1. Table!Capacity(h) = C  BY SameCardinality DEF Table!Capacity
  <2>2. \A k : Table!Slot(h, t, k) = (Hash[t] + k) % C  BY <2>1 DEF Table!Slot
  <2>3. H = hits  BY <2>1, <2>2
  <2>4. Table!Probe(h, t, keys) = IF H = {} THEN Table!Capacity(h)
          ELSE Table!Slot(h, t, CHOOSE k \in H : \A j \in H : k <= j)
    BY DEF Table!Probe
  <2> HIDE DEF H, hits, C
  <2> QED BY <2>1, <2>2, <2>3, <2>4
<1>3. CASE hits = {}
  <2>1. \A k \in 0..(C-1) : T[(Hash[t] + k) % C].key \notin keys  BY <1>3
  <2> QED BY <1>2, <1>3, <2>1
<1>4. CASE hits # {}
  <2>1. hits \in SUBSET Nat  BY <1>1
  <2>2. m \in hits /\ \A j \in hits : m <= j
    <3> HIDE DEF hits
    <3>1. \E k \in hits : \A j \in hits : k <= j  BY <1>4, <2>1, LeastNat
    <3> QED BY <3>1
  <2> HIDE DEF m
  <2>3. m \in 0..(C-1) /\ T[(Hash[t] + m) % C].key \in keys  BY <2>2
  <2>4. (Hash[t] + m) % C \in 0..(C-1)  BY <1>1, <2>3, SlotIn
  <2>5. \A j \in 0..(m-1) : j \in 0..(C-1) /\ ~(m <= j)  BY <1>1, <2>3
  <2>6. \A j \in 0..(m-1) : T[(Hash[t] + j) % C].key \notin keys
    BY <2>2, <2>5
  <2>7. Table!Probe(h, t, keys) = (Hash[t] + m) % C  BY <1>2, <1>4 DEF m
  <2>8. (Hash[t] + m) % C # C  BY <2>4, <1>1
  <2> QED BY <1>1, <2>3, <2>4, <2>6, <2>7, <2>8
<1> QED BY <1>3, <1>4

\* A table in which a search fails does not have the thread's key.
LEMMA MissLacks ==
    ASSUME NEW t \in Threads, NEW h, tables[h] \in ATable, Sound(tables[h]), ~Table!FoundIn(h, t)
    PROVE  Lacks(t, h)
<1> SUFFICES ASSUME NEW i \in DOMAIN tables[h], tables[h][i].key = t  PROVE FALSE
  BY DEF Lacks
<1> DEFINE T == tables[h]
           C == Cardinality(DOMAIN T)
           p == Table!Probe(h, t, {t, Table!Invalid})
<1>1. C \in Nat \ {0} /\ DOMAIN T = 0..(C-1)  BY TableShape
<1>2. PICK k \in 0..(C-1) : /\ i = (Hash[t] + k) % C
                            /\ \A j \in 0..(k-1) : T[(Hash[t] + j) % C].key # Table!Invalid
  BY DEF Sound, InPlace
<1>3. ~(p # C /\ T[p].key = t)  BY SameCardinality DEF Table!FoundIn, Table!Capacity
<1>4. ~(\A l \in 0..(C-1) : T[(Hash[t] + l) % C].key \notin {t, Table!Invalid})
  BY <1>2
<1>5. PICK l \in 0..(C-1) :
        /\ p = (Hash[t] + l) % C /\ p # C /\ T[p].key \in {t, Table!Invalid}
        /\ \A j \in 0..(l-1) : T[(Hash[t] + j) % C].key \notin {t, Table!Invalid}
  <2> HIDE DEF p, C, T
  <2>1. \/ p = C /\ \A j \in 0..(C-1) : T[(Hash[t] + j) % C].key \notin {t, Table!Invalid}
        \/ \E l \in 0..(C-1) :
             /\ p = (Hash[t] + l) % C /\ p \in DOMAIN T /\ p # C /\ T[p].key \in {t, Table!Invalid}
             /\ \A j \in 0..(l-1) : T[(Hash[t] + j) % C].key \notin {t, Table!Invalid}
    BY ProbeFinds DEF p, C, T
  <2> QED BY <2>1, <1>4
<1>6. T[p].key = Table!Invalid  BY <1>3, <1>5
<1>7. ~(l < k)  BY <1>2, <1>5, <1>6, <1>1
<1>8. ~(k < l)  BY <1>2, <1>5, <1>1
<1>9. l = k  BY <1>7, <1>8, <1>1
<1>10. T[p].key = t  BY <1>9, <1>5, <1>2
<1> QED BY <1>10, <1>3, <1>5

\* t's key and value put into the first free slot of a table that lacks t.
LEMMA EnterKeeps ==
    ASSUME NEW t \in Threads, NEW h \in 1..Len(tables), TableTypes, SoundInv, Lacks(t, h),
           NEW p \in 1..MaxProducers, Table!Enter(h, t, p)
    PROVE  \E i \in DOMAIN tables[h] :
             /\ tables[h][i].key \notin Threads
             /\ tables' = [tables EXCEPT ![h] = [@ EXCEPT ![i] = [key |-> t, value |-> p]]]
             /\ tables' \in Seq(ATable) /\ Len(tables') = Len(tables)
             /\ \A g \in 1..Len(tables) : DOMAIN tables'[g] = DOMAIN tables[g]
             /\ SoundInv'
<1> DEFINE T == tables[h]
           C == Cardinality(DOMAIN T)
           i == Table!Probe(h, t, {Table!Invalid, Table!Reusable})
           U == [T EXCEPT ![i] = [key |-> t, value |-> p]]
<1>0. T \in ATable  BY DEF TableTypes
<1>1. /\ C \in Nat \ {0} /\ DOMAIN T = 0..(C-1)
      /\ T \in [0..(C-1) -> [key: Keys, value: 0..MaxProducers]]
  BY <1>0, TableShape
<1>2. i # C /\ tables' = [tables EXCEPT ![h][i] = [key |-> t, value |-> p]]
  BY SameCardinality DEF Table!Enter, Table!Capacity
<1>3. PICK k \in 0..(C-1) :
        /\ i = (Hash[t] + k) % C /\ i \in DOMAIN T
        /\ T[i].key \in {Table!Invalid, Table!Reusable}
        /\ \A j \in 0..(k-1) : T[(Hash[t] + j) % C].key \notin {Table!Invalid, Table!Reusable}
  <2> HIDE DEF i, C, T
  <2>1. \/ i = C /\ \A j \in 0..(C-1) : T[(Hash[t] + j) % C].key \notin {Table!Invalid, Table!Reusable}
        \/ \E l \in 0..(C-1) :
             /\ i = (Hash[t] + l) % C /\ i \in DOMAIN T /\ i # C /\ T[i].key \in {Table!Invalid, Table!Reusable}
             /\ \A j \in 0..(l-1) : T[(Hash[t] + j) % C].key \notin {Table!Invalid, Table!Reusable}
    BY ProbeFinds, <1>0 DEF i, C, T
  <2> QED BY <2>1, <1>2
<1> HIDE DEF i
<1>4. T[i].key \notin Threads  BY <1>3, QueueAssumption DEF Table!Invalid, Table!Reusable
<1>5. tables' = [tables EXCEPT ![h] = U]  BY <1>2
<1>6. U \in [0..(C-1) -> [key: Keys, value: 0..MaxProducers]] /\ DOMAIN U = DOMAIN T
  BY <1>1, <1>3 DEF Keys
<1>7. U \in ATable  BY <1>1, <1>6 DEF ATable
<1>8. Sound(U)
  <2> SUFFICES ASSUME NEW u \in Threads, NEW j \in DOMAIN T, U[j].key = u
               PROVE  InPlace(U, u, j)
    BY <1>6 DEF Sound
  <2>0. \A l \in Nat : (Hash[u] + l) % C \in DOMAIN T  BY <1>1, SlotIn
  <2>1. CASE u = t
    <3>1. j = i  BY <2>1, <1>1, <1>3, <1>6 DEF Lacks
    <3>2. \A l \in 0..(k-1) : U[(Hash[t] + l) % C].key # Table!Invalid
      <4> SUFFICES ASSUME NEW l \in 0..(k-1)  PROVE U[(Hash[t] + l) % C].key # Table!Invalid
        OBVIOUS
      <4>0. l \in Nat  BY <1>1
      <4>1. (Hash[t] + l) % C \in DOMAIN T  BY <2>0, <2>1, <4>0
      <4>2. T[(Hash[t] + l) % C].key # Table!Invalid  BY <1>3
      <4>3. Table!Invalid \notin Threads  BY QueueAssumption DEF Table!Invalid
      <4> QED BY <4>1, <4>2, <4>3, <1>1, <1>6
    <3>3. \A l \in DOMAIN U : U[l].key = t => l = i  BY <1>1, <1>3, <1>6 DEF Lacks
    <3> QED BY <3>1, <3>2, <3>3, <1>3, <1>6, <2>1 DEF InPlace
  <2>2. CASE u # t
    <3>1. j # i /\ T[j].key = u  BY <2>2, <1>1, <1>3
    <3>2. InPlace(T, u, j)  BY <3>1 DEF SoundInv, Sound
    <3>3. PICK m \in 0..(C-1) :
            /\ j = (Hash[u] + m) % C
            /\ \A l \in 0..(m-1) : T[(Hash[u] + l) % C].key # Table!Invalid
      BY <3>2 DEF InPlace
    <3>4. \A l \in 0..(m-1) : U[(Hash[u] + l) % C].key # Table!Invalid
      <4> SUFFICES ASSUME NEW l \in 0..(m-1)  PROVE U[(Hash[u] + l) % C].key # Table!Invalid
        OBVIOUS
      <4>0. l \in Nat  BY <1>1
      <4>1. (Hash[u] + l) % C \in DOMAIN T  BY <2>0, <4>0
      <4>2. T[(Hash[u] + l) % C].key # Table!Invalid  BY <3>3
      <4>3. Table!Invalid \notin Threads  BY QueueAssumption DEF Table!Invalid
      <4> QED BY <4>1, <4>2, <4>3, <1>1, <1>6
    <3>5. \A l \in DOMAIN U : U[l].key = u => l = j
      BY <2>2, <3>2, <1>1, <1>3, <1>6 DEF InPlace
    <3> QED BY <3>3, <3>4, <3>5, <1>6 DEF InPlace
  <2> QED BY <2>1, <2>2
<1> HIDE DEF U, T
<1>9. tables' \in Seq(ATable) /\ Len(tables') = Len(tables)
  BY <1>5, <1>7 DEF TableTypes
<1>10. \A g \in 1..Len(tables) : tables'[g] = IF g = h THEN U ELSE tables[g]
  BY <1>5 DEF TableTypes
<1>11. \A g \in 1..Len(tables) : DOMAIN tables'[g] = DOMAIN tables[g]  BY <1>10, <1>6 DEF T
<1>12. SoundInv'
  <2> SUFFICES ASSUME NEW g \in 1..Len(tables)  PROVE Sound(tables'[g])
    BY <1>9 DEF SoundInv, Sound, InPlace
  <2> QED BY <1>10, <1>8 DEF SoundInv
<1>13. tables' = [tables EXCEPT ![h] = [@ EXCEPT ![i] = [key |-> t, value |-> p]]]
  BY <1>5 DEF U, T
<1> QED BY <1>3, <1>4, <1>9, <1>11, <1>12, <1>13 DEF T

\* The tables that t can see are typed.
LEMMA TableAt == ASSUME TableTypes, NEW h \in 1..Len(tables)
                 PROVE  tables[h] \in ATable /\ Len(tables) \in Nat
BY DEF TableTypes

\* One lemma for each step that leaves the tables alone.
LEMMA SoundSame == ASSUME SoundInv, tables' = tables  PROVE SoundInv'
BY DEF SoundInv, Sound, InPlace

LEMMA CallKeepsTable == ASSUME TableInv, NEW t \in Threads, Table!Call(t)  PROVE TableInv'
<1> USE DEF TableInv
<1>1. TableTypes'  BY DEF Table!Call, Table!GoOn, Table!shared, TableTypes, Adding
<1>2. SoundInv'  BY DEF Table!Call, Table!shared, SoundInv, Sound, InPlace
<1>3. ValueInv'  BY DEF Table!Call, Table!shared, ValueInv
<1>4. LacksInv'
  BY DEF Table!Call, Table!GoOn, Table!shared, LacksInv, Lacks, TableTypes, Adding
<1>5. MineInv'
  BY DEF Table!Call, Table!GoOn, Table!shared, MineInv, OneWriter, TableTypes
<1> QED BY <1>1, <1>2, <1>3, <1>4, <1>5

LEMMA CountKeepsTable == ASSUME TableInv, NEW t \in Threads, Table!Count(t)  PROVE TableInv'
<1> USE DEF TableInv
<1>1. TableTypes'  BY DEF Table!Count, Table!GoOn, TableTypes, Adding
<1>2. SoundInv'  BY DEF Table!Count, SoundInv, Sound, InPlace
<1>3. ValueInv'  BY DEF Table!Count, ValueInv
<1>4. LacksInv'  BY DEF Table!Count, Table!GoOn, LacksInv, Lacks, TableTypes, Adding
<1>5. MineInv'  BY DEF Table!Count, Table!GoOn, MineInv, OneWriter, TableTypes
<1> QED BY <1>1, <1>2, <1>3, <1>4, <1>5

LEMMA TakeFlagKeepsTable ==
    ASSUME TableInv, NEW t \in Threads, Table!TakeFlag(t)  PROVE TableInv'
<1> USE DEF TableInv
<1>0. step[t] = "flag" /\ \E l \in {"resize", "recycle", "wait"} : step' = [step EXCEPT ![t] = l]
  BY DEF Table!TakeFlag, Table!Proceed, Table!GoOn
<1>1. TableTypes'  BY <1>0 DEF Table!TakeFlag, TableTypes, Adding
<1>2. SoundInv'  BY DEF Table!TakeFlag, SoundInv, Sound, InPlace
<1>3. ValueInv'  BY DEF Table!TakeFlag, ValueInv
<1>4. LacksInv'  BY <1>0 DEF Table!TakeFlag, LacksInv, Lacks, TableTypes, Adding
<1>5. MineInv'  BY <1>0 DEF Table!TakeFlag, MineInv, OneWriter, TableTypes
<1> QED BY <1>1, <1>2, <1>3, <1>4, <1>5

LEMMA WaitKeepsTable == ASSUME TableInv, NEW t \in Threads, Table!Wait(t)  PROVE TableInv'
<1> USE DEF TableInv
<1>1. TableTypes'  BY DEF Table!Wait, Table!GoOn, Table!shared, TableTypes, Adding
<1>2. SoundInv'  BY DEF Table!Wait, Table!shared, SoundInv, Sound, InPlace
<1>3. ValueInv'  BY DEF Table!Wait, Table!shared, ValueInv
<1>4. LacksInv'
  BY DEF Table!Wait, Table!GoOn, Table!shared, LacksInv, Lacks, TableTypes, Adding
<1>5. MineInv'
  BY DEF Table!Wait, Table!GoOn, Table!shared, MineInv, OneWriter, TableTypes
<1> QED BY <1>1, <1>2, <1>3, <1>4, <1>5

LEMMA ClearFlagKeepsTable ==
    ASSUME TableInv, NEW t \in Threads, Table!ClearFlag(t)  PROVE TableInv'
<1> USE DEF TableInv
<1>0. step[t] = "unflag" /\ \E l \in {"recycle", "wait"} : step' = [step EXCEPT ![t] = l]
  BY DEF Table!ClearFlag, Table!Proceed, Table!GoOn
<1>1. TableTypes'  BY <1>0 DEF Table!ClearFlag, TableTypes, Adding
<1>2. SoundInv'  BY DEF Table!ClearFlag, SoundInv, Sound, InPlace
<1>3. ValueInv'  BY DEF Table!ClearFlag, ValueInv
<1>4. LacksInv'  BY <1>0 DEF Table!ClearFlag, LacksInv, Lacks, TableTypes, Adding
<1>5. MineInv'  BY <1>0 DEF Table!ClearFlag, MineInv, OneWriter, TableTypes
<1> QED BY <1>1, <1>2, <1>3, <1>4, <1>5

LEMMA FailResizeKeepsTable ==
    ASSUME TableInv, NEW t \in Threads, Table!FailResize(t)  PROVE TableInv'
<1> USE DEF TableInv
<1>0. /\ step[t] = "fail" /\ step' = [step EXCEPT ![t] = "out"]
      /\ mine' = [mine EXCEPT ![t] = 0] /\ tables' = tables
  BY DEF Table!FailResize, Table!Result, Table!GoOn, Table!NoProducer
<1>1. TableTypes'
  <2>1. 0 \in 0..MaxProducers  BY QueueAssumption
  <2>2. mine' \in [Threads -> 0..MaxProducers]  BY <1>0, <2>1 DEF TableTypes
  <2>3. hashCount' \in Int
    <3>1. hashCount' = hashCount - 1 /\ hashCount \in Int  BY DEF Table!FailResize, TableTypes
    <3> QED BY <3>1
  <2>4. /\ step' \in [Threads -> {"out", "search", "remove", "retire"} \cup Adding]
        /\ \A u \in Threads : step'[u] \in {"search", "remove"} \cup Adding =>
                              main[u] \in 1..Len(tables)
    BY <1>0 DEF TableTypes, Adding
  <2>5. resizing' \in BOOLEAN  BY DEF Table!FailResize
  <2> QED BY <1>0, <2>2, <2>3, <2>4, <2>5 DEF Table!FailResize, TableTypes
<1>2. SoundInv'  BY <1>0, SoundSame
<1>3. ValueInv'
  <2> SUFFICES ASSUME NEW h \in 1..Len(tables), NEW i \in DOMAIN tables[h], NEW u \in Threads,
                      tables[h][i].key = u
               PROVE  tables[h][i].value = mine'[u] /\ mine'[u] # 0
    BY <1>0 DEF ValueInv, Table!NoProducer
  <2>1. u # t  BY <1>0 DEF LacksInv, Lacks, Adding
  <2>2. mine'[u] = mine[u]  BY <2>1, <1>0 DEF TableTypes
  <2> QED BY <2>2 DEF ValueInv, Table!NoProducer
<1>4. LacksInv'  BY <1>0 DEF Table!FailResize, LacksInv, Lacks, TableTypes, Adding
<1>5. MineInv'
  BY <1>0 DEF Table!FailResize, Table!NoProducer, MineInv, OneWriter, TableTypes
<1> QED BY <1>1, <1>2, <1>3, <1>4, <1>5

LEMMA ExitKeepsTable == ASSUME TableInv, NEW t \in Threads, Table!Exit(t)  PROVE TableInv'
<1> USE DEF TableInv
<1>1. TableTypes'  BY DEF Table!Exit, Table!GoOn, Table!shared, TableTypes, Adding
<1>2. SoundInv'  BY DEF Table!Exit, Table!shared, SoundInv, Sound, InPlace
<1>3. ValueInv'  BY DEF Table!Exit, Table!shared, ValueInv
<1>4. LacksInv'
  BY DEF Table!Exit, Table!GoOn, Table!shared, LacksInv, Lacks, TableTypes, Adding
<1>5. MineInv'
  BY DEF Table!Exit, Table!GoOn, Table!shared, MineInv, OneWriter, TableTypes
<1> QED BY <1>1, <1>2, <1>3, <1>4, <1>5

\* No entry names t while t takes a producer, nor while t leaves it.
LEMMA RecycleKeepsTable ==
    ASSUME TableInv, NEW t \in Threads, Table!Recycle(t)  PROVE TableInv'
<1> USE DEF TableInv, Table!NoProducer
<1>0. /\ step[t] = "recycle" /\ tables' = tables
      /\ UNCHANGED <<resizing, main, newCount>>
  BY DEF Table!Recycle
<1>1. \/ \E p \in 1..created : /\ inactive[p]
                               /\ inactive' = [inactive EXCEPT ![p] = FALSE]
                               /\ mine' = [mine EXCEPT ![t] = p]
                               /\ step' = [step EXCEPT ![t] = "enter"]
                               /\ UNCHANGED <<created, hashCount>>
      \/ /\ created < MaxProducers /\ created' = created + 1
         /\ mine' = [mine EXCEPT ![t] = created + 1]
         /\ step' = [step EXCEPT ![t] = "enter"]
         /\ UNCHANGED <<inactive, hashCount>>
      \/ /\ hashCount' = hashCount - 1
         /\ mine' = [mine EXCEPT ![t] = 0]
         /\ step' = [step EXCEPT ![t] = "out"]
         /\ UNCHANGED <<inactive, created>>
  BY DEF Table!Recycle, Table!Result, Table!GoOn
<1>2. /\ mine' = [mine EXCEPT ![t] = mine'[t]]
      /\ step' = [step EXCEPT ![t] = step'[t]] /\ step'[t] \in {"enter", "out"}
  BY <1>1 DEF TableTypes
<1>3. TableTypes'
  <2>0. created \in Nat /\ MaxProducers \in Nat  BY QueueAssumption DEF TableTypes
  <2>1. 0 \in 0..MaxProducers /\ (created < MaxProducers => created + 1 \in 0..MaxProducers)
        /\ \A p \in 1..created : p \in 0..MaxProducers
    BY <2>0 DEF TableTypes
  <2>2. created' \in 0..MaxProducers /\ mine'[t] \in 0..MaxProducers
    BY <1>1, <2>1 DEF TableTypes
  <2>3. mine' \in [Threads -> 0..MaxProducers]  BY <1>2, <2>2 DEF TableTypes
  <2>4. inactive' \in [Producers -> BOOLEAN]  BY <1>1 DEF TableTypes
  <2>5. hashCount' \in Int  BY <1>1 DEF TableTypes
  <2>6. step' \in [Threads -> {"out", "search", "remove", "retire"} \cup Adding]
    BY <1>2 DEF TableTypes, Adding
  <2>7. \A u \in Threads : step'[u] \in {"search", "remove"} \cup Adding =>
                            main[u] \in 1..Len(tables)
    BY <1>0, <1>2 DEF TableTypes, Adding
  <2> QED BY <1>0, <2>2, <2>3, <2>4, <2>5, <2>6, <2>7 DEF TableTypes
<1>4. SoundInv'  BY <1>0 DEF SoundInv, Sound, InPlace
<1>5. ValueInv'
  <2> SUFFICES ASSUME NEW h \in 1..Len(tables), NEW i \in DOMAIN tables[h], NEW u \in Threads,
                      tables[h][i].key = u
               PROVE  tables[h][i].value = mine'[u] /\ mine'[u] # 0
    BY <1>0 DEF ValueInv
  <2>1. u # t  BY <1>0 DEF LacksInv, Lacks, Adding
  <2>2. mine'[u] = mine[u]  BY <2>1, <1>2 DEF TableTypes
  <2> QED BY <2>2 DEF ValueInv
<1>6. LacksInv'  BY <1>0, <1>2 DEF LacksInv, Lacks, TableTypes, Adding
<1>7. MineInv'
  <2>0. created \in Nat /\ MaxProducers \in Nat  BY QueueAssumption DEF TableTypes
  <2>1. \A u \in Threads : u # t => mine'[u] = mine[u] /\ step'[u] = step[u]
    BY <1>2 DEF TableTypes
  <2>2. CASE \E p \in 1..created : /\ inactive[p]
                               /\ inactive' = [inactive EXCEPT ![p] = FALSE]
                               /\ mine' = [mine EXCEPT ![t] = p]
                               /\ step' = [step EXCEPT ![t] = "enter"]
                               /\ UNCHANGED <<created, hashCount>>
    <3>1. PICK p \in 1..created : /\ inactive[p]
                               /\ inactive' = [inactive EXCEPT ![p] = FALSE]
                               /\ mine' = [mine EXCEPT ![t] = p]
                               /\ step' = [step EXCEPT ![t] = "enter"]
                               /\ UNCHANGED <<created, hashCount>>
      BY <2>2
    <3>2. p \in Producers  BY <2>0 DEF TableTypes, Producers, Table!Producers
    <3>3. mine'[t] = p /\ ~inactive'[p] /\ p # 0 /\ p <= created /\ created' = created
      BY <3>1, <3>2 DEF TableTypes
    <3>4. \A u \in Threads : u # t => mine[u] # p  BY <3>1, <3>3 DEF MineInv
    <3>5. \A q : ~inactive[q] => ~inactive'[q]  BY <3>1, <3>2 DEF TableTypes
    <3>6. \A q \in Producers : inactive'[q] => inactive[q]  BY <3>1, <3>2 DEF TableTypes
    <3> QED BY <2>1, <3>3, <3>4, <3>5, <3>6, <1>0 DEF MineInv, OneWriter
  <2>3. CASE /\ created < MaxProducers /\ created' = created + 1
             /\ mine' = [mine EXCEPT ![t] = created + 1]
             /\ step' = [step EXCEPT ![t] = "enter"]
             /\ UNCHANGED <<inactive, hashCount>>
    <3>1. mine'[t] = created + 1 /\ created + 1 # 0  BY <2>3, <2>0 DEF TableTypes
    <3>2. \A u \in Threads : mine[u] # created + 1  BY <2>0 DEF MineInv, TableTypes
    <3>3. \A u \in Threads : mine[u] \in Nat /\ (mine[u] <= created => mine[u] <= created')
      BY <2>0, <2>3 DEF TableTypes
    <3>4. ~inactive[created + 1]
      <4>1. created + 1 \in Producers  BY <2>3, <2>0 DEF TableTypes, Producers, Table!Producers
      <4> QED BY <4>1, <2>0 DEF MineInv
    <3>5. OneWriter'  BY <2>1, <3>1, <3>2 DEF MineInv, OneWriter
    <3>6. \A u \in Threads : mine'[u] # 0 => mine'[u] <= created' /\ ~inactive'[mine'[u]]
      <4> SUFFICES ASSUME NEW u \in Threads, mine'[u] # 0
                   PROVE  mine'[u] <= created' /\ ~inactive'[mine'[u]]
        OBVIOUS
      <4>1. CASE u = t  BY <4>1, <3>1, <3>4, <2>3, <2>0
      <4>2. CASE u # t  BY <4>2, <2>1, <3>3, <2>3 DEF MineInv
      <4> QED BY <4>1, <4>2
    <3>7. \A p \in Producers : inactive'[p] => p <= created'
      <4>1. \A p \in Producers : p \in Nat  BY DEF Producers, Table!Producers
      <4> QED BY <4>1, <2>0, <2>3 DEF MineInv
    <3>8. \A u \in Threads : step'[u] \in {"enter", "remove", "retire"} => mine'[u] # 0
      BY <2>1, <3>1 DEF MineInv
    <3> QED BY <3>5, <3>6, <3>7, <3>8 DEF MineInv
  <2>4. CASE /\ hashCount' = hashCount - 1
             /\ mine' = [mine EXCEPT ![t] = 0]
             /\ step' = [step EXCEPT ![t] = "out"]
             /\ UNCHANGED <<inactive, created>>
    BY <2>1, <2>4 DEF MineInv, OneWriter, TableTypes
  <2> QED BY <1>1, <2>2, <2>3, <2>4
<1> QED BY <1>3, <1>4, <1>5, <1>6, <1>7
\* Search finds t's own producer, and enters it in the newest table if that
\* lacks t; when it fails no table has t.
LEMMA SearchKeepsTable ==
    ASSUME TableInv, NEW t \in Threads, Table!Search(t)  PROVE TableInv' /\ mine' = mine
<1> USE DEF TableInv, Table!NoProducer
<1>0. /\ step[t] = "search" /\ UNCHANGED <<hashCount, resizing, created, inactive, main, newCount>>
      /\ main[t] \in 1..Len(tables)
  BY DEF Table!Search, TableTypes
<1>1. CASE Table!Places(t) # {}
  <2> DEFINE h == CHOOSE g \in Table!Places(t) : \A f \in Table!Places(t) : f <= g
             p == tables[h][Table!Probe(h, t, {t, Table!Invalid})].value
  <2>1. /\ step' = [step EXCEPT ![t] = "out"] /\ mine' = [mine EXCEPT ![t] = p]
        /\ IF h = main[t] THEN UNCHANGED tables ELSE Table!Enter(main[t], t, p)
    BY <1>1 DEF Table!Search, Table!Result, Table!GoOn
  <2>2. h \in Table!Places(t) /\ \A f \in Table!Places(t) : f <= h
    <3> DEFINE P == Table!Places(t)
               N == main[t]
               T == {n \in Nat : \E f \in P : f + n = N}
    <3>1. N \in Nat /\ P \subseteq 1..N  BY <1>0 DEF Table!Places, TableTypes
    <3>2. T # {}
      <4>1. PICK f \in P : TRUE  BY <1>1
      <4>2. N - f \in Nat /\ f + (N - f) = N  BY <3>1, <4>1
      <4> QED BY <4>2
    <3>3. PICK n \in T : \A m \in T : n <= m
      <4> T \in SUBSET Nat  OBVIOUS
      <4> HIDE DEF T
      <4> QED BY <3>2, LeastNat
    <3>4. PICK g \in P : g + n = N  BY <3>3
    <3>5. \A f \in P : f <= g
      <4> SUFFICES ASSUME NEW f \in P  PROVE f <= g  OBVIOUS
      <4>1. N - f \in Nat /\ f + (N - f) = N  BY <3>1
      <4>2. N - f \in T  BY <4>1
      <4>3. n <= N - f  BY <4>2, <3>3
      <4> QED BY <4>3, <3>4, <3>1, <3>3
    <3> HIDE DEF P
    <3>6. \E x \in P : \A f \in P : f <= x  BY <3>5
    <3> QED BY <3>6 DEF P
  <2> HIDE DEF h
  <2>3. h \in 1..main[t] /\ Table!FoundIn(h, t) /\ h \in 1..Len(tables)
    BY <2>2, <1>0 DEF Table!Places, TableTypes
  <2>4. p = mine[t] /\ mine[t] # 0
    <3> DEFINE i == Table!Probe(h, t, {t, Table!Invalid})
               C == Cardinality(DOMAIN tables[h])
    <3>1. i # C /\ tables[h][i].key = t
      BY <2>3, SameCardinality DEF Table!FoundIn, Table!Capacity
    <3>2. tables[h] \in ATable  BY <2>3, TableAt
    <3>3. i \in DOMAIN tables[h]
      <4> HIDE DEF i, C
      <4>1. \/ i = C
            \/ \E k \in 0..(C-1) : i \in DOMAIN tables[h]
        BY <3>2, ProbeFinds DEF i, C
      <4> QED BY <4>1, <3>1
    <3> HIDE DEF i
    <3> QED BY <3>1, <3>3, <2>3 DEF ValueInv, i
  <2> HIDE DEF p
  <2>5. mine' = mine  BY <2>1, <2>4 DEF TableTypes
  <2>6. MineInv'  BY <1>0, <2>1, <2>5 DEF MineInv, OneWriter, TableTypes
  <2>7. \A u \in Threads : u # t => step'[u] = step[u]  BY <2>1 DEF TableTypes
  <2>8. step'[t] = "out"  BY <2>1 DEF TableTypes
  <2>9. CASE h = main[t]
    <3>1. tables' = tables  BY <2>1, <2>9
    <3>2. TableTypes'  BY <3>1, <1>0, <2>1, <2>5 DEF TableTypes, Adding
    <3>3. SoundInv'  BY <3>1 DEF SoundInv, Sound, InPlace
    <3>4. ValueInv'  BY <3>1, <2>5 DEF ValueInv
    <3>5. LacksInv'  BY <3>1, <1>0, <2>7, <2>8 DEF LacksInv, Lacks, Adding
    <3> QED BY <3>2, <3>3, <3>4, <3>5, <2>5, <2>6
  <2>10. CASE h # main[t]
    <3> DEFINE g == main[t]
    <3>1. Table!Enter(g, t, p)  BY <2>1, <2>10
    <3>2. ~Table!FoundIn(g, t)
      <4>1. Table!FoundIn(g, t) => g \in Table!Places(t)  BY <1>0 DEF Table!Places
      <4> QED BY <4>1, <2>2, <2>3, <2>10, <1>0
    <3>3. Lacks(t, g)  BY <3>2, <1>0, TableAt, MissLacks DEF SoundInv
    <3>4. p \in 1..MaxProducers  BY <2>4, QueueAssumption DEF TableTypes
    <3>5. PICK i \in DOMAIN tables[g] :
             /\ tables[g][i].key \notin Threads
             /\ tables' = [tables EXCEPT ![g] = [@ EXCEPT ![i] = [key |-> t, value |-> p]]]
             /\ tables' \in Seq(ATable) /\ Len(tables') = Len(tables)
             /\ \A f \in 1..Len(tables) : DOMAIN tables'[f] = DOMAIN tables[f]
             /\ SoundInv'
      <4> HIDE DEF g
      <4>1. g \in 1..Len(tables)  BY <1>0 DEF g
      <4> QED BY <3>1, <3>3, <3>4, <4>1, EnterKeeps
    <3>6. TableTypes'  BY <3>5, <1>0, <2>1, <2>5 DEF TableTypes, Adding
    <3>7. \A f \in 1..Len(tables) : \A j \in DOMAIN tables[f] :
            tables'[f][j] = IF f = g /\ j = i THEN [key |-> t, value |-> p] ELSE tables[f][j]
      BY <3>5, <1>0 DEF TableTypes
    <3>8. ValueInv'
      <4> SUFFICES ASSUME NEW f \in 1..Len(tables), NEW j \in DOMAIN tables[f], NEW u \in Threads,
                          tables'[f][j].key = u
                   PROVE  tables'[f][j].value = mine[u] /\ mine[u] # 0
        <5>1. mine' = mine  BY <2>5
        <5>2. Len(tables') = Len(tables) /\ \A k \in 1..Len(tables) : DOMAIN tables'[k] = DOMAIN tables[k]
          BY <3>5
        <5> QED BY <5>1, <5>2 DEF ValueInv, Table!NoProducer
      <4>1. CASE f = g /\ j = i  BY <4>1, <3>7, <2>4
      <4>2. CASE ~(f = g /\ j = i)
        <5>1. tables'[f][j] = tables[f][j]  BY <4>2, <3>7
        <5>2. f \in 1..Len(tables) /\ j \in DOMAIN tables[f]  OBVIOUS
        <5> QED BY <5>1, <5>2 DEF ValueInv
      <4> QED BY <4>1, <4>2
    <3>9. LacksInv'
      <4> SUFFICES ASSUME NEW u \in Threads, NEW f \in 1..Len(tables),
                          \/ step'[u] \in {"search", "remove"} /\ f > main[u]
                          \/ step'[u] \in Adding \cup {"retire"},
                          NEW j \in DOMAIN tables[f]
                   PROVE  tables'[f][j].key # u
        BY <3>5, <1>0 DEF LacksInv, Lacks
      <4>1. u # t  BY <2>8 DEF Adding
      <4>2. tables[f][j].key # u  BY <4>1, <2>7 DEF LacksInv, Lacks
      <4> QED BY <4>1, <4>2, <3>7
    <3> QED BY <3>5, <3>6, <3>8, <3>9, <2>5, <2>6
  <2> QED BY <2>9, <2>10
<1>2. CASE Table!Places(t) = {}
  <2>1. step' = [step EXCEPT ![t] = "count"] /\ tables' = tables /\ mine' = mine
    BY <1>2 DEF Table!Search, Table!GoOn
  <2>2. TableTypes'  BY <2>1, <1>0 DEF TableTypes, Adding
  <2>3. SoundInv'  BY <2>1 DEF SoundInv, Sound, InPlace
  <2>4. ValueInv'  BY <2>1 DEF ValueInv
  <2>5. \A h \in 1..Len(tables) : Lacks(t, h)
    <3> SUFFICES ASSUME NEW h \in 1..Len(tables)  PROVE Lacks(t, h)  OBVIOUS
    <3>1. CASE h > main[t]  BY <3>1, <1>0 DEF LacksInv
    <3>2. CASE ~(h > main[t])
      <4>1. h \in 1..main[t]  BY <3>2, <1>0 DEF TableTypes
      <4>2. ~Table!FoundIn(h, t)  BY <4>1, <1>2 DEF Table!Places
      <4> QED BY <4>2, TableAt, MissLacks DEF SoundInv
    <3> QED BY <3>1, <3>2
  <2>6. LacksInv'
    <3> SUFFICES ASSUME NEW u \in Threads, NEW h \in 1..Len(tables),
                        \/ step'[u] \in {"search", "remove"} /\ h > main[u]
                        \/ step'[u] \in Adding \cup {"retire"}
                 PROVE  Lacks(u, h)
      BY <2>1, <1>0 DEF LacksInv, Lacks
    <3>1. CASE u = t  BY <3>1, <2>5
    <3>2. CASE u # t
      <4>1. step'[u] = step[u]  BY <3>2, <2>1 DEF TableTypes
      <4> QED BY <4>1 DEF LacksInv
    <3> QED BY <3>1, <3>2
  <2>7. MineInv'  BY <1>0, <2>1 DEF MineInv, OneWriter, TableTypes
  <2> QED BY <2>1, <2>2, <2>3, <2>4, <2>6, <2>7
<1> QED BY <1>1, <1>2

\* A new table is empty.
LEMMA ResizeKeepsTable ==
    ASSUME TableInv, NEW t \in Threads, Table!Resize(t)  PROVE TableInv'
<1> USE DEF TableInv
<1>0. /\ step[t] = "resize"
      /\ UNCHANGED <<hashCount, resizing, created, inactive, newCount, mine>>
      /\ Len(tables) \in Nat \ {0}
      /\ step' = [step EXCEPT ![t] = step'[t]] /\ step'[t] \in {"unflag", "fail"}
      /\ main' = [main EXCEPT ![t] = main'[t]]
  BY DEF Table!Resize, Table!GoOn, TableTypes
<1>1. MineInv'  BY <1>0 DEF MineInv, OneWriter, TableTypes
<1>2. CASE tables' = tables
  <2>1. main'[t] = Len(tables)  
    BY <1>0, <1>2 DEF Table!Resize, TableTypes
  <2>2. TableTypes'
    <3>1. main' \in [Threads -> Nat]
      <4>1. main \in [Threads -> Nat] /\ Len(tables) \in Nat  BY DEF TableTypes
      <4> QED BY <1>0, <2>1, <4>1
    <3>2. step' \in [Threads -> {"out", "search", "remove", "retire"} \cup Adding]
      BY <1>0 DEF TableTypes, Adding
    <3>3. \A u \in Threads : step'[u] \in {"search", "remove"} \cup Adding =>
                              main'[u] \in 1..Len(tables)
      <4> SUFFICES ASSUME NEW u \in Threads, step'[u] \in {"search", "remove"} \cup Adding
                   PROVE  main'[u] \in 1..Len(tables)
        OBVIOUS
      <4>1. CASE u = t  BY <4>1, <2>1, <1>0
      <4>2. CASE u # t
        <5>1. step'[u] = step[u] /\ main'[u] = main[u]  BY <4>2, <1>0 DEF TableTypes
        <5> QED BY <5>1 DEF TableTypes
      <4> QED BY <4>1, <4>2
    <3> QED BY <1>0, <1>2, <3>1, <3>2, <3>3 DEF TableTypes
  <2>3. SoundInv'  BY <1>2 DEF SoundInv, Sound, InPlace
  <2>4. ValueInv'  BY <1>0, <1>2 DEF ValueInv
  <2>5. LacksInv'  BY <1>0, <1>2 DEF LacksInv, Lacks, TableTypes, Adding
  <2> QED BY <1>1, <2>2, <2>3, <2>4, <2>5
<1>3. CASE tables' # tables
  <2> DEFINE h == Len(tables)
             n == Table!Doubled(Table!Capacity(h), newCount[t])
             E == Table!Empty(n)
  <2>1. tables' = Append(tables, E) /\ main' = [main EXCEPT ![t] = h + 1]
    BY <1>3 DEF Table!Resize
  <2>2. n \in Nat \ {0}
    <3>1. Table!Capacity(h) \in Nat \ {0}
      <4>1. tables[h] \in ATable  BY <1>0, TableAt
      <4> QED BY <4>1, TableShape, SameCardinality DEF Table!Capacity
    <3>2. newCount[t] \in Int  BY DEF TableTypes
    <3> QED BY <3>1, <3>2, DoubledNat
  <2> HIDE DEF n
  <2>3. E = [i \in 0..(n-1) |-> [key |-> Table!Invalid, value |-> 0]]
    BY DEF Table!Empty, Table!NoProducer
  <2>4. E \in ATable
    <3>1. E \in [0..(n-1) -> [key: Keys, value: 0..MaxProducers]]
      BY <2>3, QueueAssumption DEF Keys
    <3> HIDE DEF E
    <3> QED BY <2>2, <3>1 DEF ATable
  <2>5. \A i \in DOMAIN E : \A u \in Threads : E[i].key # u
    BY <2>3, QueueAssumption DEF Table!Invalid
  <2> HIDE DEF E
  <2>6. /\ tables' \in Seq(ATable) /\ Len(tables') = h + 1 /\ tables'[h+1] = E
        /\ \A g \in 1..h : tables'[g] = tables[g]
    BY <2>1, <2>4 DEF TableTypes
  <2>7. \A g \in 1..Len(tables') : g \in 1..h \/ g = h + 1  BY <1>0, <2>6
  <2>8. TableTypes'
    <3>1. \A u \in Threads : step'[u] \in {"search", "remove"} \cup Adding =>
                              main'[u] \in 1..Len(tables')
      <4> SUFFICES ASSUME NEW u \in Threads, step'[u] \in {"search", "remove"} \cup Adding
                   PROVE  main'[u] \in 1..Len(tables')
        OBVIOUS
      <4>1. CASE u = t  BY <4>1, <2>1, <2>6, <1>0 DEF TableTypes
      <4>2. CASE u # t
        <5>1. step'[u] = step[u] /\ main'[u] = main[u]  BY <4>2, <1>0 DEF TableTypes
        <5>2. main[u] \in 1..h  BY <5>1 DEF TableTypes
        <5> QED BY <5>1, <5>2, <2>6, <1>0
      <4> QED BY <4>1, <4>2
    <3>2. main' \in [Threads -> Nat]  BY <2>1, <1>0 DEF TableTypes
    <3>3. step' \in [Threads -> {"out", "search", "remove", "retire"} \cup Adding]
      BY <1>0 DEF TableTypes, Adding
    <3> QED BY <1>0, <2>6, <3>1, <3>2, <3>3 DEF TableTypes
  <2>9. SoundInv'
    <3> SUFFICES ASSUME NEW g \in 1..Len(tables')  PROVE Sound(tables'[g])
      BY DEF SoundInv, Sound, InPlace
    <3>1. CASE g \in 1..h  BY <3>1, <2>6 DEF SoundInv
    <3>2. CASE g = h + 1  BY <3>2, <2>5, <2>6 DEF Sound
    <3> QED BY <3>1, <3>2, <2>7
  <2>10. ValueInv'
    <3> SUFFICES ASSUME NEW g \in 1..Len(tables'), NEW i \in DOMAIN tables'[g], NEW u \in Threads,
                        tables'[g][i].key = u
                 PROVE  tables'[g][i].value = mine[u] /\ mine[u] # Table!NoProducer
      BY <1>0 DEF ValueInv
    <3>1. CASE g \in 1..h  BY <3>1, <2>6 DEF ValueInv
    <3>2. CASE g = h + 1  BY <3>2, <2>5, <2>6
    <3> QED BY <3>1, <3>2, <2>7
  <2>11. LacksInv'
    <3> SUFFICES ASSUME NEW u \in Threads, NEW g \in 1..Len(tables'),
                        \/ step'[u] \in {"search", "remove"} /\ g > main'[u]
                        \/ step'[u] \in Adding \cup {"retire"},
                        NEW i \in DOMAIN tables'[g]
                 PROVE  tables'[g][i].key # u
      BY DEF LacksInv, Lacks
    <3>1. CASE g \in 1..h
      <4>1. CASE u = t  BY <3>1, <4>1, <2>6, <1>0 DEF LacksInv, Lacks, Adding
      <4>2. CASE u # t
        <5>1. step'[u] = step[u] /\ main'[u] = main[u]  BY <4>2, <1>0 DEF TableTypes
        <5> QED BY <5>1, <3>1, <2>6 DEF LacksInv, Lacks
      <4> QED BY <4>1, <4>2
    <3>2. CASE g = h + 1  BY <3>2, <2>5, <2>6
    <3> QED BY <3>1, <3>2, <2>7
  <2> QED BY <1>1, <2>8, <2>9, <2>10, <2>11
<1> QED BY <1>2, <1>3

\* A new entry names the producer that its thread has just taken.
LEMMA EnterNewKeepsTable ==
    ASSUME TableInv, NEW t \in Threads, Table!EnterNew(t)  PROVE TableInv'
<1> USE DEF TableInv, Table!NoProducer
<1> DEFINE g == main[t]
           p == mine[t]
<1>0. /\ step[t] = "enter" /\ step' = [step EXCEPT ![t] = "out"]
      /\ UNCHANGED <<resizing, created, inactive, main, newCount, mine>>
      /\ g \in 1..Len(tables) /\ Table!Enter(g, t, p)
  BY DEF Table!EnterNew, Table!GoOn, TableTypes, Adding
<1>1. Lacks(t, g)  BY <1>0 DEF LacksInv, Adding
<1>2. p \in 1..MaxProducers  BY <1>0, QueueAssumption DEF MineInv, TableTypes
<1>3. PICK i \in DOMAIN tables[g] :
         /\ tables[g][i].key \notin Threads
         /\ tables' = [tables EXCEPT ![g] = [@ EXCEPT ![i] = [key |-> t, value |-> p]]]
         /\ tables' \in Seq(ATable) /\ Len(tables') = Len(tables)
         /\ \A f \in 1..Len(tables) : DOMAIN tables'[f] = DOMAIN tables[f]
         /\ SoundInv'
  <2> HIDE DEF g, p
  <2> QED BY <1>0, <1>1, <1>2, EnterKeeps
<1>4. \A f \in 1..Len(tables) : \A j \in DOMAIN tables[f] :
        tables'[f][j] = IF f = g /\ j = i THEN [key |-> t, value |-> p] ELSE tables[f][j]
  BY <1>3, <1>0 DEF TableTypes
<1>5. hashCount' \in Int  BY DEF Table!EnterNew, TableTypes
<1>6. TableTypes'  BY <1>0, <1>3, <1>5 DEF TableTypes, Adding
<1>7. ValueInv'
  <2> SUFFICES ASSUME NEW f \in 1..Len(tables), NEW j \in DOMAIN tables[f], NEW u \in Threads,
                      tables'[f][j].key = u
               PROVE  tables'[f][j].value = mine[u] /\ mine[u] # 0
    BY <1>3, <1>0 DEF ValueInv
  <2>1. CASE f = g /\ j = i  BY <2>1, <1>2, <1>4
  <2>2. CASE ~(f = g /\ j = i)  BY <2>2, <1>4 DEF ValueInv
  <2> QED BY <2>1, <2>2
<1>8. LacksInv'
  <2> SUFFICES ASSUME NEW u \in Threads, NEW f \in 1..Len(tables),
                      \/ step'[u] \in {"search", "remove"} /\ f > main[u]
                      \/ step'[u] \in Adding \cup {"retire"},
                      NEW j \in DOMAIN tables[f]
               PROVE  tables'[f][j].key # u
    BY <1>3, <1>0 DEF LacksInv, Lacks
  <2>1. u # t  BY <1>0 DEF Adding, TableTypes
  <2>2. step'[u] = step[u]  BY <2>1, <1>0 DEF TableTypes
  <2>3. tables[f][j].key # u  BY <2>2 DEF LacksInv, Lacks
  <2> QED BY <2>1, <2>3, <1>4
<1>9. MineInv'  BY <1>0 DEF MineInv, OneWriter, TableTypes
<1> QED BY <1>3, <1>6, <1>7, <1>8, <1>9

\* The exiting thread's key goes from one table after another, the only one
\* that it has there, and leaves a slot that a search still passes over.
LEMMA RemoveKeepsTable ==
    ASSUME TableInv, NEW t \in Threads, Table!Remove(t)  PROVE TableInv'
<1> USE DEF TableInv
<1> DEFINE h == main[t]
           i == Table!Probe(h, t, {t, Table!Invalid})
           T == tables[h]
           C == Cardinality(DOMAIN T)
           U == [T EXCEPT ![i].key = Table!Reusable]
<1>0. /\ step[t] = "remove" /\ h \in 1..Len(tables) /\ h \in Nat
      /\ UNCHANGED <<hashCount, resizing, created, inactive, newCount, mine>>
      /\ main' = [main EXCEPT ![t] = h - 1]
      /\ step' = [step EXCEPT ![t] = IF h = 1 THEN "retire" ELSE "remove"]
      /\ IF Table!FoundIn(h, t) THEN tables' = [tables EXCEPT ![h][i].key = Table!Reusable]
                                ELSE UNCHANGED tables
  BY DEF Table!Remove, Table!GoOn, TableTypes
<1>1. T \in ATable  BY <1>0, TableAt
<1>2. /\ C \in Nat \ {0} /\ DOMAIN T = 0..(C-1)
      /\ T \in [0..(C-1) -> [key: Keys, value: 0..MaxProducers]]
  BY <1>1, TableShape
<1>3. Sound(T)  BY <1>0 DEF SoundInv
<1>4. Table!Invalid # Table!Reusable /\ Table!Reusable \notin Threads
  BY QueueAssumption DEF Table!Invalid, Table!Reusable
<1>5. Table!FoundIn(h, t) => i \in DOMAIN T /\ T[i].key = t
  <2> SUFFICES ASSUME Table!FoundIn(h, t)  PROVE i \in DOMAIN T /\ T[i].key = t  OBVIOUS
  <2>1. i # C /\ T[i].key = t  BY SameCardinality DEF Table!FoundIn, Table!Capacity
  <2> HIDE DEF i, C, T
  <2>2. i = C \/ \E k \in 0..(C-1) : i \in DOMAIN T  BY <1>1, ProbeFinds DEF i, C, T
  <2> QED BY <2>1, <2>2
<1> HIDE DEF i
<1>6. /\ DOMAIN tables' = DOMAIN tables /\ Len(tables') = Len(tables)
      /\ tables' \in Seq(ATable)
      /\ \A g \in 1..Len(tables) : g # h => tables'[g] = tables[g]
      /\ DOMAIN tables'[h] = DOMAIN T
      /\ \A j \in DOMAIN T : \/ tables'[h][j] = T[j] /\ T[j].key # t
                             \/ tables'[h][j].key = Table!Reusable /\ T[j].key = t
  <2>1. CASE Table!FoundIn(h, t)
    <3>1. i \in DOMAIN T /\ T[i].key = t  BY <2>1, <1>5
    <3>2. U \in [0..(C-1) -> [key: Keys, value: 0..MaxProducers]]
      BY <1>2, <3>1 DEF Keys
    <3>3. U \in ATable  BY <3>2, <1>2 DEF ATable
    <3>4. tables' = [tables EXCEPT ![h] = U]  BY <2>1, <1>0
    <3>5. \A j \in DOMAIN T : j # i => T[j].key # t  BY <1>3, <3>1 DEF Sound, InPlace
    <3>6. \A j \in DOMAIN T : j # i => U[j] = T[j]  BY <1>2, <3>1
    <3>7. U[i].key = Table!Reusable  BY <1>2, <3>1
    <3>8. DOMAIN U = DOMAIN T  OBVIOUS
    <3> HIDE DEF U, T
    <3>9. /\ DOMAIN tables' = DOMAIN tables /\ Len(tables') = Len(tables)
          /\ tables' \in Seq(ATable)
          /\ \A g \in 1..Len(tables) : g # h => tables'[g] = tables[g]
          /\ tables'[h] = U
      BY <3>3, <3>4, <1>0 DEF TableTypes
    <3>10. \A j \in DOMAIN T : \/ U[j] = T[j] /\ T[j].key # t
                               \/ U[j].key = Table!Reusable /\ T[j].key = t
      BY <3>1, <3>5, <3>6, <3>7
    <3> QED BY <3>8, <3>9, <3>10
  <2>2. CASE ~Table!FoundIn(h, t)
    <3>1. Lacks(t, h)  BY <2>2, <1>1, <1>3, MissLacks
    <3>2. tables' = tables  BY <2>2, <1>0
    <3> QED BY <3>1, <3>2 DEF TableTypes, Lacks
  <2> QED BY <2>1, <2>2
<1>7. \A g \in 1..Len(tables) : DOMAIN tables'[g] = DOMAIN tables[g]  BY <1>6
\* No slot becomes one that was never used, and no thread's key comes.
<1>8. \A g \in 1..Len(tables) : \A j \in DOMAIN tables[g] :
        /\ tables[g][j].key # Table!Invalid => tables'[g][j].key # Table!Invalid
        /\ \A u \in Threads : tables'[g][j].key = u => tables'[g][j] = tables[g][j]
  <2> SUFFICES ASSUME NEW g \in 1..Len(tables), NEW j \in DOMAIN tables[g]
               PROVE  /\ tables[g][j].key # Table!Invalid => tables'[g][j].key # Table!Invalid
                      /\ \A u \in Threads : tables'[g][j].key = u => tables'[g][j] = tables[g][j]
    OBVIOUS
  <2>1. CASE g = h  BY <2>1, <1>4, <1>6
  <2>2. CASE g # h  BY <2>2, <1>6
  <2> QED BY <2>1, <2>2
<1>9. SoundInv'
  <2> SUFFICES ASSUME NEW g \in 1..Len(tables), NEW u \in Threads, NEW j \in DOMAIN tables[g],
                      tables'[g][j].key = u
               PROVE  InPlace(tables'[g], u, j)
    BY <1>6, <1>7 DEF SoundInv, Sound, InPlace
  <2> DEFINE D == Cardinality(DOMAIN tables[g])
  <2>1. D \in Nat \ {0} /\ DOMAIN tables[g] = 0..(D-1)  BY TableAt, TableShape
  <2>2. tables[g][j].key = u  BY <1>8
  <2>3. InPlace(tables[g], u, j)  BY <2>2 DEF SoundInv, Sound
  <2>4. PICK k \in 0..(D-1) : /\ j = (Hash[u] + k) % D
                              /\ \A l \in 0..(k-1) : tables[g][(Hash[u] + l) % D].key # Table!Invalid
    BY <2>3 DEF InPlace
  <2>5. \A l \in 0..(k-1) : tables'[g][(Hash[u] + l) % D].key # Table!Invalid
    <3> SUFFICES ASSUME NEW l \in 0..(k-1)
                 PROVE  tables'[g][(Hash[u] + l) % D].key # Table!Invalid
      OBVIOUS
    <3>0. l \in Nat  BY <2>1
    <3>1. (Hash[u] + l) % D \in DOMAIN tables[g]  BY <2>1, <3>0, SlotIn
    <3>2. tables[g][(Hash[u] + l) % D].key # Table!Invalid  BY <2>4
    <3> HIDE DEF D
    <3> QED BY <3>1, <3>2, <1>8
  <2>6. \A l \in DOMAIN tables'[g] : tables'[g][l].key = u => l = j
    <3> SUFFICES ASSUME NEW l \in DOMAIN tables[g], tables'[g][l].key = u  PROVE l = j
      BY <1>7
    <3>1. tables[g][l].key = u  BY <1>8
    <3> QED BY <3>1, <2>3 DEF InPlace
  <2>7. Cardinality(DOMAIN tables'[g]) = D  BY <1>7
  <2> HIDE DEF D
  <2> QED BY <2>4, <2>5, <2>6, <2>7 DEF InPlace
<1>10. ValueInv'
  <2> SUFFICES ASSUME NEW g \in 1..Len(tables), NEW j \in DOMAIN tables[g], NEW u \in Threads,
                      tables'[g][j].key = u
               PROVE  tables'[g][j].value = mine[u] /\ mine[u] # Table!NoProducer
    BY <1>0, <1>6, <1>7 DEF ValueInv
  <2>1. tables'[g][j] = tables[g][j]  BY <1>8
  <2> QED BY <2>1 DEF ValueInv
<1>11. LacksInv'
  <2> SUFFICES ASSUME NEW u \in Threads, NEW g \in 1..Len(tables),
                      \/ step'[u] \in {"search", "remove"} /\ g > main'[u]
                      \/ step'[u] \in Adding \cup {"retire"},
                      NEW j \in DOMAIN tables[g], tables'[g][j].key = u
               PROVE  FALSE
    BY <1>6, <1>7 DEF LacksInv, Lacks
  <2>1. tables[g][j].key = u  BY <1>8
  <2>2. CASE u = t
    <3>1. main'[t] = h - 1 /\ step'[t] = IF h = 1 THEN "retire" ELSE "remove"
      BY <1>0 DEF TableTypes
    <3>2. g > h - 1  BY <3>1, <2>2, <1>0 DEF Adding
    <3>3. CASE g = h  BY <3>3, <2>2, <1>6, <1>4
    <3>4. CASE g # h
      <4>1. g > h  BY <3>2, <3>4, <1>0
      <4> QED BY <4>1, <2>1, <2>2, <1>0 DEF LacksInv, Lacks
    <3> QED BY <3>3, <3>4
  <2>3. CASE u # t
    <3>1. step'[u] = step[u] /\ main'[u] = main[u]  BY <2>3, <1>0 DEF TableTypes
    <3> QED BY <3>1, <2>1 DEF LacksInv, Lacks
  <2> QED BY <2>2, <2>3
<1>12. TableTypes'
  <2>1. h - 1 \in Nat /\ (h # 1 => h - 1 \in 1..Len(tables))  BY <1>0 DEF TableTypes
  <2>2. main' \in [Threads -> Nat]  BY <1>0, <2>1 DEF TableTypes
  <2>3. step' \in [Threads -> {"out", "search", "remove", "retire"} \cup Adding]
    BY <1>0 DEF TableTypes, Adding
  <2>4. \A u \in Threads : step'[u] \in {"search", "remove"} \cup Adding =>
                            main'[u] \in 1..Len(tables)
    <3> SUFFICES ASSUME NEW u \in Threads, step'[u] \in {"search", "remove"} \cup Adding
                 PROVE  main'[u] \in 1..Len(tables)
      OBVIOUS
    <3>1. CASE u = t  BY <3>1, <2>1, <1>0 DEF TableTypes, Adding
    <3>2. CASE u # t
      <4>1. step'[u] = step[u] /\ main'[u] = main[u]  BY <3>2, <1>0 DEF TableTypes
      <4> QED BY <4>1 DEF TableTypes
    <3> QED BY <3>1, <3>2
  <2> QED BY <1>0, <1>6, <2>2, <2>3, <2>4 DEF TableTypes
<1>13. MineInv'  BY <1>0 DEF MineInv, OneWriter, TableTypes
<1> QED BY <1>9, <1>10, <1>11, <1>12, <1>13

\* The producer is free once no table names it.
LEMMA RetireKeepsTable ==
    ASSUME TableInv, NEW t \in Threads, Table!Retire(t)  PROVE TableInv'
<1> USE DEF TableInv, Table!NoProducer
<1>0. /\ step[t] = "retire" /\ step' = [step EXCEPT ![t] = "out"]
      /\ mine' = [mine EXCEPT ![t] = 0]
      /\ inactive' = [inactive EXCEPT ![mine[t]] = TRUE]
      /\ UNCHANGED <<tables, hashCount, resizing, created, main, newCount>>
  BY DEF Table!Retire, Table!Result, Table!GoOn
<1>1. TableTypes'
  <2>1. 0 \in 0..MaxProducers  BY QueueAssumption
  <2>2. mine' \in [Threads -> 0..MaxProducers] /\ inactive' \in [Producers -> BOOLEAN]
    BY <1>0, <2>1 DEF TableTypes
  <2>3. step' \in [Threads -> {"out", "search", "remove", "retire"} \cup Adding]
    BY <1>0 DEF TableTypes
  <2>4. \A u \in Threads : step'[u] \in {"search", "remove"} \cup Adding =>
                            main[u] \in 1..Len(tables)
    BY <1>0 DEF TableTypes, Adding
  <2> QED BY <1>0, <2>2, <2>3, <2>4 DEF TableTypes
<1>2. SoundInv'  BY <1>0, SoundSame
<1>3. ValueInv'
  <2> SUFFICES ASSUME NEW h \in 1..Len(tables), NEW i \in DOMAIN tables[h], NEW u \in Threads,
                      tables[h][i].key = u
               PROVE  tables[h][i].value = mine'[u] /\ mine'[u] # 0
    BY <1>0 DEF ValueInv
  <2>1. u # t  BY <1>0 DEF LacksInv, Lacks
  <2>2. mine'[u] = mine[u]  BY <2>1, <1>0 DEF TableTypes
  <2> QED BY <2>2 DEF ValueInv
<1>4. LacksInv'  BY <1>0 DEF LacksInv, Lacks, TableTypes, Adding
<1>5. MineInv'
  <2>1. \A u \in Threads : u # t => mine'[u] = mine[u] /\ step'[u] = step[u]
    BY <1>0 DEF TableTypes
  <2>2. mine'[t] = 0 /\ step'[t] = "out" /\ mine[t] # 0 /\ mine[t] <= created
    BY <1>0 DEF TableTypes, MineInv
  <2>3. OneWriter'  BY <2>1, <2>2 DEF MineInv, OneWriter
  <2>4. \A u \in Threads : mine'[u] # 0 => mine'[u] <= created /\ ~inactive'[mine'[u]]
    <3> SUFFICES ASSUME NEW u \in Threads, mine'[u] # 0
                 PROVE  mine'[u] <= created /\ ~inactive'[mine'[u]]
      OBVIOUS
    <3>1. u # t /\ mine'[u] = mine[u]  BY <2>1, <2>2
    <3>2. mine[u] # mine[t]  BY <3>1, <2>2 DEF MineInv, OneWriter
    <3>3. mine[u] <= created /\ ~inactive[mine[u]]  BY <3>1 DEF MineInv
    <3>4. inactive'[mine[u]] = inactive[mine[u]]  BY <3>2, <1>0 DEF TableTypes
    <3> QED BY <3>1, <3>3, <3>4
  <2>5. \A p \in Producers : inactive'[p] => p <= created
    BY <1>0, <2>2 DEF TableTypes, MineInv
  <2> QED BY <1>0, <2>1, <2>2, <2>3, <2>4, <2>5 DEF MineInv
<1> QED BY <1>1, <1>2, <1>3, <1>4, <1>5

LEMMA TableKeepsTable ==
    ASSUME TableInv, UNCHANGED tableVars
    PROVE  TableInv'
<1> USE DEF tableVars, TableInv
<1>1. TableTypes'  BY DEF TableTypes
<1>2. SoundInv'  BY DEF SoundInv, Sound, InPlace
<1>3. ValueInv'  BY DEF ValueInv
<1>4. LacksInv'  BY DEF LacksInv, Lacks
<1>5. MineInv'  BY DEF MineInv, OneWriter
<1> QED BY <1>1, <1>2, <1>3, <1>4, <1>5

\* Numbers for the threads, which InitUsed takes them in the order of.
LEMMA SomeOrder ==
    \E f \in [Threads -> 1..Cardinality(Threads)] : \A t, u \in Threads : t # u => f[t] # f[u]
<1>1. PICK n \in Nat : \E f : f \in Bijection(1..n, Threads)
  BY QueueAssumption, FS_NatBijection DEF ExistsBijection
<1>2. PICK f : f \in Bijection(1..n, Threads)  BY <1>1
<1>3. Cardinality(Threads) = n  BY <1>2, FS_CountingElements, QueueAssumption DEF ExistsBijection
<1> DEFINE g == [t \in Threads |-> CHOOSE i \in 1..n : f[i] = t]
<1>4. \A t \in Threads : \E i \in 1..n : f[i] = t
  BY <1>2 DEF Bijection, Surjection, Injection, IsInjective
<1>5. \A t \in Threads : g[t] \in 1..n /\ f[g[t]] = t  BY <1>4
<1>6. g \in [Threads -> 1..Cardinality(Threads)]  BY <1>3, <1>5
<1>7. \A t, u \in Threads : t # u => g[t] # g[u]  BY <1>5
<1> HIDE DEF g
<1> QED BY <1>6, <1>7

\* Both initial states satisfy the invariant of the tables.
LEMMA TableInit == ASSUME Init PROVE TableInv
<1> USE DEF Table!NoProducer
<1>0. plan \in Plans /\ plan.size \in Nat \ {0}  BY QueueAssumption DEF Init
<1>1. CASE plan.new
  <2>1. /\ \E n \in InitialSizes : tables = <<Table!Empty(n)>>
        /\ hashCount = 0 /\ resizing = FALSE /\ created = 0
        /\ inactive = [p \in Producers |-> FALSE] /\ step = [t \in Threads |-> "out"]
        /\ main = [t \in Threads |-> 0] /\ newCount = [t \in Threads |-> 0]
        /\ mine = [t \in Threads |-> 0]
    BY <1>1 DEF Init, InitNew, Table!Init, Producers
  <2>2. PICK n \in Nat \ {0} : tables = <<[i \in 0..(n-1) |-> [key |-> Table!Invalid, value |-> 0]]>>
    BY <2>1, QueueAssumption DEF Table!Empty
  <2> DEFINE E == [i \in 0..(n-1) |-> [key |-> Table!Invalid, value |-> 0]]
  <2>3. E \in ATable
    <3>1. E \in [0..(n-1) -> [key: Keys, value: 0..MaxProducers]]
      BY QueueAssumption DEF Keys
    <3> HIDE DEF E
    <3> QED BY <3>1 DEF ATable
  <2>4. \A i \in DOMAIN E : \A t \in Threads : E[i].key # t
    BY QueueAssumption DEF Table!Invalid
  <2> HIDE DEF E
  <2>5. tables = <<E>> /\ Len(tables) = 1 /\ tables[1] = E /\ tables \in Seq(ATable)
    BY <2>2, <2>3 DEF E
  <2>6. TableTypes
    <3>1. 0 \in 0..MaxProducers  BY QueueAssumption
    <3>2. mine \in [Threads -> 0..MaxProducers] /\ created \in 0..MaxProducers  BY <2>1, <3>1
    <3>3. step \in [Threads -> {"out", "search", "remove", "retire"} \cup Adding]
          /\ main \in [Threads -> Nat] /\ newCount \in [Threads -> Int]
      BY <2>1
    <3>4. \A t \in Threads : step[t] \notin {"search", "remove"} \cup Adding
      BY <2>1 DEF Adding
    <3>5. resizing \in BOOLEAN  BY <2>1
    <3>7. hashCount \in Int  BY <2>1
    <3>6. inactive \in [Producers -> BOOLEAN]  BY <2>1
    <3> QED BY <2>5, <3>2, <3>3, <3>4, <3>5, <3>6, <3>7 DEF TableTypes
  <2>7. SoundInv /\ ValueInv  BY <2>4, <2>5 DEF SoundInv, Sound, ValueInv
  <2>8. LacksInv  BY <2>1 DEF LacksInv, Adding
  <2>9. MineInv  BY <2>1 DEF MineInv, OneWriter
  <2> QED BY <2>6, <2>7, <2>8, <2>9 DEF TableInv
<1>2. CASE ~plan.new
  <2> DEFINE N == Cardinality(Threads)
             Order == CHOOSE f \in [Threads -> 1..N] : \A t, u \in Threads : t # u => f[t] # f[u]
             size == plan.size
             Table1(place) ==
               [i \in 0..(size-1) |->
                  IF \E t \in Threads : place[t] = i
                  THEN LET t == CHOOSE u \in Threads : place[u] = i
                       IN  [key |-> t, value |-> Order[t]]
                  ELSE Table!Empty(size)[i]]
  <2>1. /\ \E place \in [Threads -> 0..(size-1)] :
              /\ \A t, u \in Threads : t # u => place[t] # place[u]
              /\ \A t \in Threads : \E k \in 0..(size-1) :
                    /\ place[t] = (Hash[t] + k) % size
                    /\ \A j \in 0..(k-1) : \E u \in Threads :
                          Order[u] < Order[t] /\ place[u] = (Hash[t] + j) % size
              /\ tables = <<Table1(place)>>
        /\ hashCount = N /\ resizing = FALSE /\ created = N
        /\ inactive = [p \in Producers |-> FALSE] /\ step = [t \in Threads |-> "out"]
        /\ main = [t \in Threads |-> 1] /\ newCount = [t \in Threads |-> Order[t]]
        /\ mine = [t \in Threads |-> Order[t]]
    BY <1>2 DEF Init, InitUsed
  <2>2. N \in Nat /\ MaxProducers \in Nat /\ N <= MaxProducers  BY QueueAssumption, FS_CardinalityType
  <2>3. Order \in [Threads -> 1..N] /\ \A t, u \in Threads : t # u => Order[t] # Order[u]
    BY SomeOrder
  <2> HIDE DEF Order, N
  <2>4. PICK place \in [Threads -> 0..(size-1)] :
              /\ \A t, u \in Threads : t # u => place[t] # place[u]
              /\ \A t \in Threads : \E k \in 0..(size-1) :
                    /\ place[t] = (Hash[t] + k) % size
                    /\ \A j \in 0..(k-1) : \E u \in Threads :
                          Order[u] < Order[t] /\ place[u] = (Hash[t] + j) % size
              /\ tables = <<Table1(place)>>
    BY <2>1
  <2> DEFINE T == Table1(place)
  <2>5. DOMAIN T = 0..(size-1) /\ size \in Nat \ {0}  BY <1>0
  <2>6. \A i \in 0..(size-1) :
          \/ \E t \in Threads : place[t] = i /\ T[i] = [key |-> t, value |-> Order[t]]
          \/ T[i] = [key |-> Table!Invalid, value |-> 0] /\ \A t \in Threads : place[t] # i
    BY DEF Table!Empty
  <2> HIDE DEF T, size
  <2>7. \A t \in Threads : T[place[t]] = [key |-> t, value |-> Order[t]]
    <3> SUFFICES ASSUME NEW t \in Threads  PROVE T[place[t]] = [key |-> t, value |-> Order[t]]
      OBVIOUS
    <3>1. place[t] \in 0..(size-1)  OBVIOUS
    <3>2. PICK u \in Threads : place[u] = place[t]
                             /\ T[place[t]] = [key |-> u, value |-> Order[u]]
      BY <2>6, <3>1
    <3>3. u = t  BY <2>4, <3>2
    <3> QED BY <3>2, <3>3
  <2>8. \A t \in Threads : \A i \in 0..(size-1) : T[i].key = t =>
          i = place[t] /\ T[i].value = Order[t]
    <3> SUFFICES ASSUME NEW t \in Threads, NEW i \in 0..(size-1), T[i].key = t
                 PROVE  i = place[t] /\ T[i].value = Order[t]
      OBVIOUS
    <3>1. T[i] # [key |-> Table!Invalid, value |-> 0]
      BY QueueAssumption DEF Table!Invalid
    <3>2. PICK u \in Threads : place[u] = i /\ T[i] = [key |-> u, value |-> Order[u]]
      BY <2>6, <3>1
    <3> QED BY <3>2
  <2>9. \A i \in 0..(size-1) : T[i] \in [key: Keys, value: 0..MaxProducers]
    <3>1. \A t \in Threads : Order[t] \in 0..MaxProducers
      <4> SUFFICES ASSUME NEW t \in Threads  PROVE Order[t] \in 0..MaxProducers  OBVIOUS
      <4>1. Order[t] \in 1..N  BY <2>3
      <4> QED BY <4>1, <2>2
    <3>2. 0 \in 0..MaxProducers  BY QueueAssumption
    <3> SUFFICES ASSUME NEW i \in 0..(size-1)
                 PROVE  T[i] \in [key: Keys, value: 0..MaxProducers]
      OBVIOUS
    <3>3. CASE \E t \in Threads : place[t] = i /\ T[i] = [key |-> t, value |-> Order[t]]
      BY <3>1, <3>3 DEF Keys
    <3>4. CASE T[i] = [key |-> Table!Invalid, value |-> 0]
      BY <3>2, <3>4 DEF Keys
    <3> QED BY <3>3, <3>4, <2>6
  <2>10. T \in ATable
    <3>1. T = [i \in 0..(size-1) |-> T[i]]  BY DEF T
    <3>2. T \in [0..(size-1) -> [key: Keys, value: 0..MaxProducers]]  BY <3>1, <2>9
    <3> QED BY <2>5, <3>2 DEF ATable
  <2>11. tables = <<T>> /\ Len(tables) = 1 /\ tables[1] = T /\ tables \in Seq(ATable)
    BY <2>4, <2>10 DEF T
  <2>12. Cardinality(DOMAIN T) = size
    <3>1. Cardinality(DOMAIN T) \in Nat \ {0} /\ DOMAIN T = 0..(Cardinality(DOMAIN T)-1)
      BY <2>10, TableShape
    <3>2. size - 1 \in DOMAIN T /\ size \notin DOMAIN T  BY <2>5
    <3>3. \A C \in Nat \ {0} : (size - 1 \in 0..(C-1) /\ size \notin 0..(C-1)) => C = size
      BY <2>5
    <3> QED BY <3>1, <3>2, <3>3
  <2>13. Sound(T)
    <3> SUFFICES ASSUME NEW t \in Threads, NEW i \in DOMAIN T, T[i].key = t
                 PROVE  InPlace(T, t, i)
      BY DEF Sound
    <3>1. i = place[t]  BY <2>5, <2>8
    <3>2. PICK k \in 0..(size-1) :
                    /\ place[t] = (Hash[t] + k) % size
                    /\ \A j \in 0..(k-1) : \E u \in Threads :
                          Order[u] < Order[t] /\ place[u] = (Hash[t] + j) % size
      BY <2>4
    <3>3. \A j \in 0..(k-1) : T[(Hash[t] + j) % size].key # Table!Invalid
      <4> SUFFICES ASSUME NEW j \in 0..(k-1)  PROVE T[(Hash[t] + j) % size].key # Table!Invalid
        OBVIOUS
      <4>1. PICK u \in Threads : place[u] = (Hash[t] + j) % size  BY <3>2
      <4>2. T[place[u]].key = u
        <5>1. T[place[u]] = [key |-> u, value |-> Order[u]]  BY <2>7
        <5> QED BY <5>1
      <4> QED BY <4>1, <4>2, QueueAssumption DEF Table!Invalid
    <3>4. \A j \in DOMAIN T : T[j].key = t => j = i  BY <2>5, <2>8, <3>1
    <3> HIDE DEF size
    <3> QED BY <3>1, <3>2, <3>3, <3>4, <2>12 DEF InPlace
  <2>14. TableTypes
    <3>1. \A t \in Threads : Order[t] \in 0..MaxProducers /\ Order[t] \in Int
      <4> SUFFICES ASSUME NEW t \in Threads
                   PROVE  Order[t] \in 0..MaxProducers /\ Order[t] \in Int
        OBVIOUS
      <4>1. Order[t] \in 1..N  BY <2>3
      <4> QED BY <4>1, <2>2
    <3>2. mine \in [Threads -> 0..MaxProducers] /\ created \in 0..MaxProducers
      BY <2>1, <2>2, <3>1
    <3>3. step \in [Threads -> {"out", "search", "remove", "retire"} \cup Adding]
          /\ main \in [Threads -> Nat] /\ newCount \in [Threads -> Int]
      BY <2>1, <3>1
    <3>4. \A t \in Threads : step[t] \notin {"search", "remove"} \cup Adding
      BY <2>1 DEF Adding
    <3>5. resizing \in BOOLEAN  BY <2>1
    <3>7. hashCount \in Int  BY <2>1, <2>2
    <3>6. inactive \in [Producers -> BOOLEAN]  BY <2>1
    <3> QED BY <2>11, <3>2, <3>3, <3>4, <3>5, <3>6, <3>7 DEF TableTypes
  <2>15. SoundInv  BY <2>11, <2>13 DEF SoundInv
  <2>16. ValueInv
    <3>1. \A t \in Threads : mine[t] = Order[t] /\ Order[t] # 0  BY <2>1, <2>3
    <3> QED BY <3>1, <2>5, <2>8, <2>11 DEF ValueInv
  <2>17. LacksInv  BY <2>1 DEF LacksInv, Adding
  <2>18. MineInv
    <3>1. \A t \in Threads : mine[t] = Order[t] /\ Order[t] \in 1..N /\ step[t] = "out"
      BY <2>1, <2>3
    <3>2. \A t \in Threads : Order[t] \in Producers /\ Order[t] <= created
      <4> SUFFICES ASSUME NEW t \in Threads  PROVE Order[t] \in Producers /\ Order[t] <= created
        OBVIOUS
      <4>1. Order[t] \in 1..N  BY <3>1
      <4> QED BY <4>1, <2>1, <2>2 DEF Producers, Table!Producers
    <3> QED BY <3>1, <3>2, <2>1, <2>3 DEF MineInv, OneWriter
  <2> QED BY <2>14, <2>15, <2>16, <2>17, <2>18 DEF TableInv
<1> QED BY <1>1, <1>2

\* Every step of the queue keeps it.
LEMMA TableNext == ASSUME TableInv, [Next]_vars PROVE TableInv'
<1>1. CASE UNCHANGED tableVars  BY <1>1, TableKeepsTable
<1>2. ASSUME NEW t \in Threads, CallEnqueue(t)  PROVE TableInv'
  BY <1>2, CallKeepsTable DEF CallEnqueue
<1>3. ASSUME NEW t \in Threads, ThreadExit(t)  PROVE TableInv'
  BY <1>3, ExitKeepsTable DEF ThreadExit
<1>4. ASSUME NEW t \in Threads, TableStep(t)  PROVE TableInv'
  <2>1. Table!Step(t)  BY <1>4 DEF TableStep
  <2> QED BY <2>1, SearchKeepsTable, CountKeepsTable, TakeFlagKeepsTable, ResizeKeepsTable,
             ClearFlagKeepsTable, FailResizeKeepsTable, WaitKeepsTable, RecycleKeepsTable,
             EnterNewKeepsTable, RemoveKeepsTable, RetireKeepsTable DEF Table!Step
<1>5. ASSUME NEW t \in Threads, ThreadStep(t),
             ~CallEnqueue(t), ~ThreadExit(t), ~TableStep(t)
      PROVE  UNCHANGED tableVars
  BY <1>5 DEF ThreadStep, FailEnqueue, InsertEntry, TakeFromPool, TakeBlock, PutFirst, Put,
              CallDequeue, Score, LoadOver, TestOptimistic, Claim, Check, Excess, TakeIndex,
              FindIndex, FindEntry, Move, Unlink, EndDequeue, FreeStep
<1>6. CASE Destroy  BY <1>6, <1>1 DEF Destroy
<1>7. CASE UNCHANGED vars  BY <1>7, <1>1 DEF vars
<1> QED BY <1>1, <1>2, <1>3, <1>4, <1>5, <1>6, <1>7 DEF Next

-----------------------------------------------------------------------------
(* The counters of a sub-queue.                                            *)

\* Of the sub-queues and the calls only the numbers that count have types here.
SubOK(s) ==
    s \in [tailIndex: Nat, headIndex: Nat, optimistic: Nat, overcommit: Nat,
           tailBlock: {s.tailBlock}, entries: {s.entries}, headers: {s.headers}]
Walking == {"score", "load", "test", "claim", "check", "excess", "take index", "find",
            "entry", "move", "unlink", "add"}
CallOK(r) ==
    /\ r \in [pc: {"out", "lookup", "pool", "get", "put"} \cup Walking,
              p: Nat, i: Nat, over: Nat, tail: {r.tail}, best: Nat, size: Nat, found: Nat,
              entry: {r.entry}, block: {r.block}, header: {r.header},
              alone: BOOLEAN, had: BOOLEAN]
    /\ r.pc \in Walking => r.p \in 1..created
    /\ r.pc \in {"test", "claim", "check"} => r.tail \in Nat
    /\ r.pc = "score" => IF r.found = 0 THEN r.size = 0 ELSE r.best \in 1..created
QueueTypes == /\ sub = [p \in Producers |-> sub[p]]
              /\ \A p \in Producers : SubOK(sub[p])
              /\ my = [t \in Threads |-> my[t]]
              /\ \A t \in Threads : CallOK(my[t])

\* The threads that are at a label in sub-queue p; those that have claimed an
\* index there, do not know yet whether it is backed and claimed before t; the
\* elements that are taken or about to be.
AtLabel(p, l) == {t \in Threads : my[t].pc = l /\ my[t].p = p}
Ahead(t) == {u \in AtLabel(my[t].p, "check") : my[u].i < my[t].i}
Taken(p) == sub[p].headIndex + Cardinality(AtLabel(p, "take index"))

\* Each claim was counted and has been accounted for or is outstanding.  A
\* claim that passes its check is backed even if all those ahead of it pass.
ClaimsAdd(p) ==
    /\ sub[p].optimistic = Taken(p) + sub[p].overcommit + Cardinality(AtLabel(p, "excess"))
                              + Cardinality(AtLabel(p, "check"))
    /\ Taken(p) <= sub[p].tailIndex
Backed(p, t) ==
    /\ my[t].i < sub[p].optimistic
    /\ my[t].over <= sub[p].overcommit
    /\ \A u \in AtLabel(p, "check") : u # t => my[u].i # my[t].i
    /\ \/ my[t].i >= my[t].over + Taken(p) + Cardinality(Ahead(t))
       \/ Taken(p) + Cardinality(Ahead(t)) < sub[p].tailIndex
ClaimAt(p) ==
    /\ ClaimsAdd(p)
    /\ \A t \in AtLabel(p, "check") : Backed(p, t)
    /\ \A t \in AtLabel(p, "test") \cup AtLabel(p, "claim") : my[t].over <= sub[p].overcommit
ClaimInv == \A p \in Producers : ClaimAt(p)

\* A dequeue that is alone and began with an element in the queue finds one in
\* its walk, reads counters that stay as they are, and passes both its tests.
StillFinds(t) ==
    LET r == my[t] IN
    /\ r.pc = "score" => IF r.found = 0 THEN \E q \in 1..r.p : Holds(q) ELSE Holds(r.best)
    /\ r.pc = "load" => Holds(r.p)
    /\ r.pc \in {"test", "claim", "check"} =>
         /\ r.over = sub[r.p].overcommit
         /\ sub[r.p].headIndex < r.tail /\ r.tail <= sub[r.p].tailIndex
    /\ r.pc = "check" => r.i = sub[r.p].headIndex + r.over
    /\ r.pc # "excess"
AloneInv ==
    /\ \A p \in Producers : p > created => ~Holds(p)
    /\ \A t \in Threads : my[t].alone =>
         /\ my[t].pc \in Walking /\ \A u \in Threads \ {t} : my[u].pc \notin Walking
         /\ my[t].had => StillFinds(t)

QueueInv == TableInv /\ QueueTypes /\ ClaimInv /\ AloneInv

USE DEF Producers, Table!Producers

\* The fields of a sub-queue that count, and of a call.
LEMMA SubFields ==
    ASSUME NEW s, SubOK(s)
    PROVE  /\ s.tailIndex \in Nat /\ s.headIndex \in Nat
           /\ s.optimistic \in Nat /\ s.overcommit \in Nat
BY DEF SubOK

\* What the edits of a block index leave alone.
SameCounts(s, r) ==
    /\ SubOK(s)
    /\ s.tailIndex = r.tailIndex /\ s.headIndex = r.headIndex
    /\ s.optimistic = r.optimistic /\ s.overcommit = r.overcommit

LEMMA EditsKeepCounts ==
    ASSUME NEW s, SubOK(s), NEW e, NEW i
    PROVE  /\ SameCounts(WithEntry(s, e, i), s)
           /\ SameCounts(Doubled(s), s)
           /\ SameCounts(Rewound(s, e), s)
           /\ SameCounts([s EXCEPT !.entries[e].value = i], s)
<1>1. SameCounts(WithEntry(s, e, i), s)  BY DEF SameCounts, SubOK, WithEntry
<1>2. SameCounts(Doubled(s), s)  BY DEF SameCounts, SubOK, Doubled
<1>3. SameCounts(Rewound(s, e), s)  BY DEF SameCounts, SubOK, Rewound
<1>4. SameCounts([s EXCEPT !.entries[e].value = i], s)  BY DEF SameCounts, SubOK
<1> QED BY <1>1, <1>2, <1>3, <1>4

\* What an enqueue does to the counters and to its own call.
EnqueueEffect(t) ==
    /\ sub' = [p \in Producers |-> sub'[p]]
    /\ \A p \in Producers :
         /\ SubOK(sub'[p])
         /\ sub'[p].headIndex = sub[p].headIndex /\ sub'[p].optimistic = sub[p].optimistic
         /\ sub'[p].overcommit = sub[p].overcommit /\ sub[p].tailIndex <= sub'[p].tailIndex
         /\ p > created => sub'[p].tailIndex = sub[p].tailIndex
    /\ my' = [my EXCEPT ![t] = my'[t]]
    /\ CallOK(my'[t]) /\ my[t].pc \notin Walking /\ my'[t].pc \notin Walking
    /\ my'[t].alone => my[t].alone
    /\ created' = created

LEMMA IdleOK == CallOK(Idle)
BY DEF CallOK, Idle, Walking

\* Sub-queues of which one, or none, is edited.
LEMMA OneEdited ==
    ASSUME QueueTypes, NEW p, NEW s, SameCounts(s, sub[p]), sub' = [sub EXCEPT ![p] = s]
    PROVE  /\ sub' = [q \in Producers |-> sub'[q]]
           /\ \A q \in Producers : SameCounts(sub'[q], sub[q])
<1>1. sub' = [q \in Producers |-> IF q = p THEN s ELSE sub[q]]  BY DEF QueueTypes
<1>2. \A q \in Producers : SameCounts(sub[q], sub[q])  BY DEF QueueTypes, SameCounts
<1> QED BY <1>1, <1>2

LEMMA SameCountsEffect ==
    ASSUME QueueTypes, NEW t \in Threads,
           sub' = [q \in Producers |-> sub'[q]],
           \A q \in Producers : SameCounts(sub'[q], sub[q]),
           my' = [my EXCEPT ![t] = my'[t]], CallOK(my'[t]),
           my[t].pc \notin Walking, my'[t].pc \notin Walking, my'[t].alone => my[t].alone,
           created' = created
    PROVE  EnqueueEffect(t)
<1>1. \A p \in Producers :
         /\ SubOK(sub'[p])
         /\ sub'[p].headIndex = sub[p].headIndex /\ sub'[p].optimistic = sub[p].optimistic
         /\ sub'[p].overcommit = sub[p].overcommit /\ sub[p].tailIndex <= sub'[p].tailIndex
         /\ p > created => sub'[p].tailIndex = sub[p].tailIndex
  BY SubFields DEF SameCounts, QueueTypes
<1> QED BY <1>1 DEF EnqueueEffect

\* A call that only goes to another label outside of a dequeue.
LEMMA GoOK ==
    ASSUME QueueTypes, NEW t \in Threads, NEW l \in {"lookup", "pool", "get", "put"}, Go(t, l)
    PROVE  /\ my' = [my EXCEPT ![t] = my'[t]] /\ CallOK(my'[t]) /\ my'[t].pc = l
           /\ my'[t].alone = my[t].alone
<1>1. my' = [my EXCEPT ![t] = [my[t] EXCEPT !.pc = l]]  BY DEF Go
<1>2. CallOK(my[t]) /\ my' = [my EXCEPT ![t] = my'[t]] /\ my'[t] = [my[t] EXCEPT !.pc = l]
  BY <1>1 DEF QueueTypes
<1>3. \A c : CallOK(c) => CallOK([c EXCEPT !.pc = l]) /\ [c EXCEPT !.pc = l].pc = l
                         /\ [c EXCEPT !.pc = l].alone = c.alone
  BY DEF CallOK, Walking
<1> QED BY <1>2, <1>3

LEMMA SetOK ==
    ASSUME QueueTypes, NEW t \in Threads, NEW r, Set(t, r), CallOK(r)
    PROVE  my' = [my EXCEPT ![t] = my'[t]] /\ my'[t] = r
BY DEF Set, QueueTypes

LEMMA CallEnqueueEffect ==
    ASSUME QueueTypes, NEW t \in Threads, CallEnqueue(t)  PROVE EnqueueEffect(t)
<1>1. my[t].pc = "out" /\ Go(t, "lookup") /\ sub' = sub /\ created' = created
  BY DEF CallEnqueue, Table!Call, Table!shared
<1>2. /\ my' = [my EXCEPT ![t] = my'[t]] /\ CallOK(my'[t]) /\ my'[t].pc = "lookup"
      /\ my'[t].alone = my[t].alone
  BY <1>1, GoOK
<1>3. sub' = [q \in Producers |-> sub'[q]] /\ \A q \in Producers : SameCounts(sub'[q], sub[q])
  BY <1>1 DEF QueueTypes, SameCounts
<1> QED BY <1>1, <1>2, <1>3, SameCountsEffect DEF Walking

LEMMA FailEnqueueEffect ==
    ASSUME QueueTypes, NEW t \in Threads, FailEnqueue(t)  PROVE EnqueueEffect(t)
<1>1. my[t].pc = "lookup" /\ Set(t, Idle) /\ sub' = sub /\ created' = created
  BY DEF FailEnqueue, Finish, tableVars
<1>2. my' = [my EXCEPT ![t] = my'[t]] /\ my'[t] = Idle  BY <1>1, SetOK, IdleOK
<1>3. sub' = [q \in Producers |-> sub'[q]] /\ \A q \in Producers : SameCounts(sub'[q], sub[q])
  BY <1>1 DEF QueueTypes, SameCounts
<1>4. Idle.pc = "out" /\ Idle.alone = FALSE  BY DEF Idle
<1> QED BY <1>1, <1>2, <1>3, <1>4, SameCountsEffect, IdleOK DEF Walking

LEMMA InsertEntryEffect ==
    ASSUME TableTypes, QueueTypes, NEW t \in Threads, InsertEntry(t)  PROVE EnqueueEffect(t)
<1> DEFINE p == mine[t]
           h == Header(p)
           e == h.index[NextSlot(h)]
           r == [Idle EXCEPT !.pc = "pool", !.entry = e]
<1>0. my[t].pc = "lookup" /\ p # 0 /\ created' = created
  BY DEF InsertEntry, StartsBlock, tableVars, Table!NoProducer
<1>1. p \in Producers /\ SubOK(sub[p])  BY <1>0, QueueAssumption DEF TableTypes, QueueTypes
<1>2. CallOK(r)  BY DEF CallOK, Idle, Walking
<1>3. \/ sub' = [sub EXCEPT ![p] = WithEntry(@, e, sub[p].tailIndex)] /\ Set(t, r)
      \/ sub' = [sub EXCEPT ![p] = Doubled(@)] /\ my' = my
      \/ sub' = sub /\ Set(t, Idle)
  BY DEF InsertEntry, Finish
<1>4. /\ sub' = [q \in Producers |-> sub'[q]]
      /\ \A q \in Producers : SameCounts(sub'[q], sub[q])
  <2> HIDE DEF p, e, h
  <2>1. \A s : SameCounts(s, sub[p]) /\ sub' = [sub EXCEPT ![p] = s] =>
          /\ sub' = [q \in Producers |-> sub'[q]]
          /\ \A q \in Producers : SameCounts(sub'[q], sub[q])
    BY OneEdited
  <2>2. SameCounts(sub[p], sub[p]) /\ sub = [sub EXCEPT ![p] = sub[p]]
    BY <1>1 DEF SameCounts, QueueTypes
  <2> QED BY <1>1, <1>3, <2>1, <2>2, EditsKeepCounts
<1>5. my' = [my EXCEPT ![t] = my'[t]] /\ my'[t] \in {r, my[t], Idle}
  <2>1. CASE Set(t, r)  BY <1>2, <2>1, SetOK
  <2>2. CASE Set(t, Idle)  BY IdleOK, <2>2, SetOK
  <2>3. CASE my' = my  BY <2>3 DEF QueueTypes
  <2> QED BY <1>3, <2>1, <2>2, <2>3
<1>6. /\ CallOK(my'[t]) /\ my[t].pc \notin Walking /\ my'[t].pc \notin Walking
      /\ my'[t].alone => my[t].alone
  <2>1. r.pc = "pool" /\ r.alone = FALSE /\ Idle.pc = "out" /\ Idle.alone = FALSE
    BY DEF Idle
  <2> HIDE DEF r
  <2> QED BY <1>0, <1>2, <1>5, <2>1, IdleOK DEF Walking, QueueTypes
<1> QED BY <1>0, <1>4, <1>5, <1>6, SameCountsEffect

\* The same with a block.
LEMMA PutOK ==
    ASSUME NEW c, CallOK(c), NEW b
    PROVE  /\ CallOK([c EXCEPT !.pc = "put", !.block = b])
           /\ [c EXCEPT !.pc = "put", !.block = b].pc = "put"
           /\ [c EXCEPT !.pc = "put", !.block = b].alone = c.alone
<1> DEFINE Call(labels, tails, some) ==
             [pc: labels, p: Nat, i: Nat, over: Nat, tail: tails, best: Nat, size: Nat,
              found: Nat, entry: {c.entry}, block: some, header: {c.header},
              alone: BOOLEAN, had: BOOLEAN]
           d == [c EXCEPT !.pc = "put", !.block = b]
<1>1. c \in Call({"out", "lookup", "pool", "get", "put"} \cup Walking, {c.tail}, {c.block})
  BY DEF CallOK
<1>2. d \in Call({"put"}, {c.tail}, {b})  BY <1>1
<1>3. /\ d.pc = "put" /\ d.tail = c.tail /\ d.block = b /\ d.entry = c.entry
      /\ d.header = c.header /\ d.alone = c.alone
  BY <1>1
<1> HIDE DEF d
<1>4. CallOK(d)  BY <1>2, <1>3 DEF CallOK, Walking
<1> QED BY <1>3, <1>4 DEF d

LEMMA TakeFromPoolEffect ==
    ASSUME QueueTypes, NEW t \in Threads, TakeFromPool(t)  PROVE EnqueueEffect(t)
<1> DEFINE r == [my[t] EXCEPT !.pc = "put", !.block = poolIndex + 1]
<1>1. /\ my[t].pc = "pool" /\ sub' = sub /\ created' = created
      /\ Set(t, r) \/ Go(t, "get")
  BY DEF TakeFromPool, tableVars
<1>2. CallOK(r) /\ r.pc = "put" /\ r.alone = my[t].alone  BY PutOK DEF QueueTypes
<1>3. sub' = [q \in Producers |-> sub'[q]] /\ \A q \in Producers : SameCounts(sub'[q], sub[q])
  BY <1>1 DEF QueueTypes, SameCounts
<1>4. /\ my' = [my EXCEPT ![t] = my'[t]] /\ CallOK(my'[t]) /\ my'[t].pc \in {"put", "get"}
      /\ my'[t].alone = my[t].alone
  <2> HIDE DEF r
  <2>1. CASE Set(t, r)  BY <1>2, <2>1, SetOK
  <2>2. CASE Go(t, "get")  BY <2>2, GoOK
  <2> QED BY <1>1, <2>1, <2>2
<1> QED BY <1>1, <1>3, <1>4, SameCountsEffect DEF Walking

LEMMA TakeBlockEffect ==
    ASSUME TableTypes, QueueTypes, NEW t \in Threads, TakeBlock(t)  PROVE EnqueueEffect(t)
<1> DEFINE p == mine[t]
           r(b) == [my[t] EXCEPT !.pc = "put", !.block = b]
<1>1. /\ my[t].pc = "get" /\ created' = created
      /\ \/ (\E b : Set(t, r(b))) /\ sub' = sub
         \/ sub' = [sub EXCEPT ![p] = Rewound(@, my[t].entry)] /\ Set(t, Idle)
  BY DEF TakeBlock, tableVars, Finish
<1>2. \A b : CallOK(r(b)) /\ r(b).pc = "put" /\ r(b).alone = my[t].alone
  BY PutOK DEF QueueTypes
<1>3. /\ sub' = [q \in Producers |-> sub'[q]]
      /\ \A q \in Producers : SameCounts(sub'[q], sub[q])
  <2>1. CASE sub' = sub  BY <2>1 DEF QueueTypes, SameCounts
  <2>2. CASE sub' = [sub EXCEPT ![p] = Rewound(@, my[t].entry)]
    <3>1. CASE p \in Producers
      <4>1. SubOK(sub[p])  BY <3>1 DEF QueueTypes
      <4> HIDE DEF p
      <4> QED BY <2>2, <4>1, EditsKeepCounts, OneEdited
    <3>2. CASE p \notin Producers
      <4>1. sub' = sub  BY <2>2, <3>2 DEF QueueTypes
      <4> QED BY <2>1, <4>1
    <3> QED BY <3>1, <3>2
  <2> QED BY <1>1, <2>1, <2>2
<1>4. /\ my' = [my EXCEPT ![t] = my'[t]] /\ CallOK(my'[t]) /\ my'[t].pc \in {"put", "out"}
      /\ my'[t].alone => my[t].alone
  <2> HIDE DEF r
  <2>1. ASSUME NEW b, Set(t, r(b))
        PROVE  /\ my' = [my EXCEPT ![t] = my'[t]] /\ CallOK(my'[t]) /\ my'[t].pc = "put"
               /\ my'[t].alone = my[t].alone
    BY <1>2, <2>1, SetOK
  <2>2. CASE Set(t, Idle)  
    <3>1. Idle.pc = "out" /\ Idle.alone = FALSE  BY DEF Idle
    <3> QED BY <2>2, <3>1, SetOK, IdleOK
  <2> QED BY <1>1, <2>1, <2>2
<1> QED BY <1>1, <1>3, <1>4, SameCountsEffect DEF Walking

\* An element is published: the tail of the thread's own sub-queue grows.
LEMMA PublishEffect ==
    ASSUME TableInv, QueueTypes, NEW t \in Threads, NEW s,
           SubOK(sub[mine[t]]) =>
             /\ SubOK(s)
             /\ s.tailIndex = sub[mine[t]].tailIndex + 1
             /\ s.headIndex = sub[mine[t]].headIndex
             /\ s.optimistic = sub[mine[t]].optimistic
             /\ s.overcommit = sub[mine[t]].overcommit,
           sub' = [sub EXCEPT ![mine[t]] = s],
           my[t].pc \notin Walking, Set(t, Idle), created' = created
    PROVE  EnqueueEffect(t)
<1> DEFINE p == mine[t]
<1> HIDE DEF p
<1>3. sub' = [q \in Producers |-> IF q = p THEN s ELSE sub[q]]  BY DEF p, QueueTypes
<1>4. \A q \in Producers :
         /\ SubOK(sub'[q])
         /\ sub'[q].headIndex = sub[q].headIndex /\ sub'[q].optimistic = sub[q].optimistic
         /\ sub'[q].overcommit = sub[q].overcommit /\ sub[q].tailIndex <= sub'[q].tailIndex
         /\ q > created => sub'[q].tailIndex = sub[q].tailIndex
  <2> SUFFICES ASSUME NEW q \in Producers
               PROVE  /\ SubOK(sub'[q])
                      /\ sub'[q].headIndex = sub[q].headIndex
                      /\ sub'[q].optimistic = sub[q].optimistic
                      /\ sub'[q].overcommit = sub[q].overcommit
                      /\ sub[q].tailIndex <= sub'[q].tailIndex
                      /\ q > created => sub'[q].tailIndex = sub[q].tailIndex
    OBVIOUS
  <2>1. SubOK(sub[q]) /\ sub[q].tailIndex \in Nat  BY SubFields DEF QueueTypes
  <2>2. CASE q = p
    <3>1. sub'[q] = s  BY <2>2, <1>3
    <3>2. ~(q > created)
      <4>1. created \in Nat /\ q \in Nat /\ q # 0  BY QueueAssumption DEF TableInv, TableTypes
      <4>2. mine[t] # 0 => mine[t] <= created  BY DEF TableInv, MineInv, Table!NoProducer
      <4> QED BY <4>1, <4>2, <2>2 DEF p
    <3> QED BY <3>1, <3>2, <2>1, <2>2 DEF p
  <2>3. CASE q # p
    <3>1. sub'[q] = sub[q]  BY <2>3, <1>3
    <3> QED BY <3>1, <2>1
  <2> QED BY <2>2, <2>3
<1>5. my' = [my EXCEPT ![t] = my'[t]] /\ my'[t] = Idle  BY SetOK, IdleOK
<1>6. sub' = [q \in Producers |-> sub'[q]]  BY <1>3
<1>7. Idle.pc = "out" /\ Idle.alone = FALSE  BY DEF Idle
<1> QED BY <1>4, <1>5, <1>6, <1>7, IdleOK DEF EnqueueEffect, Walking

LEMMA PutEffect ==
    ASSUME TableInv, QueueTypes, NEW t \in Threads, Put(t)  PROVE EnqueueEffect(t)
<1> DEFINE p == mine[t]
           s == [sub[p] EXCEPT !.tailIndex = sub[p].tailIndex + 1]
<1>1. /\ my[t].pc = "lookup" /\ created' = created /\ Set(t, Idle)
      /\ sub' = [sub EXCEPT ![p].tailIndex = sub[p].tailIndex + 1]
  BY DEF Put, tableVars, Finish
<1>2. sub' = [sub EXCEPT ![p] = s]  BY <1>1
<1>3. SubOK(sub[p]) =>
        /\ SubOK(s)
        /\ s.tailIndex = sub[p].tailIndex + 1 /\ s.headIndex = sub[p].headIndex
        /\ s.optimistic = sub[p].optimistic /\ s.overcommit = sub[p].overcommit
  BY DEF SubOK
<1> HIDE DEF s
<1> QED BY <1>1, <1>2, <1>3, PublishEffect DEF Walking

LEMMA PutFirstEffect ==
    ASSUME TableInv, QueueTypes, NEW t \in Threads, PutFirst(t)  PROVE EnqueueEffect(t)
<1> DEFINE p == mine[t]
           b == my[t].block
           i == sub[p].tailIndex
           named == [sub[p] EXCEPT !.entries[my[t].entry].value = b]
           s == [named EXCEPT !.tailBlock = b, !.tailIndex = i + 1]
<1>1. /\ my[t].pc = "put" /\ created' = created /\ Set(t, Idle)
      /\ sub' = [sub EXCEPT ![p].entries[my[t].entry].value = b,
                            ![p].tailBlock = b, ![p].tailIndex = i + 1]
  BY DEF PutFirst, tableVars, Finish
<1>2. sub' = [sub EXCEPT ![p] = s]  BY <1>1
<1>3. SubOK(sub[p]) =>
        /\ SubOK(s)
        /\ s.tailIndex = sub[p].tailIndex + 1 /\ s.headIndex = sub[p].headIndex
        /\ s.optimistic = sub[p].optimistic /\ s.overcommit = sub[p].overcommit
  <2> SUFFICES ASSUME SubOK(sub[p])
               PROVE  /\ SubOK(s)
                      /\ s.tailIndex = sub[p].tailIndex + 1 /\ s.headIndex = sub[p].headIndex
                      /\ s.optimistic = sub[p].optimistic /\ s.overcommit = sub[p].overcommit
    OBVIOUS
  <2>1. SameCounts(named, sub[p])  BY EditsKeepCounts
  <2> HIDE DEF named
  <2>2. i + 1 \in Nat  BY SubFields
  <2>3. SubOK(named)  BY <2>1 DEF SameCounts
  <2> HIDE DEF i
  <2>4. /\ SubOK(s) /\ s.tailIndex = i + 1 /\ s.headIndex = named.headIndex
        /\ s.optimistic = named.optimistic /\ s.overcommit = named.overcommit
    BY <2>2, <2>3 DEF SubOK
  <2> QED BY <2>1, <2>4 DEF SameCounts, i
<1> HIDE DEF s
<1> QED BY <1>1, <1>2, <1>3, PublishEffect DEF Walking

-----------------------------------------------------------------------------
(* The steps of a dequeue.                                                 *)

\* What they have in common.
DequeueEffect(t) ==
    /\ sub' = [p \in Producers |-> sub'[p]]
    /\ \A p \in Producers : /\ SubOK(sub'[p])
                            /\ sub'[p].tailIndex = sub[p].tailIndex
                            /\ sub[p].headIndex <= sub'[p].headIndex
    /\ my' = [my EXCEPT ![t] = my'[t]]
    /\ CallOK(my'[t]) /\ my[t].pc \in Walking
    /\ my'[t].alone => my[t].alone /\ my'[t].had = my[t].had /\ my'[t].pc \in Walking
    /\ created' = created

\* The counters are the same, the call goes from a label that claims nothing to
\* another one, and knows no more overcommits than there are.
Claimed == {"check", "excess", "take index"}
NoClaim(t) ==
    /\ \A p \in Producers : SameCounts(sub'[p], sub[p])
    /\ my[t].pc \notin Claimed /\ my'[t].pc \notin Claimed
    /\ my'[t].pc \in {"test", "claim"} => my'[t].over <= sub[my'[t].p].overcommit

LEMMA SameEffect ==
    ASSUME QueueTypes, NEW t \in Threads,
           sub' = [p \in Producers |-> sub'[p]],
           \A p \in Producers : SameCounts(sub'[p], sub[p]),
           my' = [my EXCEPT ![t] = my'[t]],
           CallOK(my'[t]), my[t].pc \in Walking,
           my'[t].alone => my[t].alone /\ my'[t].had = my[t].had /\ my'[t].pc \in Walking,
           created' = created
    PROVE  DequeueEffect(t)
<1>1. \A p \in Producers : /\ SubOK(sub'[p])
                           /\ sub'[p].tailIndex = sub[p].tailIndex
                           /\ sub[p].headIndex <= sub'[p].headIndex
  BY SubFields DEF SameCounts, QueueTypes
<1> QED BY <1>1 DEF DequeueEffect

LEMMA UnchangedSub ==
    ASSUME QueueTypes, sub' = sub
    PROVE  /\ sub' = [p \in Producers |-> sub'[p]]
           /\ \A p \in Producers : SameCounts(sub'[p], sub[p])
BY DEF QueueTypes, SameCounts

LEMMA WalkerAt ==
    ASSUME TableTypes, QueueTypes, NEW t \in Threads, my[t].pc \in Walking
    PROVE  my[t].p \in Producers /\ my[t].p \in 1..created /\ created \in Nat
<1>1. my[t].p \in 1..created  BY DEF QueueTypes, CallOK
<1>2. created \in Nat /\ MaxProducers \in Nat /\ created <= MaxProducers
  BY QueueAssumption DEF TableTypes
<1> QED BY <1>1, <1>2

LEMMA ScoreEffect ==
    ASSUME TableTypes, QueueTypes, NEW t \in Threads, Score(t)
    PROVE  DequeueEffect(t) /\ NoClaim(t)
<1> DEFINE r == my[t]
           p == r.p
           size == IF Holds(p) THEN sub[p].tailIndex - sub[p].headIndex ELSE 0
           found == IF size > 0 THEN r.found + 1 ELSE r.found
           best == IF size > r.size THEN p ELSE r.best
           r1 == [r EXCEPT !.p = p - 1, !.found = found, !.best = best,
                           !.size = IF size > @ THEN size ELSE @]
           r2 == [r EXCEPT !.pc = "load", !.p = best, !.best = best, !.found = 0, !.size = 0]
<1>0. r.pc = "score" /\ CallOK(r) /\ created' = created /\ sub' = sub
  BY DEF Score, QueueTypes, tableVars
<1>1. \/ p > 1 /\ Set(t, r1)
      \/ Set(t, Idle)
      \/ found # 0 /\ Set(t, r2)
  BY DEF Score, Finish
<1>2. created \in Nat /\ p \in 1..created /\ p \in Producers
  BY <1>0, WalkerAt DEF Walking
<1>3. sub[p].tailIndex \in Nat /\ sub[p].headIndex \in Nat
  BY <1>2, SubFields DEF QueueTypes
<1>4. size \in Nat  BY <1>3 DEF Holds
<1> HIDE DEF size
<1>5. found \in Nat /\ best \in Nat /\ (found = 0 => size = 0 /\ r.found = 0)
  BY <1>0, <1>2, <1>4 DEF CallOK
<1>6. found # 0 => best \in 1..created
  <2>1. CASE r.found = 0
    <3>1. r.size = 0  BY <2>1, <1>0 DEF CallOK
    <3> QED BY <2>1, <3>1, <1>2, <1>4
  <2>2. CASE r.found # 0
    <3>1. r.best \in 1..created  BY <2>2, <1>0 DEF CallOK
    <3> QED BY <3>1, <1>2
  <2> QED BY <2>1, <2>2
<1>7. p > 1 => CallOK(r1) /\ r1.pc = "score" /\ r1.alone = r.alone /\ r1.had = r.had
  <2> SUFFICES ASSUME p > 1
               PROVE  CallOK(r1) /\ r1.pc = "score" /\ r1.alone = r.alone /\ r1.had = r.had
    OBVIOUS
  <2> DEFINE size1 == IF size > r.size THEN size ELSE r.size
  <2>1. p - 1 \in Nat /\ p - 1 \in 1..created  BY <1>2
  <2>2. size1 \in Nat /\ (found = 0 => size1 = 0)  BY <1>0, <1>4, <1>5 DEF CallOK
  <2>3. r1 = [r EXCEPT !.p = p - 1, !.found = found, !.best = best, !.size = size1]
    BY <1>0 DEF CallOK
  <2> HIDE DEF size1, found, best, r1, r, p
  <2>4. /\ r1.pc = "score" /\ r1.alone = r.alone /\ r1.had = r.had /\ r1.p = p - 1
        /\ r1.found = found /\ r1.best = best /\ r1.size = size1
    BY <1>0, <2>3 DEF CallOK
  <2>5. r1 \in [pc: {"out", "lookup", "pool", "get", "put"} \cup Walking,
              p: Nat, i: Nat, over: Nat, tail: {r1.tail}, best: Nat, size: Nat, found: Nat,
              entry: {r1.entry}, block: {r1.block}, header: {r1.header},
              alone: BOOLEAN, had: BOOLEAN]
    BY <1>0, <1>5, <2>1, <2>2, <2>3 DEF CallOK, Walking
  <2> QED BY <2>1, <2>2, <2>4, <2>5, <1>6 DEF CallOK
<1>8. found # 0 => CallOK(r2) /\ r2.pc = "load" /\ r2.alone = r.alone /\ r2.had = r.had
  <2> HIDE DEF found, best
  <2> QED BY <1>0, <1>5, <1>6 DEF CallOK, Walking
<1>9. Idle.pc = "out" /\ Idle.alone = FALSE  BY DEF Idle
<1> HIDE DEF r1, r2, found, best, p
<1>10. /\ my' = [my EXCEPT ![t] = my'[t]] /\ CallOK(my'[t])
       /\ my'[t].pc \in {"score", "load", "out"}
       /\ my'[t].alone => r.alone /\ my'[t].had = r.had /\ my'[t].pc \in Walking
  BY <1>1, <1>7, <1>8, <1>9, SetOK, IdleOK DEF Walking
<1>11. DequeueEffect(t)
  <2> HIDE DEF r
  <2> QED BY <1>0, <1>10, SameEffect, UnchangedSub DEF Walking, r
<1>12. NoClaim(t)  BY <1>0, <1>10, UnchangedSub DEF NoClaim, Claimed
<1> QED BY <1>11, <1>12

\* The next sub-queue of the walk is one of those that exist.
LEMMA OnwardsEffect ==
    ASSUME TableTypes, QueueTypes, NEW t \in Threads, Onwards(t), my[t].pc \in Walking
    PROVE  /\ my' = [my EXCEPT ![t] = my'[t]] /\ CallOK(my'[t])
           /\ my'[t].pc \in {"load", "out"}
           /\ my'[t].alone => my[t].alone /\ my'[t].had = my[t].had /\ my'[t].pc \in Walking
<1> DEFINE r == my[t]
           from == IF r.found = 0 THEN created + 1 ELSE r.p
           rest == {q \in 1..created : q < from /\ q # r.best}
           q == CHOOSE x \in rest : \A y \in rest : y <= x
           r1 == [r EXCEPT !.pc = "load", !.found = 1, !.i = 0, !.over = 0, !.tail = 0, !.p = q]
<1>0. CallOK(r) /\ created \in Nat  BY DEF QueueTypes, TableTypes
<1>1. (rest = {} /\ Set(t, Idle)) \/ (rest # {} /\ Set(t, r1))  BY DEF Onwards, Finish
<1>2. ASSUME rest # {}  PROVE q \in 1..created
  <2> DEFINE T == {n \in Nat : \E x \in rest : x + n = created}
  <2>1. T # {}
    <3>1. PICK x \in rest : TRUE  BY <1>2
    <3>2. created - x \in Nat /\ x + (created - x) = created  BY <3>1, <1>0
    <3> QED BY <3>2
  <2>2. PICK n \in T : \A m \in T : n <= m
    <3> T \in SUBSET Nat  OBVIOUS
    <3> HIDE DEF T
    <3> QED BY <2>1, LeastNat
  <2>3. PICK x \in rest : x + n = created  BY <2>2
  <2>4. \A y \in rest : y <= x
    <3> SUFFICES ASSUME NEW y \in rest  PROVE y <= x  OBVIOUS
    <3>1. created - y \in Nat /\ y + (created - y) = created  BY <1>0
    <3>2. created - y \in T  BY <3>1
    <3>3. n <= created - y  BY <3>2, <2>2
    <3> QED BY <3>3, <2>3, <1>0, <2>2
  <2>5. q \in rest
    <3> HIDE DEF rest
    <3> QED BY <2>4
  <2> QED BY <2>5
<1> HIDE DEF q
<1>3. rest # {} => CallOK(r1) /\ r1.pc = "load" /\ r1.alone = r.alone /\ r1.had = r.had
  <2> SUFFICES ASSUME rest # {}
               PROVE  CallOK(r1) /\ r1.pc = "load" /\ r1.alone = r.alone /\ r1.had = r.had
    OBVIOUS
  <2>1. q \in 1..created /\ q \in Nat  BY <1>2
  <2> HIDE DEF rest
  <2> QED BY <1>0, <2>1 DEF CallOK, Walking
<1>4. Idle.pc = "out" /\ Idle.alone = FALSE  BY DEF Idle
<1> HIDE DEF r1, rest
<1> QED BY <1>1, <1>3, <1>4, SetOK, IdleOK DEF Walking

\* Steps that change the call's own record only.
LEMMA PlainEffect ==
    ASSUME QueueTypes, NEW t \in Threads, NEW r, Set(t, r), CallOK(r), sub' = sub,
           created' = created, my[t].pc \in Walking,
           r.alone => my[t].alone /\ r.had = my[t].had /\ r.pc \in Walking
    PROVE  DequeueEffect(t) /\ my'[t] = r
BY SetOK, SameEffect, UnchangedSub

LEMMA IdleEffect ==
    ASSUME QueueTypes, NEW t \in Threads, Finish(t), my[t].pc \in Walking,
           sub' = [p \in Producers |-> sub'[p]],
           \A p \in Producers : SameCounts(sub'[p], sub[p]),
           created' = created
    PROVE  DequeueEffect(t) /\ my'[t].pc = "out" /\ my'[t].alone = FALSE
<1>1. my' = [my EXCEPT ![t] = my'[t]] /\ my'[t] = Idle  BY SetOK, IdleOK DEF Finish
<1>2. Idle.pc = "out" /\ Idle.alone = FALSE  BY DEF Idle
<1> QED BY <1>1, <1>2, IdleOK, SameEffect

LEMMA WalkGoOK ==
    ASSUME QueueTypes, NEW t \in Threads, NEW l \in Walking \ {"score"}, Go(t, l),
           my[t].pc \in Walking,
           l \in {"test", "claim", "check"} => my[t].pc \in {"test", "claim", "check"}
    PROVE  /\ my' = [my EXCEPT ![t] = my'[t]] /\ CallOK(my'[t])
           /\ my'[t] = [my[t] EXCEPT !.pc = l] /\ my'[t].pc = l
           /\ my'[t].alone = my[t].alone /\ my'[t].had = my[t].had
           /\ my'[t].p = my[t].p /\ my'[t].over = my[t].over /\ my'[t].i = my[t].i
           /\ my'[t].tail = my[t].tail
<1>1. my' = [my EXCEPT ![t] = [my[t] EXCEPT !.pc = l]]  BY DEF Go
<1>2. CallOK(my[t]) /\ my' = [my EXCEPT ![t] = my'[t]] /\ my'[t] = [my[t] EXCEPT !.pc = l]
  BY <1>1 DEF QueueTypes
<1> DEFINE c == my[t]
           d == [c EXCEPT !.pc = l]
<1>3. /\ CallOK(d) /\ d.pc = l /\ d.alone = c.alone /\ d.had = c.had /\ d.p = c.p
      /\ d.over = c.over /\ d.i = c.i /\ d.tail = c.tail
  <2>1. CallOK(c) /\ l \in Walking /\ l # "score" /\ c.pc \in Walking  BY <1>2
  <2>2. l \in {"test", "claim", "check"} => c.tail \in Nat  BY <2>1 DEF CallOK
  <2>3. c.p \in 1..created  BY <2>1 DEF CallOK
  <2> HIDE DEF c
  <2> QED BY <2>1, <2>2, <2>3 DEF CallOK
<1> HIDE DEF c, d
<1> QED BY <1>2, <1>3 DEF c, d

LEMMA LoadOverEffect ==
    ASSUME TableTypes, QueueTypes, NEW t \in Threads, LoadOver(t)
    PROVE  /\ DequeueEffect(t) /\ NoClaim(t) /\ sub' = sub
           /\ my'[t].pc = "test" /\ my'[t].p = my[t].p /\ my'[t].p \in Producers
           /\ my'[t].tail = sub[my[t].p].tailIndex /\ my'[t].over = sub[my[t].p].overcommit
<1> DEFINE p == my[t].p
           r == [my[t] EXCEPT !.pc = "test", !.tail = sub[p].tailIndex, !.over = sub[p].overcommit]
<1>0. my[t].pc = "load" /\ CallOK(my[t]) /\ created' = created /\ sub' = sub /\ Set(t, r)
  BY DEF LoadOver, QueueTypes, tableVars
<1>1. p \in Producers /\ p \in 1..created  BY <1>0, WalkerAt DEF Walking
<1>2. sub[p].tailIndex \in Nat /\ sub[p].overcommit \in Nat  BY <1>1, SubFields DEF QueueTypes
<1>3. /\ CallOK(r) /\ r.pc = "test" /\ r.p = p /\ r.tail = sub[p].tailIndex
      /\ r.over = sub[p].overcommit /\ r.alone = my[t].alone /\ r.had = my[t].had
  BY <1>0, <1>1, <1>2 DEF CallOK, Walking
<1> HIDE DEF r
<1>4. DequeueEffect(t) /\ my'[t] = r
  BY <1>0, <1>3, PlainEffect DEF Walking
<1>5. NoClaim(t)
  <2>1. my'[t].over <= sub[my'[t].p].overcommit  BY <1>2, <1>3, <1>4
  <2>2. \A q \in Producers : SameCounts(sub'[q], sub[q])  BY <1>0, UnchangedSub
  <2> QED BY <1>0, <1>3, <1>4, <2>1, <2>2 DEF NoClaim, Claimed
<1> QED BY <1>0, <1>1, <1>3, <1>4, <1>5

LEMMA TestEffect ==
    ASSUME TableTypes, QueueTypes, ClaimInv, NEW t \in Threads, TestOptimistic(t)
    PROVE  /\ DequeueEffect(t) /\ NoClaim(t) /\ sub' = sub
           /\ IF sub[my[t].p].optimistic < my[t].tail + my[t].over
              THEN my'[t] = [my[t] EXCEPT !.pc = "claim"]
              ELSE my'[t].pc \in {"load", "out"}
<1>0. my[t].pc = "test" /\ CallOK(my[t]) /\ created' = created /\ sub' = sub
  BY DEF TestOptimistic, QueueTypes, tableVars
<1>1. my[t].p \in Producers  BY <1>0, WalkerAt DEF Walking
<1>2. my[t].over <= sub[my[t].p].overcommit  BY <1>0, <1>1 DEF ClaimInv, ClaimAt, AtLabel
<1>3. CASE sub[my[t].p].optimistic < my[t].tail + my[t].over
  <2>1. Go(t, "claim")  BY <1>3 DEF TestOptimistic
  <2>2. /\ my' = [my EXCEPT ![t] = my'[t]] /\ CallOK(my'[t])
        /\ my'[t] = [my[t] EXCEPT !.pc = "claim"] /\ my'[t].pc = "claim"
        /\ my'[t].alone = my[t].alone /\ my'[t].had = my[t].had
        /\ my'[t].p = my[t].p /\ my'[t].over = my[t].over
    BY <1>0, <2>1, WalkGoOK DEF Walking
  <2>3. DequeueEffect(t)  BY <1>0, <2>2, SameEffect, UnchangedSub DEF Walking
  <2>4. NoClaim(t)  BY <1>0, <1>2, <2>2, UnchangedSub DEF NoClaim, Claimed
  <2> QED BY <1>0, <1>3, <2>2, <2>3, <2>4
<1>4. CASE ~(sub[my[t].p].optimistic < my[t].tail + my[t].over)
  <2>1. Onwards(t)  BY <1>4 DEF TestOptimistic
  <2>2. /\ my' = [my EXCEPT ![t] = my'[t]] /\ CallOK(my'[t])
        /\ my'[t].pc \in {"load", "out"}
        /\ my'[t].alone => my[t].alone /\ my'[t].had = my[t].had /\ my'[t].pc \in Walking
    BY <1>0, <2>1, OnwardsEffect DEF Walking
  <2>3. DequeueEffect(t)  BY <1>0, <2>2, SameEffect, UnchangedSub DEF Walking
  <2>4. NoClaim(t)  BY <1>0, <2>2, UnchangedSub DEF NoClaim, Claimed
  <2> QED BY <1>0, <1>4, <2>2, <2>3, <2>4
<1> QED BY <1>3, <1>4

\* One sub-queue's counters change.
LEMMA OneSub ==
    ASSUME QueueTypes, NEW p \in Producers, NEW s, SubOK(s), sub' = [sub EXCEPT ![p] = s]
    PROVE  /\ sub' = [q \in Producers |-> sub'[q]] /\ sub'[p] = s
           /\ \A q \in Producers : q # p => sub'[q] = sub[q]
           /\ \A q \in Producers : SubOK(sub'[q])
<1>1. sub' = [q \in Producers |-> IF q = p THEN s ELSE sub[q]]  BY DEF QueueTypes
<1> QED BY <1>1 DEF QueueTypes

LEMMA ClaimEffect ==
    ASSUME TableTypes, QueueTypes, NEW t \in Threads, Claim(t)
    PROVE  LET p == my[t].p IN
           /\ DequeueEffect(t) /\ my[t].pc = "claim" /\ p \in Producers
           /\ my'[t] = [my[t] EXCEPT !.pc = "check", !.i = sub[p].optimistic]
           /\ sub'[p].optimistic = sub[p].optimistic + 1
           /\ sub'[p].headIndex = sub[p].headIndex /\ sub'[p].overcommit = sub[p].overcommit
           /\ \A q \in Producers : q # p => sub'[q] = sub[q]
<1> DEFINE p == my[t].p
           r == [my[t] EXCEPT !.pc = "check", !.i = sub[p].optimistic]
           s == [sub[p] EXCEPT !.optimistic = @ + 1]
<1>0. /\ my[t].pc = "claim" /\ CallOK(my[t]) /\ created' = created /\ Set(t, r)
      /\ sub' = [sub EXCEPT ![p] = s]
  BY DEF Claim, QueueTypes, tableVars
<1>1. p \in Producers /\ SubOK(sub[p])  BY <1>0, WalkerAt DEF Walking, QueueTypes
<1>2. /\ SubOK(s) /\ s.optimistic = sub[p].optimistic + 1 /\ s.headIndex = sub[p].headIndex
      /\ s.overcommit = sub[p].overcommit /\ s.tailIndex = sub[p].tailIndex
  BY <1>1 DEF SubOK
<1>3. sub[p].optimistic \in Nat  BY <1>1, SubFields
<1>4. CallOK(r) /\ r.pc = "check" /\ r.alone = my[t].alone /\ r.had = my[t].had
  BY <1>0, <1>3 DEF CallOK, Walking
<1> HIDE DEF r, s, p
<1>5. /\ sub' = [q \in Producers |-> sub'[q]] /\ sub'[p] = s
      /\ \A q \in Producers : q # p => sub'[q] = sub[q]
      /\ \A q \in Producers : SubOK(sub'[q])
  BY <1>0, <1>1, <1>2, OneSub
<1>6. my' = [my EXCEPT ![t] = my'[t]] /\ my'[t] = r  BY <1>0, <1>4, SetOK
<1>7. \A q \in Producers : /\ sub'[q].tailIndex = sub[q].tailIndex
                           /\ sub[q].headIndex <= sub'[q].headIndex
  <2> SUFFICES ASSUME NEW q \in Producers
               PROVE  /\ sub'[q].tailIndex = sub[q].tailIndex
                      /\ sub[q].headIndex <= sub'[q].headIndex
    OBVIOUS
  <2>1. sub[q].headIndex \in Nat  BY SubFields DEF QueueTypes
  <2>2. CASE q = p  BY <2>1, <2>2, <1>2, <1>5
  <2>3. CASE q # p  BY <2>1, <2>3, <1>5
  <2> QED BY <2>2, <2>3
<1>8. DequeueEffect(t)  BY <1>0, <1>4, <1>5, <1>6, <1>7 DEF DequeueEffect, Walking
<1> QED BY <1>0, <1>1, <1>2, <1>5, <1>6, <1>8 DEF p, r

LEMMA CheckEffect ==
    ASSUME TableTypes, QueueTypes, NEW t \in Threads, Check(t)
    PROVE  LET p == my[t].p IN
           /\ DequeueEffect(t) /\ my[t].pc = "check" /\ p \in Producers /\ sub' = sub
           /\ my'[t].p = p
           /\ my'[t].pc = IF my[t].i < sub[p].tailIndex + my[t].over THEN "take index" ELSE "excess"
<1>0. my[t].pc = "check" /\ CallOK(my[t]) /\ created' = created /\ sub' = sub
  BY DEF Check, QueueTypes, tableVars
<1>1. PICK l \in {"take index", "excess"} :
        /\ Go(t, l)
        /\ l = IF my[t].i < sub[my[t].p].tailIndex + my[t].over THEN "take index" ELSE "excess"
  BY DEF Check
<1>2. /\ my' = [my EXCEPT ![t] = my'[t]] /\ CallOK(my'[t])
      /\ my'[t].pc = l /\ my'[t].p = my[t].p
      /\ my'[t].alone = my[t].alone /\ my'[t].had = my[t].had
  BY <1>0, <1>1, WalkGoOK DEF Walking
<1>3. DequeueEffect(t)  BY <1>0, <1>2, SameEffect, UnchangedSub DEF Walking
<1> QED BY <1>0, <1>1, <1>2, <1>3, WalkerAt DEF Walking

LEMMA ExcessEffect ==
    ASSUME TableTypes, QueueTypes, NEW t \in Threads, Excess(t)
    PROVE  LET p == my[t].p IN
           /\ DequeueEffect(t) /\ my[t].pc = "excess" /\ p \in Producers
           /\ my'[t].pc \in {"load", "out"}
           /\ sub'[p].overcommit = sub[p].overcommit + 1
           /\ sub'[p].headIndex = sub[p].headIndex /\ sub'[p].optimistic = sub[p].optimistic
           /\ \A q \in Producers : q # p => sub'[q] = sub[q]
<1> DEFINE p == my[t].p
           s == [sub[p] EXCEPT !.overcommit = @ + 1]
<1>0. /\ my[t].pc = "excess" /\ created' = created /\ Onwards(t)
      /\ sub' = [sub EXCEPT ![p] = s]
  BY DEF Excess, tableVars
<1>1. p \in Producers /\ SubOK(sub[p])  BY <1>0, WalkerAt DEF Walking, QueueTypes
<1>2. /\ SubOK(s) /\ s.overcommit = sub[p].overcommit + 1 /\ s.headIndex = sub[p].headIndex
      /\ s.optimistic = sub[p].optimistic /\ s.tailIndex = sub[p].tailIndex
  BY <1>1 DEF SubOK
<1>3. /\ my' = [my EXCEPT ![t] = my'[t]] /\ CallOK(my'[t])
      /\ my'[t].pc \in {"load", "out"}
      /\ my'[t].alone => my[t].alone /\ my'[t].had = my[t].had /\ my'[t].pc \in Walking
  BY <1>0, OnwardsEffect DEF Walking
<1> HIDE DEF s, p
<1>5. /\ sub' = [q \in Producers |-> sub'[q]] /\ sub'[p] = s
      /\ \A q \in Producers : q # p => sub'[q] = sub[q]
      /\ \A q \in Producers : SubOK(sub'[q])
  BY <1>0, <1>1, <1>2, OneSub
<1>7. \A q \in Producers : /\ sub'[q].tailIndex = sub[q].tailIndex
                           /\ sub[q].headIndex <= sub'[q].headIndex
  <2> SUFFICES ASSUME NEW q \in Producers
               PROVE  /\ sub'[q].tailIndex = sub[q].tailIndex
                      /\ sub[q].headIndex <= sub'[q].headIndex
    OBVIOUS
  <2>1. sub[q].headIndex \in Nat  BY SubFields DEF QueueTypes
  <2>2. CASE q = p  BY <2>1, <2>2, <1>2, <1>5
  <2>3. CASE q # p  BY <2>1, <2>3, <1>5
  <2> QED BY <2>2, <2>3
<1>8. DequeueEffect(t)  BY <1>0, <1>3, <1>5, <1>7 DEF DequeueEffect, Walking
<1> QED BY <1>0, <1>1, <1>2, <1>3, <1>5, <1>8 DEF p

LEMMA TakeIndexEffect ==
    ASSUME TableTypes, QueueTypes, NEW t \in Threads, TakeIndex(t)
    PROVE  LET p == my[t].p IN
           /\ DequeueEffect(t) /\ my[t].pc = "take index" /\ p \in Producers
           /\ my'[t].pc = "find"
           /\ sub'[p].headIndex = sub[p].headIndex + 1
           /\ sub'[p].overcommit = sub[p].overcommit /\ sub'[p].optimistic = sub[p].optimistic
           /\ \A q \in Producers : q # p => sub'[q] = sub[q]
<1> DEFINE p == my[t].p
           r == [my[t] EXCEPT !.pc = "find", !.i = sub[p].headIndex]
           s == [sub[p] EXCEPT !.headIndex = @ + 1]
<1>0. /\ my[t].pc = "take index" /\ CallOK(my[t]) /\ created' = created /\ Set(t, r)
      /\ sub' = [sub EXCEPT ![p] = s]
  BY DEF TakeIndex, QueueTypes, tableVars
<1>1. p \in Producers /\ SubOK(sub[p])  BY <1>0, WalkerAt DEF Walking, QueueTypes
<1>2. /\ SubOK(s) /\ s.headIndex = sub[p].headIndex + 1 /\ s.optimistic = sub[p].optimistic
      /\ s.overcommit = sub[p].overcommit /\ s.tailIndex = sub[p].tailIndex
  BY <1>1 DEF SubOK
<1>3. sub[p].headIndex \in Nat  BY <1>1, SubFields
<1>4. CallOK(r) /\ r.pc = "find" /\ r.alone = my[t].alone /\ r.had = my[t].had
  BY <1>0, <1>3 DEF CallOK, Walking
<1> HIDE DEF r, s, p
<1>5. /\ sub' = [q \in Producers |-> sub'[q]] /\ sub'[p] = s
      /\ \A q \in Producers : q # p => sub'[q] = sub[q]
      /\ \A q \in Producers : SubOK(sub'[q])
  BY <1>0, <1>1, <1>2, OneSub
<1>6. my' = [my EXCEPT ![t] = my'[t]] /\ my'[t] = r  BY <1>0, <1>4, SetOK
<1>7. \A q \in Producers : /\ sub'[q].tailIndex = sub[q].tailIndex
                           /\ sub[q].headIndex <= sub'[q].headIndex
  <2> SUFFICES ASSUME NEW q \in Producers
               PROVE  /\ sub'[q].tailIndex = sub[q].tailIndex
                      /\ sub[q].headIndex <= sub'[q].headIndex
    OBVIOUS
  <2>1. sub[q].headIndex \in Nat  BY SubFields DEF QueueTypes
  <2>2. CASE q = p  BY <2>1, <2>2, <1>2, <1>5
  <2>3. CASE q # p  BY <2>1, <2>3, <1>5
  <2> QED BY <2>2, <2>3
<1>8. DequeueEffect(t)  BY <1>0, <1>4, <1>5, <1>6, <1>7 DEF DequeueEffect, Walking
<1> QED BY <1>0, <1>1, <1>2, <1>4, <1>5, <1>6, <1>8 DEF p

\* The rest of a dequeue that took an index: the call goes on to some label
\* after that or ends, and the counters stay.
LEMMA TakenEffect ==
    ASSUME TableTypes, QueueTypes, NEW t \in Threads,
           FindIndex(t) \/ FindEntry(t) \/ Move(t) \/ Unlink(t) \/ EndDequeue(t)
    PROVE  /\ DequeueEffect(t) /\ NoClaim(t)
           /\ my[t].pc \in {"find", "entry", "move", "unlink", "add"}
           /\ my'[t].pc \in {"entry", "move", "unlink", "add", "out"}
<1> DEFINE p == my[t].p
           Late == {"find", "entry", "move", "unlink", "add"}
           s(e) == [sub[p] EXCEPT !.entries[e].value = Null]
           r1(x, y) == [my[t] EXCEPT !.pc = "entry", !.header = x, !.tail = y]
           r2(x, y) == [my[t] EXCEPT !.pc = "move", !.entry = x, !.block = y]
<1>0. my[t].pc \in Late /\ CallOK(my[t]) /\ created' = created
  BY DEF FindIndex, FindEntry, Move, Unlink, EndDequeue, QueueTypes, tableVars
<1>1. /\ sub' = sub \/ \E e : sub' = [sub EXCEPT ![p] = s(e)]
      /\ \/ \E x, y : Set(t, r1(x, y))
         \/ \E x, y : Set(t, r2(x, y))
         \/ Go(t, "unlink") \/ Go(t, "add") \/ Finish(t)
  BY DEF FindIndex, FindEntry, Move, Unlink, EndDequeue
<1>2. p \in Producers /\ SubOK(sub[p])  BY <1>0, WalkerAt DEF Walking, QueueTypes
<1>3. /\ sub' = [q \in Producers |-> sub'[q]]
      /\ \A q \in Producers : SameCounts(sub'[q], sub[q])
  <2>1. CASE sub' = sub  BY <2>1, UnchangedSub
  <2>2. ASSUME NEW e, sub' = [sub EXCEPT ![p] = s(e)]
        PROVE  /\ sub' = [q \in Producers |-> sub'[q]]
               /\ \A q \in Producers : SameCounts(sub'[q], sub[q])
    <3>1. SameCounts(s(e), sub[p])  BY <1>2, EditsKeepCounts
    <3> HIDE DEF s, p
    <3> QED BY <2>2, <3>1, OneEdited
  <2> QED BY <1>1, <2>1, <2>2
<1>4. ASSUME NEW x, NEW y
      PROVE  /\ CallOK(r1(x, y)) /\ r1(x, y).pc = "entry"
             /\ r1(x, y).alone = my[t].alone /\ r1(x, y).had = my[t].had
  <2> DEFINE c == my[t]
             d == [c EXCEPT !.pc = "entry", !.header = x, !.tail = y]
  <2>1. CallOK(c) /\ c.pc \in Late  BY <1>0
  <2> HIDE DEF c
  <2>2. d.pc = "entry" /\ d.alone = c.alone /\ d.had = c.had /\ d.p = c.p  BY <2>1 DEF CallOK
  <2>3. c.p \in 1..created  BY <2>1 DEF CallOK, Walking
  <2>4. d \in [pc: {"out", "lookup", "pool", "get", "put"} \cup Walking,
              p: Nat, i: Nat, over: Nat, tail: {d.tail}, best: Nat, size: Nat, found: Nat,
              entry: {d.entry}, block: {d.block}, header: {d.header},
              alone: BOOLEAN, had: BOOLEAN]
    BY <2>1 DEF CallOK, Walking
  <2>5. r1(x, y) = d  BY DEF c
  <2> HIDE DEF d, r1
  <2>6. CallOK(d)  BY <2>2, <2>3, <2>4 DEF CallOK
  <2> QED BY <2>2, <2>5, <2>6 DEF c
<1>5. ASSUME NEW x, NEW y
      PROVE  /\ CallOK(r2(x, y)) /\ r2(x, y).pc = "move"
             /\ r2(x, y).alone = my[t].alone /\ r2(x, y).had = my[t].had
  <2> DEFINE c == my[t]
             d == [c EXCEPT !.pc = "move", !.entry = x, !.block = y]
  <2>1. CallOK(c) /\ c.pc \in Late  BY <1>0
  <2> HIDE DEF c
  <2>2. d.pc = "move" /\ d.alone = c.alone /\ d.had = c.had /\ d.p = c.p  BY <2>1 DEF CallOK
  <2>3. c.p \in 1..created  BY <2>1 DEF CallOK, Walking
  <2>4. d \in [pc: {"out", "lookup", "pool", "get", "put"} \cup Walking,
              p: Nat, i: Nat, over: Nat, tail: {d.tail}, best: Nat, size: Nat, found: Nat,
              entry: {d.entry}, block: {d.block}, header: {d.header},
              alone: BOOLEAN, had: BOOLEAN]
    BY <2>1 DEF CallOK, Walking
  <2>5. r2(x, y) = d  BY DEF c
  <2> HIDE DEF d, r2
  <2>6. CallOK(d)  BY <2>2, <2>3, <2>4 DEF CallOK
  <2> QED BY <2>2, <2>5, <2>6 DEF c
<1> HIDE DEF r1, r2, s
<1>6. /\ my' = [my EXCEPT ![t] = my'[t]] /\ CallOK(my'[t])
      /\ my'[t].pc \in {"entry", "move", "unlink", "add", "out"}
      /\ my'[t].alone => my[t].alone /\ my'[t].had = my[t].had /\ my'[t].pc \in Walking
  <2>1. CASE \E x, y : Set(t, r1(x, y))
    <3>1. PICK x, y : Set(t, r1(x, y))  BY <2>1
    <3>2. my' = [my EXCEPT ![t] = my'[t]] /\ my'[t] = r1(x, y)  BY <1>4, <3>1, SetOK
    <3>3. /\ CallOK(my'[t]) /\ my'[t].pc = "entry"
          /\ my'[t].alone = my[t].alone /\ my'[t].had = my[t].had
      BY <1>4, <3>2
    <3>4. my'[t].pc \in {"entry", "move", "unlink", "add", "out"} /\ my'[t].pc \in Walking
      BY <3>3 DEF Walking
    <3> QED BY <3>2, <3>3, <3>4
  <2>2. CASE \E x, y : Set(t, r2(x, y))
    <3>1. PICK x, y : Set(t, r2(x, y))  BY <2>2
    <3>2. my' = [my EXCEPT ![t] = my'[t]] /\ my'[t] = r2(x, y)  BY <1>5, <3>1, SetOK
    <3>3. /\ CallOK(my'[t]) /\ my'[t].pc = "move"
          /\ my'[t].alone = my[t].alone /\ my'[t].had = my[t].had
      BY <1>5, <3>2
    <3>4. my'[t].pc \in {"entry", "move", "unlink", "add", "out"} /\ my'[t].pc \in Walking
      BY <3>3 DEF Walking
    <3> QED BY <3>2, <3>3, <3>4
  <2>3. CASE Go(t, "unlink")  BY <1>0, <2>3, WalkGoOK DEF Walking
  <2>4. CASE Go(t, "add")  BY <1>0, <2>4, WalkGoOK DEF Walking
  <2>5. CASE Finish(t)
    <3>1. my' = [my EXCEPT ![t] = my'[t]] /\ my'[t] = Idle  BY <2>5, SetOK, IdleOK DEF Finish
    <3>2. Idle.pc = "out" /\ Idle.alone = FALSE  BY DEF Idle
    <3> QED BY <3>1, <3>2, IdleOK
  <2> QED BY <1>1, <2>1, <2>2, <2>3, <2>4, <2>5
<1>7. DequeueEffect(t)  BY <1>0, <1>3, <1>6, SameEffect DEF Walking
<1>8. NoClaim(t)  BY <1>0, <1>3, <1>6 DEF NoClaim, Claimed
<1> QED BY <1>0, <1>6, <1>7, <1>8

-----------------------------------------------------------------------------
(* Every step is one of these; the types hold after each.                  *)

StillEffect == sub' = sub /\ my' = my /\ created <= created'

\* The call that begins, and the calls that are no longer alone.
CallDequeueEffect(t) ==
    /\ sub' = sub /\ created' = created /\ my' = [u \in Threads |-> my'[u]]
    /\ my[t].pc = "out" /\ CallOK(my'[t])
    /\ my'[t].pc = "score" /\ my'[t].p = created /\ my'[t].found = 0
    /\ my'[t].had => \E q \in Producers : Holds(q)
    /\ my'[t].alone => \A u \in Threads \ {t} : my[u].pc \notin Walking
    /\ \A u \in Threads \ {t} : my'[u] = [my[u] EXCEPT !.alone = FALSE]

Taking(t) == FindIndex(t) \/ FindEntry(t) \/ Move(t) \/ Unlink(t) \/ EndDequeue(t)
DequeueStep(t) == Score(t) \/ LoadOver(t) \/ TestOptimistic(t) \/ Claim(t) \/ Check(t)
                    \/ Excess(t) \/ TakeIndex(t) \/ Taking(t)

LEMMA CallDequeueHas ==
    ASSUME TableTypes, QueueTypes, NEW t \in Threads, CallDequeue(t)
    PROVE  CallDequeueEffect(t)
<1> DEFINE alone == \A v \in Threads \ {t} : ~Dequeuing(v)
           had == \E p \in Producers : Holds(p)
           r == [Idle EXCEPT !.pc = "score", !.p = created, !.alone = alone, !.had = had]
<1>1. /\ my[t].pc = "out" /\ created > 0 /\ sub' = sub /\ created' = created
      /\ my' = [u \in Threads |-> IF u = t THEN r ELSE [my[u] EXCEPT !.alone = FALSE]]
  BY DEF CallDequeue, tableVars
<1>2. alone \in BOOLEAN /\ had \in BOOLEAN  OBVIOUS
<1>3. created \in Nat /\ created \in 1..created
  <2>1. created \in Nat  BY DEF TableTypes
  <2>2. created > 0  BY <1>1
  <2> QED BY <2>1, <2>2
<1>4. alone => \A u \in Threads \ {t} : my[u].pc \notin Walking
  BY DEF Dequeuing, Walking
<1>5. had => \E q \in Producers : Holds(q)  OBVIOUS
<1> HIDE DEF alone, had
<1>6. /\ r.pc = "score" /\ r.p = created /\ r.found = 0 /\ r.size = 0
      /\ r.alone = alone /\ r.had = had
  BY DEF Idle
<1>7. CallOK(r)  BY <1>2, <1>3 DEF CallOK, Idle, Walking
<1> HIDE DEF r
<1>8. my' = [u \in Threads |-> my'[u]] /\ my'[t] = r
      /\ \A u \in Threads \ {t} : my'[u] = [my[u] EXCEPT !.alone = FALSE]
  BY <1>1
<1> QED BY <1>1, <1>4, <1>5, <1>6, <1>7, <1>8 DEF CallDequeueEffect

\* The lists only grow.
LEMMA StillSteps ==
    ASSUME TableTypes, Destroy \/ UNCHANGED vars
                         \/ \E t \in Threads : TableStep(t) \/ FreeStep(t) \/ ThreadExit(t)
    PROVE  StillEffect
<1>0. created \in Nat  BY DEF TableTypes
<1>1. CASE Destroy  BY <1>0, <1>1 DEF Destroy, StillEffect, tableVars
<1>2. CASE UNCHANGED vars  BY <1>0, <1>2 DEF vars, StillEffect, tableVars
<1>3. ASSUME NEW t \in Threads, FreeStep(t)  PROVE StillEffect
  BY <1>0, <1>3 DEF FreeStep, StillEffect, tableVars
<1>4. ASSUME NEW t \in Threads, ThreadExit(t)  PROVE StillEffect
  BY <1>0, <1>4 DEF ThreadExit, StillEffect, Table!Exit, Table!shared
<1>5. ASSUME NEW t \in Threads, TableStep(t)  PROVE StillEffect
  <2>1. created' \in {created, created + 1}
    BY <1>5 DEF TableStep, Table!Step, Table!Search, Table!Count, Table!TakeFlag, Table!Resize,
                Table!ClearFlag, Table!FailResize, Table!Wait, Table!Recycle, Table!EnterNew,
                Table!Remove, Table!Retire, Table!shared
  <2> QED BY <1>0, <1>5, <2>1 DEF TableStep, StillEffect
<1> QED BY <1>1, <1>2, <1>3, <1>4, <1>5

LEMMA QueueSteps ==
    ASSUME TableInv, QueueTypes, ClaimInv, [Next]_vars
    PROVE  \/ StillEffect
           \/ \E t \in Threads : \/ EnqueueEffect(t)
                                 \/ CallDequeue(t) /\ CallDequeueEffect(t)
                                 \/ DequeueStep(t) /\ DequeueEffect(t)
<1> TableTypes  BY DEF TableInv
<1>1. ASSUME NEW t \in Threads, ThreadStep(t)
      PROVE  \/ StillEffect
             \/ EnqueueEffect(t)
             \/ CallDequeue(t) /\ CallDequeueEffect(t)
             \/ DequeueStep(t) /\ DequeueEffect(t)
  <2>1. CASE CallEnqueue(t) \/ FailEnqueue(t) \/ InsertEntry(t) \/ TakeFromPool(t)
               \/ TakeBlock(t) \/ PutFirst(t) \/ Put(t)
    BY <2>1, CallEnqueueEffect, FailEnqueueEffect, InsertEntryEffect, TakeFromPoolEffect,
       TakeBlockEffect, PutFirstEffect, PutEffect
  <2>2. CASE CallDequeue(t)  BY <2>2, CallDequeueHas
  <2>3. CASE Score(t) \/ LoadOver(t) \/ TestOptimistic(t) \/ Claim(t) \/ Check(t)
    BY <2>3, ScoreEffect, LoadOverEffect, TestEffect, ClaimEffect, CheckEffect DEF DequeueStep
  <2>4. CASE Excess(t) \/ TakeIndex(t) \/ FindIndex(t) \/ FindEntry(t) \/ Move(t) \/ Unlink(t)
               \/ EndDequeue(t)
    BY <2>4, ExcessEffect, TakeIndexEffect, TakenEffect DEF DequeueStep, Taking
  <2>5. CASE ThreadExit(t) \/ TableStep(t) \/ FreeStep(t)  BY <2>5, StillSteps
  <2> QED BY <1>1, <2>1, <2>2, <2>3, <2>4, <2>5 DEF ThreadStep
<1>2. CASE Destroy \/ UNCHANGED vars  BY <1>2, StillSteps
<1> QED BY <1>1, <1>2 DEF Next

\* A call keeps its type while the list of producers grows.
LEMMA CallStays ==
    ASSUME TableTypes, TableTypes', created <= created', NEW u \in Threads, CallOK(my'[u])
    PROVE  CallOK(my[u])'
<1>1. created \in Nat /\ created' \in Nat  BY DEF TableTypes
<1>2. 1..created \subseteq 1..created'  BY <1>1
<1> DEFINE c == my'[u]
<1>3. CallOK(c)  OBVIOUS
<1> HIDE DEF c
<1>4. /\ c \in [pc: {"out", "lookup", "pool", "get", "put"} \cup Walking,
              p: Nat, i: Nat, over: Nat, tail: {c.tail}, best: Nat, size: Nat, found: Nat,
              entry: {c.entry}, block: {c.block}, header: {c.header},
              alone: BOOLEAN, had: BOOLEAN]
      /\ c.pc \in Walking => c.p \in 1..created'
      /\ c.pc \in {"test", "claim", "check"} => c.tail \in Nat
      /\ c.pc = "score" => IF c.found = 0 THEN c.size = 0 ELSE c.best \in 1..created'
  BY <1>2, <1>3 DEF CallOK
<1> QED BY <1>4 DEF c, CallOK

LEMMA AllCalls ==
    ASSUME TableTypes, TableTypes', created <= created', sub' = [p \in Producers |-> sub'[p]],
           \A p \in Producers : SubOK(sub'[p]),
           my' = [u \in Threads |-> my'[u]], \A u \in Threads : CallOK(my'[u])
    PROVE  QueueTypes'
<1>1. \A u \in Threads : CallOK(my[u])'  BY CallStays
<1>2. \A p \in Producers : SubOK(sub[p])'  BY DEF SubOK
<1> QED BY <1>1, <1>2 DEF QueueTypes

LEMMA TypesNext ==
    ASSUME TableInv, TableTypes', QueueTypes, ClaimInv, [Next]_vars
    PROVE  QueueTypes'
<1> TableTypes /\ created \in Nat /\ created <= created  BY DEF TableInv, TableTypes
<1>1. CASE StillEffect
  <2>1. \A p \in Producers : SubOK(sub'[p])  BY <1>1 DEF StillEffect, QueueTypes
  <2>2. \A u \in Threads : CallOK(my'[u])  BY <1>1 DEF StillEffect, QueueTypes
  <2> QED BY <1>1, <2>1, <2>2, AllCalls DEF StillEffect, QueueTypes
<1>2. ASSUME NEW t \in Threads, EnqueueEffect(t) \/ DequeueEffect(t)
      PROVE  QueueTypes'
  <2>1. /\ created' = created /\ sub' = [p \in Producers |-> sub'[p]]
        /\ my' = [my EXCEPT ![t] = my'[t]] /\ CallOK(my'[t])
        /\ \A p \in Producers : SubOK(sub'[p])
    BY <1>2 DEF EnqueueEffect, DequeueEffect
  <2>2. my' = [u \in Threads |-> IF u = t THEN my'[t] ELSE my[u]]  BY <2>1 DEF QueueTypes
  <2>3. my' = [u \in Threads |-> my'[u]]  BY <2>2
  <2>4. \A u \in Threads : CallOK(my'[u])  BY <2>1, <2>2 DEF QueueTypes
  <2> QED BY <2>1, <2>3, <2>4, AllCalls
<1>3. ASSUME NEW t \in Threads, CallDequeueEffect(t)  PROVE QueueTypes'
  <2>1. \A u \in Threads : CallOK(my'[u])
    <3>1. \A r : CallOK(r) => CallOK([r EXCEPT !.alone = FALSE])  BY DEF CallOK
    <3>2. \A u \in Threads : CallOK(my[u])  BY DEF QueueTypes
    <3> QED BY <1>3, <3>1, <3>2 DEF CallDequeueEffect
  <2>2. \A p \in Producers : SubOK(sub'[p])  BY <1>3 DEF CallDequeueEffect, QueueTypes
  <2> QED BY <1>3, <2>1, <2>2, AllCalls DEF CallDequeueEffect, QueueTypes
<1> QED BY <1>1, <1>2, <1>3, QueueSteps

-----------------------------------------------------------------------------
(* The claims.                                                             *)

\* The other calls are where they were, with what they had read.
Others(t) ==
    \A u \in Threads \ {t} : /\ my'[u].pc = my[u].pc /\ my'[u].p = my[u].p
                             /\ my'[u].i = my[u].i /\ my'[u].over = my[u].over

LEMMA LabelFinite ==
    ASSUME NEW p, NEW l
    PROVE  IsFiniteSet(AtLabel(p, l)) /\ Cardinality(AtLabel(p, l)) \in Nat
<1>1. AtLabel(p, l) \subseteq Threads  BY DEF AtLabel
<1> QED BY <1>1, QueueAssumption, FS_Subset, FS_CardinalityType

LEMMA LabelFiniteNext ==
    ASSUME NEW p, NEW l
    PROVE  IsFiniteSet(AtLabel(p, l)') /\ Cardinality(AtLabel(p, l))' \in Nat
<1>1. AtLabel(p, l)' \subseteq Threads  BY DEF AtLabel
<1> QED BY <1>1, QueueAssumption, FS_Subset, FS_CardinalityType

LEMMA AheadFinite ==
    ASSUME NEW t
    PROVE  /\ IsFiniteSet(Ahead(t)) /\ Cardinality(Ahead(t)) \in Nat
           /\ Ahead(t) \subseteq AtLabel(my[t].p, "check")
<1>1. Ahead(t) \subseteq Threads /\ Ahead(t) \subseteq AtLabel(my[t].p, "check")
  BY DEF AtLabel, Ahead
<1> QED BY <1>1, QueueAssumption, FS_Subset, FS_CardinalityType

\* Only the thread that steps enters or leaves a label.
LEMMA LabelSet ==
    ASSUME NEW t \in Threads, Others(t), NEW p, NEW l
    PROVE  AtLabel(p, l)' = IF my'[t].pc = l /\ my'[t].p = p THEN AtLabel(p, l) \cup {t}
                                                            ELSE AtLabel(p, l) \ {t}
BY DEF AtLabel, Others

LEMMA LabelCount ==
    ASSUME NEW t \in Threads, Others(t), NEW p, NEW l
    PROVE  LET is == my'[t].pc = l /\ my'[t].p = p
               was == my[t].pc = l /\ my[t].p = p
               count == Cardinality(AtLabel(p, l))
           IN  /\ (is <=> was) => count' = count
               /\ is /\ ~was => count' = count + 1
               /\ ~is /\ was => count' = count - 1
<1> DEFINE S == AtLabel(p, l)
           is == my'[t].pc = l /\ my'[t].p = p
           was == my[t].pc = l /\ my[t].p = p
<1>1. t \in S <=> was  BY DEF AtLabel
<1>2. S' = IF is THEN S \cup {t} ELSE S \ {t}  BY LabelSet
<1>3. IsFiniteSet(S) /\ Cardinality(S) \in Nat  BY LabelFinite
<1>4. Cardinality(S \cup {t}) = IF t \in S THEN Cardinality(S) ELSE Cardinality(S) + 1
  BY <1>3, FS_AddElement
<1>5. Cardinality(S \ {t}) = IF t \in S THEN Cardinality(S) - 1 ELSE Cardinality(S)
  BY <1>3, FS_RemoveElement
<1>6. /\ (is <=> was) => Cardinality(S') = Cardinality(S)
      /\ is /\ ~was => Cardinality(S') = Cardinality(S) + 1
      /\ ~is /\ was => Cardinality(S') = Cardinality(S) - 1
  <2> HIDE DEF S, is, was
  <2> QED BY <1>1, <1>2, <1>3, <1>4, <1>5
<1> QED BY <1>6

LEMMA Entered ==
    ASSUME NEW t \in Threads, Others(t), NEW p, NEW l,
           my'[t].pc = l /\ my'[t].p = p, my[t].pc # l
    PROVE  Cardinality(AtLabel(p, l))' = Cardinality(AtLabel(p, l)) + 1
BY LabelCount

LEMMA Left ==
    ASSUME NEW t \in Threads, Others(t), NEW p, NEW l,
           my[t].pc = l /\ my[t].p = p, my'[t].pc # l
    PROVE  Cardinality(AtLabel(p, l))' = Cardinality(AtLabel(p, l)) - 1
BY LabelCount

LEMMA Elsewhere ==
    ASSUME NEW t \in Threads, Others(t), NEW p, NEW l, my[t].pc # l, my'[t].pc # l
    PROVE  Cardinality(AtLabel(p, l))' = Cardinality(AtLabel(p, l))
BY LabelCount

\* A step that neither makes, nor accounts for, nor uses a claim in p.
LEMMA QuietKeepsClaim ==
    ASSUME NEW t \in Threads, Others(t), NEW p \in Producers, QueueTypes, QueueTypes', ClaimAt(p),
           sub'[p].headIndex = sub[p].headIndex, sub'[p].optimistic = sub[p].optimistic,
           sub'[p].overcommit = sub[p].overcommit, sub[p].tailIndex <= sub'[p].tailIndex,
           ~(my[t].pc \in Claimed /\ my[t].p = p), ~(my'[t].pc \in Claimed /\ my'[t].p = p),
           my'[t].pc \in {"test", "claim"} /\ my'[t].p = p => my'[t].over <= sub[p].overcommit
    PROVE  ClaimAt(p)'
<1>1. ASSUME NEW l \in Claimed PROVE AtLabel(p, l)' = AtLabel(p, l)
  <2>1. AtLabel(p, l)' = AtLabel(p, l) \ {t}  BY LabelSet
  <2>2. t \notin AtLabel(p, l)  BY DEF AtLabel
  <2> QED BY <2>1, <2>2
<1>2. /\ AtLabel(p, "check")' = AtLabel(p, "check") /\ AtLabel(p, "excess")' = AtLabel(p, "excess")
      /\ AtLabel(p, "take index")' = AtLabel(p, "take index")
  BY <1>1 DEF Claimed
<1>3. Taken(p)' = Taken(p)  BY <1>2 DEF Taken
<1>4. sub[p].tailIndex \in Nat /\ sub'[p].tailIndex \in Nat /\ Taken(p) \in Nat
  <2>1. SubOK(sub[p]) /\ SubOK(sub[p])'  BY DEF QueueTypes
  <2>2. sub[p].tailIndex \in Nat /\ sub'[p].tailIndex \in Nat /\ sub[p].headIndex \in Nat
    BY <2>1 DEF SubOK
  <2> DEFINE K == Cardinality(AtLabel(p, "take index"))
  <2>3. K \in Nat  BY LabelFinite
  <2>4. Taken(p) = sub[p].headIndex + K  BY DEF Taken
  <2> HIDE DEF K
  <2> QED BY <2>2, <2>3, <2>4
<1>5. ClaimsAdd(p)'
  <2> DEFINE E == Cardinality(AtLabel(p, "excess"))
             C == Cardinality(AtLabel(p, "check"))
  <2>1. E' = E /\ C' = C  BY <1>2
  <2>2. sub[p].optimistic = Taken(p) + sub[p].overcommit + E + C /\ Taken(p) <= sub[p].tailIndex
    BY DEF ClaimAt, ClaimsAdd
  <2>3. sub'[p].optimistic = Taken(p)' + sub'[p].overcommit + E' + C'
        /\ Taken(p)' <= sub'[p].tailIndex
    <3> HIDE DEF E, C
    <3> QED BY <1>3, <1>4, <2>1, <2>2
  <2> QED BY <2>3 DEF ClaimsAdd
<1>6. ASSUME NEW u \in AtLabel(p, "check")'  PROVE Backed(p, u)'
  <2>1. u \in AtLabel(p, "check") /\ u # t /\ Backed(p, u)  BY <1>2, LabelSet DEF ClaimAt, AtLabel, Claimed
  <2>2. \A v \in AtLabel(p, "check") : v # t /\ my'[v].i = my[v].i /\ my'[v].over = my[v].over
                                      /\ my[v].p = p /\ my'[v].p = p
    BY DEF AtLabel, Others, Claimed
  <2>3. Ahead(u)' = Ahead(u)  BY <1>2, <2>1, <2>2 DEF Ahead
  <2>4. Cardinality(Ahead(u)) \in Nat  BY AheadFinite
  <2> DEFINE A == Cardinality(Ahead(u))
  <2>5. A' = A /\ A \in Nat  BY <2>3, <2>4
  <2>6. /\ my[u].i < sub[p].optimistic /\ my[u].over <= sub[p].overcommit
        /\ my[u].i >= my[u].over + Taken(p) + A \/ Taken(p) + A < sub[p].tailIndex
    BY <2>1 DEF Backed
  <2>7. \A v \in AtLabel(p, "check") : v # u => my'[v].i # my'[u].i
    BY <2>1, <2>2 DEF Backed
  <2>8. \/ my'[u].i >= my'[u].over + Taken(p)' + A'
        \/ Taken(p)' + A' < sub'[p].tailIndex
    <3> HIDE DEF A
    <3> QED BY <1>3, <1>4, <2>1, <2>2, <2>5, <2>6
  <2> QED BY <1>2, <2>1, <2>2, <2>6, <2>7, <2>8 DEF Backed
<1>7. ASSUME NEW u \in AtLabel(p, "test")' \cup AtLabel(p, "claim")'
      PROVE  my'[u].over <= sub'[p].overcommit
  <2>1. CASE u = t  BY <1>7, <2>1 DEF AtLabel
  <2>2. CASE u # t
    <3>1. u \in AtLabel(p, "test") \cup AtLabel(p, "claim") /\ my'[u].over = my[u].over
      BY <1>7, <2>2 DEF AtLabel, Others
    <3> QED BY <3>1 DEF ClaimAt
  <2> QED BY <2>1, <2>2
<1> QED BY <1>5, <1>6, <1>7 DEF ClaimAt

\* The numbers of a sub-queue and of the calls that work on it.
LEMMA ClaimNumbers ==
    ASSUME QueueTypes, NEW p \in Producers
    PROVE  /\ sub[p].tailIndex \in Nat /\ sub[p].headIndex \in Nat
           /\ sub[p].optimistic \in Nat /\ sub[p].overcommit \in Nat
           /\ Taken(p) \in Nat
           /\ \A l : Cardinality(AtLabel(p, l)) \in Nat
           /\ \A t \in Threads : my[t].i \in Nat /\ my[t].over \in Nat
<1>1. /\ sub[p].tailIndex \in Nat /\ sub[p].headIndex \in Nat
      /\ sub[p].optimistic \in Nat /\ sub[p].overcommit \in Nat
  BY SubFields DEF QueueTypes
<1>2. \A l : Cardinality(AtLabel(p, l)) \in Nat  BY LabelFinite
<1>3. Taken(p) \in Nat
  <2> DEFINE K == Cardinality(AtLabel(p, "take index"))
  <2>1. K \in Nat  BY LabelFinite
  <2>2. Taken(p) = sub[p].headIndex + K  BY DEF Taken
  <2> HIDE DEF K
  <2> QED BY <1>1, <2>1, <2>2
<1>4. \A t \in Threads : my[t].i \in Nat /\ my[t].over \in Nat
  BY DEF QueueTypes, CallOK
<1> QED BY <1>1, <1>2, <1>3, <1>4

\* What remains of a claim's clause when the claims ahead of it, and what was
\* taken before, have changed as they may.
LEMMA BackedStays ==
    ASSUME NEW p \in Producers, NEW t \in Threads, Others(t), QueueTypes, QueueTypes',
           NEW u \in AtLabel(p, "check"), u # t, Backed(p, u),
           my'[t].pc = "check" /\ my'[t].p = p => my'[t].i # my[u].i,
           sub'[p].tailIndex = sub[p].tailIndex, sub[p].optimistic <= sub'[p].optimistic,
           sub[p].overcommit <= sub'[p].overcommit,
           \/ Taken(p)' + Cardinality(Ahead(u))' <= Taken(p) + Cardinality(Ahead(u))
           \/ Taken(p)' + Cardinality(Ahead(u))' < sub[p].tailIndex
    PROVE  Backed(p, u)'
<1> DEFINE A == Cardinality(Ahead(u))
           K == Taken(p)
<1>0. u \in Threads  BY DEF AtLabel
<1>1. my'[u].pc = "check" /\ my'[u].p = p /\ my'[u].i = my[u].i /\ my'[u].over = my[u].over
  BY <1>0 DEF Others, AtLabel
<1>2. /\ my[u].i \in Nat /\ my[u].over \in Nat /\ K \in Nat /\ sub[p].tailIndex \in Nat
      /\ sub[p].optimistic \in Nat /\ sub[p].overcommit \in Nat
  BY <1>0, ClaimNumbers
<1>3. A \in Nat  BY AheadFinite
<1>4. sub'[p].optimistic \in Nat /\ sub'[p].overcommit \in Nat
  <2>1. SubOK(sub[p])'  BY DEF QueueTypes
  <2> QED BY <2>1 DEF SubOK
<1>5. A' \in Nat /\ K' \in Nat
  <2>1. Ahead(u)' \subseteq Threads  BY DEF Ahead, AtLabel
  <2>2. A' \in Nat  BY <2>1, QueueAssumption, FS_Subset, FS_CardinalityType
  <2> DEFINE L == Cardinality(AtLabel(p, "take index"))
  <2>3. L' \in Nat  BY LabelFiniteNext
  <2>4. sub'[p].headIndex \in Nat
    <3>1. SubOK(sub[p])'  BY DEF QueueTypes
    <3> QED BY <3>1 DEF SubOK
  <2>5. K' = sub'[p].headIndex + L'  BY DEF Taken
  <2>6. K' \in Nat
    <3> HIDE DEF L, K
    <3> QED BY <2>3, <2>4, <2>5
  <2> QED BY <2>2, <2>6
<1>6. /\ my[u].i < sub[p].optimistic /\ my[u].over <= sub[p].overcommit
      /\ my[u].i >= my[u].over + K + A \/ K + A < sub[p].tailIndex
  BY DEF Backed
<1>7. K' + A' <= K + A \/ K' + A' < sub[p].tailIndex  OBVIOUS
<1>8. /\ my'[u].i < sub'[p].optimistic /\ my'[u].over <= sub'[p].overcommit
      /\ my'[u].i >= my'[u].over + K' + A' \/ K' + A' < sub'[p].tailIndex
  <2> DEFINE i == my[u].i
             over == my[u].over
  <2>1. i \in Nat /\ over \in Nat /\ my'[u].i = i /\ my'[u].over = over  BY <1>1, <1>2
  <2> HIDE DEF K, A, i, over
  <2>2. i < sub'[p].optimistic /\ over <= sub'[p].overcommit  BY <1>2, <1>4, <1>6, <2>1 DEF i, over
  <2>3. i >= over + K' + A' \/ K' + A' < sub[p].tailIndex
    <3>1. i >= over + K + A \/ K + A < sub[p].tailIndex  BY <1>6 DEF i, over
    <3> DEFINE k1 == K'
               a1 == A'
               tail == sub[p].tailIndex
    <3>2. /\ i \in Nat /\ over \in Nat /\ K \in Nat /\ A \in Nat /\ k1 \in Nat
          /\ a1 \in Nat /\ tail \in Nat
      BY <1>2, <1>3, <1>5, <2>1
    <3>3. i >= over + K + A \/ K + A < tail  BY <3>1
    <3>4. k1 + a1 <= K + A \/ k1 + a1 < tail  BY <1>7
    <3> HIDE DEF k1, a1, tail
    <3>5. i >= over + k1 + a1 \/ k1 + a1 < tail
      <4>1. CASE k1 + a1 < tail  BY <4>1
      <4>2. CASE k1 + a1 <= K + A
        <5>1. CASE i >= over + K + A  BY <3>2, <4>2, <5>1
        <5>2. CASE K + A < tail  BY <3>2, <4>2, <5>2
        <5> QED BY <3>3, <5>1, <5>2
      <4> QED BY <3>4, <4>1, <4>2
    <3> QED BY <3>5 DEF k1, a1, tail
  <2> QED BY <2>1, <2>2, <2>3
<1>9. \A v \in AtLabel(p, "check")' : v # u => my'[v].i # my'[u].i
  <2> SUFFICES ASSUME NEW v \in AtLabel(p, "check")', v # u  PROVE my'[v].i # my'[u].i
    OBVIOUS
  <2>1. CASE v = t  BY <2>1, <1>1 DEF AtLabel
  <2>2. CASE v # t
    <3>1. v \in AtLabel(p, "check") /\ my'[v].i = my[v].i  BY <2>2 DEF AtLabel, Others
    <3> QED BY <3>1, <1>1 DEF Backed
  <2> QED BY <2>1, <2>2
<1> QED BY <1>8, <1>9 DEF Backed

\* Those ahead of another claim.
LEMMA AheadSet ==
    ASSUME NEW p, NEW t \in Threads, Others(t), NEW u \in AtLabel(p, "check"), u # t
    PROVE  Ahead(u)' = IF my'[t].pc = "check" /\ my'[t].p = p /\ my'[t].i < my[u].i
                       THEN Ahead(u) \cup {t} ELSE Ahead(u) \ {t}
<1>1. u \in Threads /\ my[u].p = p /\ my'[u].p = p /\ my'[u].i = my[u].i  BY DEF AtLabel, Others
<1>2. Ahead(u) = {v \in Threads : my[v].pc = "check" /\ my[v].p = p /\ my[v].i < my[u].i}
  BY <1>1 DEF Ahead, AtLabel
<1>3. Ahead(u)' = {v \in Threads : my'[v].pc = "check" /\ my'[v].p = p /\ my'[v].i < my[u].i}
  BY <1>1 DEF Ahead, AtLabel
<1>4. ASSUME NEW v \in Threads
      PROVE  v \in Ahead(u)' <=> v \in IF my'[t].pc = "check" /\ my'[t].p = p /\ my'[t].i < my[u].i
                                       THEN Ahead(u) \cup {t} ELSE Ahead(u) \ {t}
  <2>1. CASE v = t  BY <2>1, <1>3
  <2>2. CASE v # t  BY <2>2, <1>2, <1>3 DEF Others
  <2> QED BY <2>1, <2>2
<1> QED BY <1>2, <1>3, <1>4

LEMMA TestsStay ==
    ASSUME NEW t \in Threads, Others(t), NEW p \in Producers, QueueTypes, QueueTypes', ClaimAt(p),
           my'[t].pc \notin {"test", "claim"}, sub[p].overcommit <= sub'[p].overcommit
    PROVE  \A u \in AtLabel(p, "test")' \cup AtLabel(p, "claim")' :
             my'[u].over <= sub'[p].overcommit
<1> SUFFICES ASSUME NEW u \in AtLabel(p, "test")' \cup AtLabel(p, "claim")'
             PROVE  my'[u].over <= sub'[p].overcommit
  OBVIOUS
<1>1. u \in Threads /\ u # t  BY DEF AtLabel
<1>2. u \in AtLabel(p, "test") \cup AtLabel(p, "claim") /\ my'[u].over = my[u].over
  BY <1>1 DEF AtLabel, Others
<1>3. my[u].over <= sub[p].overcommit  BY <1>2 DEF ClaimAt
<1>4. my[u].over \in Nat /\ sub[p].overcommit \in Nat  BY <1>1, ClaimNumbers
<1>5. sub'[p].overcommit \in Nat
  <2>1. SubOK(sub[p])'  BY DEF QueueTypes
  <2> QED BY <2>1 DEF SubOK
<1> QED BY <1>2, <1>3, <1>4, <1>5

\* The steps of a claim, and the sub-queue they are made in.
LEMMA ClaimKeeps ==
    ASSUME TableTypes, QueueTypes, QueueTypes', ClaimInv, NEW t \in Threads, Claim(t), Others(t),
           NEW p, p = my[t].p
    PROVE  ClaimAt(p)'
<1> DEFINE K == Taken(p)
           E == Cardinality(AtLabel(p, "excess"))
           C == Cardinality(AtLabel(p, "check"))
<1>0. /\ p \in Producers /\ my[t].pc = "claim" /\ CallOK(my[t])
      /\ my'[t] = [my[t] EXCEPT !.pc = "check", !.i = sub[p].optimistic]
      /\ sub'[p].optimistic = sub[p].optimistic + 1
      /\ sub'[p].headIndex = sub[p].headIndex /\ sub'[p].overcommit = sub[p].overcommit
      /\ sub'[p].tailIndex = sub[p].tailIndex
  BY ClaimEffect DEF DequeueEffect, QueueTypes
<1>1. /\ my'[t].pc = "check" /\ my'[t].i = sub[p].optimistic /\ my'[t].p = p
      /\ my'[t].over = my[t].over
  BY <1>0 DEF CallOK
<1>2. ClaimAt(p) /\ ClaimsAdd(p)  BY <1>0 DEF ClaimInv, ClaimAt
<1>3. /\ sub[p].tailIndex \in Nat /\ sub[p].optimistic \in Nat /\ sub[p].overcommit \in Nat
      /\ K \in Nat /\ my[t].over \in Nat
  BY <1>0, ClaimNumbers
<1>4. E \in Nat /\ C \in Nat  BY LabelFinite
<1>5. E' = E /\ C' = C + 1 /\ K' = K
  <2> DEFINE L == Cardinality(AtLabel(p, "take index"))
  <2>1. L \in Nat  BY LabelFinite
  <2>0. /\ my[t].pc # "check" /\ my[t].pc # "excess" /\ my[t].pc # "take index"
        /\ my'[t].pc # "excess" /\ my'[t].pc # "take index"
    BY <1>0, <1>1
  <2>2. C' = C + 1  BY <1>1, <2>0, Entered
  <2>3. E' = E  BY <2>0, Elsewhere
  <2>4. L' = L  BY <2>0, Elsewhere
  <2>5. K = sub[p].headIndex + L /\ K' = sub'[p].headIndex + L'  BY DEF Taken
  <2> HIDE DEF L, C, E
  <2> QED BY <1>0, <1>4, <2>1, <2>2, <2>3, <2>4, <2>5
<1>6. ClaimsAdd(p)'
  <2>1. sub[p].optimistic = K + sub[p].overcommit + E + C /\ K <= sub[p].tailIndex
    BY <1>2 DEF ClaimsAdd
  <2>2. sub'[p].optimistic = K' + sub'[p].overcommit + E' + C' /\ K' <= sub'[p].tailIndex
    <3> HIDE DEF K, E, C
    <3> QED BY <1>0, <1>3, <1>4, <1>5, <2>1
  <2> QED BY <2>2 DEF ClaimsAdd
<1>7. ASSUME NEW u \in AtLabel(p, "check"), u # t  PROVE Backed(p, u)'
  <2>1. Backed(p, u) /\ my[u].i < sub[p].optimistic  BY <1>2 DEF ClaimAt, Backed
  <2>2. my[u].i \in Nat /\ ~(sub[p].optimistic < my[u].i) /\ my'[t].i # my[u].i
    <3>1. my[u].i \in Nat  BY <1>0, ClaimNumbers DEF AtLabel
    <3> QED BY <3>1, <2>1, <1>1, <1>3
  <2>3. Ahead(u)' = Ahead(u)
    <3>1. t \notin Ahead(u)  BY <1>0 DEF Ahead, AtLabel
    <3>2. Ahead(u)' = Ahead(u) \ {t}  BY <1>1, <1>7, <2>2, AheadSet
    <3> QED BY <3>1, <3>2
  <2> DEFINE A == Cardinality(Ahead(u))
  <2>4. A' = A /\ A \in Nat  BY <2>3, AheadFinite
  <2>5. K' + A' <= K + A
    <3> HIDE DEF A, K
    <3> QED BY <1>3, <1>5, <2>4
  <2>6. sub[p].optimistic <= sub'[p].optimistic /\ sub[p].overcommit <= sub'[p].overcommit
    BY <1>0, <1>3
  <2> QED BY <1>0, <1>7, <2>1, <2>2, <2>5, <2>6, BackedStays
<1>8. Backed(p, t)'
  <2>0. t \notin AtLabel(p, "check")  BY <1>0 DEF AtLabel
  <2>1. AtLabel(p, "check")' = AtLabel(p, "check") \cup {t} /\ t \notin AtLabel(p, "check")
    BY <1>1, <2>0, LabelSet
  <2>2. \A u \in AtLabel(p, "check") : u # t /\ my'[u].i = my[u].i /\ my[u].i < sub[p].optimistic
                                       /\ my[u].i \in Nat
    <3> SUFFICES ASSUME NEW u \in AtLabel(p, "check")
                 PROVE  u # t /\ my'[u].i = my[u].i /\ my[u].i < sub[p].optimistic /\ my[u].i \in Nat
      OBVIOUS
    <3>1. u \in Threads /\ u # t  BY <2>1 DEF AtLabel
    <3>2. Backed(p, u)  BY <1>2 DEF ClaimAt
    <3> QED BY <3>1, <3>2, <1>0, ClaimNumbers DEF Backed, Others
  <2>3. Ahead(t)' = AtLabel(p, "check")
    <3>1. Ahead(t)' = {u \in AtLabel(p, "check")' : my'[u].i < my'[t].i}  BY <1>1 DEF Ahead
    <3> QED BY <3>1, <2>1, <2>2, <1>1, <1>3
  <2> DEFINE A == Cardinality(Ahead(t))
  <2>4. A' = C  BY <2>3
  <2>5. my[t].over <= sub[p].overcommit  BY <1>0, <1>2 DEF ClaimAt, AtLabel
  <2>6. sub[p].optimistic = K + sub[p].overcommit + E + C  BY <1>2 DEF ClaimsAdd
  <2>7. /\ my'[t].i >= my'[t].over + K' + A' /\ my'[t].i < sub'[p].optimistic
        /\ my'[t].over <= sub'[p].overcommit
    <3> DEFINE over == my[t].over
    <3>1. over <= sub[p].overcommit /\ my'[t].over = over /\ over \in Nat  BY <1>1, <1>3, <2>5
    <3> HIDE DEF A, K, E, C, over
    <3> QED BY <1>0, <1>1, <1>3, <1>4, <1>5, <2>4, <2>6, <3>1
  <2>8. \A u \in AtLabel(p, "check")' : u # t => my'[u].i # my'[t].i
    BY <2>1, <2>2, <1>1, <1>3
  <2> QED BY <2>7, <2>8 DEF Backed
<1>9. \A u \in AtLabel(p, "check")' : Backed(p, u)'
  BY <1>7, <1>8, LabelSet, <1>1
<1>10. \A u \in AtLabel(p, "test")' \cup AtLabel(p, "claim")' : my'[u].over <= sub'[p].overcommit
  <2>1. my'[t].pc \notin {"test", "claim"} /\ sub[p].overcommit <= sub'[p].overcommit
    BY <1>0, <1>1, <1>3
  <2> QED BY <1>0, <1>2, <2>1, TestsStay
<1> QED BY <1>6, <1>9, <1>10 DEF ClaimAt

\* A claim that is backed: t's own, and those ahead of it, are below the tail.
LEMMA CheckKeeps ==
    ASSUME TableTypes, QueueTypes, QueueTypes', ClaimInv, NEW t \in Threads, Check(t), Others(t),
           NEW p, p = my[t].p
    PROVE  ClaimAt(p)'
<1> DEFINE K == Taken(p)
           E == Cardinality(AtLabel(p, "excess"))
           C == Cardinality(AtLabel(p, "check"))
           L == Cardinality(AtLabel(p, "take index"))
           A(u) == Cardinality(Ahead(u))
           tail == sub[p].tailIndex
           i == my[t].i
           over == my[t].over
<1>0. /\ p \in Producers /\ my[t].pc = "check" /\ CallOK(my[t]) /\ sub' = sub /\ my'[t].p = p
      /\ my'[t].pc = IF i < tail + over THEN "take index" ELSE "excess"
  BY CheckEffect DEF QueueTypes
<1>1. ClaimAt(p) /\ ClaimsAdd(p) /\ t \in AtLabel(p, "check") /\ Backed(p, t)
  BY <1>0 DEF ClaimInv, ClaimAt, AtLabel
<1>2. /\ tail \in Nat /\ sub[p].optimistic \in Nat /\ sub[p].overcommit \in Nat
      /\ sub[p].headIndex \in Nat /\ K \in Nat /\ over \in Nat /\ i \in Nat
  BY <1>0, ClaimNumbers
<1>3. E \in Nat /\ C \in Nat /\ L \in Nat  BY LabelFinite
<1>4. K = sub[p].headIndex + L /\ K' = sub[p].headIndex + L'  BY <1>0 DEF Taken
<1>5. sub[p].optimistic = K + sub[p].overcommit + E + C /\ K <= tail
  BY <1>1 DEF ClaimsAdd
<1>6. C' = C - 1
  <2>1. my'[t].pc # "check"  BY <1>0
  <2> QED BY <1>0, <2>1, Left
<1>7. A(t) \in Nat /\ IsFiniteSet(Ahead(t)) /\ \A u : A(u) \in Nat /\ IsFiniteSet(Ahead(u))
  BY AheadFinite
<1>8. i >= over + K + A(t) \/ K + A(t) < tail  BY <1>1 DEF Backed
<1>11. /\ sub'[p].tailIndex = sub[p].tailIndex /\ sub[p].optimistic <= sub'[p].optimistic
       /\ sub[p].overcommit <= sub'[p].overcommit
  <2>1. sub'[p] = sub[p]  BY <1>0
  <2>2. sub[p].optimistic \in Nat /\ sub[p].overcommit \in Nat  BY <1>2
  <2> QED BY <2>1, <2>2
<1>9. CASE i < tail + over
  <2>1. /\ my'[t].pc = "take index" /\ my'[t].pc # "check" /\ my'[t].pc # "excess"
        /\ my'[t].pc \notin {"test", "claim"} /\ my[t].pc # "excess" /\ my[t].pc # "take index"
    BY <1>0, <1>9
  <2>2. L' = L + 1  BY <1>0, <2>1, Entered
  <2>3. E' = E  BY <1>0, <2>1, Elsewhere
  <2>4. K' = K + 1
    <3> HIDE DEF K, L
    <3> QED BY <1>2, <1>3, <1>4, <2>2
  <2>5. K + A(t) < tail
    <3> DEFINE a == A(t)
    <3>1. a \in Nat /\ (i >= over + K + a \/ K + a < tail)  BY <1>7, <1>8
    <3> HIDE DEF K, A, tail, i, over, a
    <3>2. K + a < tail  BY <1>2, <1>9, <3>1
    <3> QED BY <3>2 DEF a
  <2>6. ClaimsAdd(p)'
    <3> DEFINE a == A(t)
    <3>1. a \in Nat /\ K + a < tail  BY <1>7, <2>5
    <3>2. sub[p].optimistic = K' + sub[p].overcommit + E' + C' /\ K' <= tail
      <4> HIDE DEF K, E, C, L, A, a, tail
      <4> QED BY <1>2, <1>3, <1>5, <1>6, <2>3, <2>4, <3>1
    <3> QED BY <1>0, <3>2 DEF ClaimsAdd
  <2>7. ASSUME NEW u \in AtLabel(p, "check"), u # t  PROVE Backed(p, u)'
    <3>1. Backed(p, u) /\ my[u].i # i /\ my[u].i \in Nat
      BY <1>0, <1>1, <2>7, ClaimNumbers DEF ClaimAt, Backed, AtLabel
    <3>2. Ahead(u)' = Ahead(u) \ {t}  BY <2>1, <2>7, AheadSet
    <3>3. CASE i < my[u].i
      <4>1. t \in Ahead(u)  BY <1>1, <3>3, <2>7 DEF Ahead, AtLabel
      <4>2. Cardinality(Ahead(u) \ {t}) = A(u) - 1  BY <4>1, <1>7, FS_RemoveElement
      <4>3. A(u)' = A(u) - 1  BY <3>2, <4>2
      <4>4. K' + A(u)' <= K + A(u)
        <5> DEFINE a == A(u)
                   a1 == A(u)'
        <5>1. a \in Nat /\ a1 = a - 1  BY <1>7, <4>3
        <5> HIDE DEF K, A, a, a1
        <5>2. K' + a1 <= K + a  BY <1>2, <2>4, <5>1
        <5> QED BY <5>2 DEF a, a1
      <4> QED BY <1>0, <1>11, <2>1, <2>7, <3>1, <4>4, BackedStays
    <3>4. CASE my[u].i < i
      <4>1. Ahead(u)' = Ahead(u)
        <5>1. t \notin Ahead(u)  BY <3>4, <1>2, <3>1 DEF Ahead
        <5> QED BY <3>2, <5>1
      <4>2. Ahead(u) \cup {u} \subseteq Ahead(t)
        <5>1. \A v \in Ahead(u) : v \in AtLabel(p, "check") /\ my[v].i < my[u].i /\ my[v].i \in Nat
          BY <1>0, <2>7, ClaimNumbers DEF Ahead, AtLabel
        <5> QED BY <5>1, <3>4, <1>2, <3>1, <2>7 DEF Ahead
      <4>3. u \notin Ahead(u)  BY <3>1 DEF Ahead
      <4>4. Cardinality(Ahead(u) \cup {u}) = A(u) + 1  BY <4>3, <1>7, FS_AddElement
      <4>5. A(u) + 1 <= A(t)  BY <4>2, <4>4, <1>7, FS_Subset
      <4>6. K' + A(u)' < tail
        <5> DEFINE a == A(u)
                   a1 == A(u)'
                   b == A(t)
        <5>1. a \in Nat /\ b \in Nat /\ a1 = a /\ a + 1 <= b /\ K + b < tail
          BY <1>7, <2>5, <4>1, <4>5
        <5> HIDE DEF K, A, a, a1, b, tail
        <5>2. K' + a1 < tail  BY <1>2, <2>4, <5>1
        <5> QED BY <5>2 DEF a1
      <4> QED BY <1>0, <1>11, <2>1, <2>7, <3>1, <4>6, BackedStays
    <3> QED BY <1>2, <3>1, <3>3, <3>4
  <2>8. \A u \in AtLabel(p, "check")' : Backed(p, u)'
    <3>1. \A u \in AtLabel(p, "check")' : u \in AtLabel(p, "check") /\ u # t
      <4>1. AtLabel(p, "check")' = AtLabel(p, "check") \ {t}  BY <2>1, LabelSet
      <4> QED BY <4>1
    <3> QED BY <2>7, <3>1
  <2>9. \A u \in AtLabel(p, "test")' \cup AtLabel(p, "claim")' : my'[u].over <= sub'[p].overcommit
    BY <1>0, <1>1, <1>11, <2>1, TestsStay
  <2> QED BY <2>6, <2>8, <2>9 DEF ClaimAt
<1>10. CASE ~(i < tail + over)
  <2>1. /\ my'[t].pc = "excess" /\ my'[t].pc # "check" /\ my'[t].pc # "take index"
        /\ my'[t].pc \notin {"test", "claim"} /\ my[t].pc # "excess" /\ my[t].pc # "take index"
    BY <1>0, <1>10
  <2>2. L' = L  BY <1>0, <2>1, Elsewhere
  <2>3. E' = E + 1  BY <1>0, <2>1, Entered
  <2>4. K' = K
    <3> HIDE DEF K, L
    <3> QED BY <1>2, <1>3, <1>4, <2>2
  <2>6. ClaimsAdd(p)'
    <3>2. sub[p].optimistic = K' + sub[p].overcommit + E' + C' /\ K' <= tail
      <4> HIDE DEF K, E, C, L, A, tail
      <4> QED BY <1>2, <1>3, <1>5, <1>6, <2>3, <2>4
    <3> QED BY <1>0, <3>2 DEF ClaimsAdd
  <2>7. ASSUME NEW u \in AtLabel(p, "check"), u # t  PROVE Backed(p, u)'
    <3>1. Backed(p, u)  BY <1>1 DEF ClaimAt
    <3>2. Ahead(u)' = Ahead(u) \ {t}  BY <2>1, <2>7, AheadSet
    <3>3. A(u)' <= A(u) /\ A(u)' \in Nat
      <4>1. Cardinality(Ahead(u) \ {t}) <= A(u) /\ Cardinality(Ahead(u) \ {t}) \in Nat
        BY <1>7, FS_Subset, FS_CardinalityType
      <4> QED BY <3>2, <4>1
    <3>4. K' + A(u)' <= K + A(u)
      <4> DEFINE a == A(u)
                 a1 == A(u)'
      <4>1. a \in Nat /\ a1 \in Nat /\ a1 <= a  BY <1>7, <3>3
      <4> HIDE DEF K, A, a, a1
      <4>2. K' + a1 <= K + a  BY <1>2, <2>4, <4>1
      <4> QED BY <4>2 DEF a, a1
    <3> QED BY <1>0, <1>11, <2>1, <2>7, <3>1, <3>4, BackedStays
  <2>8. \A u \in AtLabel(p, "check")' : Backed(p, u)'
    <3>1. \A u \in AtLabel(p, "check")' : u \in AtLabel(p, "check") /\ u # t
      <4>1. AtLabel(p, "check")' = AtLabel(p, "check") \ {t}  BY <2>1, LabelSet
      <4> QED BY <4>1
    <3> QED BY <2>7, <3>1
  <2>9. \A u \in AtLabel(p, "test")' \cup AtLabel(p, "claim")' : my'[u].over <= sub'[p].overcommit
    BY <1>0, <1>1, <1>11, <2>1, TestsStay
  <2> QED BY <2>6, <2>8, <2>9 DEF ClaimAt
<1> QED BY <1>9, <1>10

\* A claim that is not backed is counted out; one that is takes its index.
LEMMA ExcessKeeps ==
    ASSUME TableTypes, QueueTypes, QueueTypes', ClaimInv, NEW t \in Threads,
           Excess(t) \/ TakeIndex(t), Others(t), NEW p, p = my[t].p
    PROVE  ClaimAt(p)'
<1> DEFINE K == Taken(p)
           E == Cardinality(AtLabel(p, "excess"))
           C == Cardinality(AtLabel(p, "check"))
           L == Cardinality(AtLabel(p, "take index"))
           front == sub[p].headIndex
           over == sub[p].overcommit
           early == {"claim", "check"}
<1>0. /\ p \in Producers /\ sub'[p].optimistic = sub[p].optimistic
      /\ sub'[p].tailIndex = sub[p].tailIndex
  BY ExcessEffect, TakeIndexEffect DEF DequeueEffect
<1>1. \/ /\ my[t].pc = "excess" /\ my'[t].pc \in {"load", "out"}
         /\ sub'[p].overcommit = over + 1 /\ sub'[p].headIndex = front
      \/ /\ my[t].pc = "take index" /\ my'[t].pc = "find"
         /\ sub'[p].overcommit = over /\ sub'[p].headIndex = front + 1
  BY ExcessEffect, TakeIndexEffect
<1>2. ClaimAt(p) /\ ClaimsAdd(p)  BY <1>0 DEF ClaimInv, ClaimAt
<1>3. /\ sub[p].tailIndex \in Nat /\ sub[p].optimistic \in Nat /\ over \in Nat
      /\ front \in Nat /\ K \in Nat
  BY <1>0, ClaimNumbers
<1>4. E \in Nat /\ C \in Nat /\ L \in Nat  BY LabelFinite
<1>5. K = front + L /\ K' = sub'[p].headIndex + L'  BY DEF Taken
<1>6. sub[p].optimistic = K + over + E + C /\ K <= sub[p].tailIndex
  BY <1>2 DEF ClaimsAdd
<1>7. /\ my[t].pc # "check" /\ my'[t].pc # "check" /\ my'[t].pc # "excess"
      /\ my'[t].pc # "take index" /\ my'[t].pc \notin {"test", "claim"}
  BY <1>1
<1>8. C' = C  BY <1>7, Elsewhere
<1>9. K' = K /\ sub[p].optimistic = K' + sub'[p].overcommit + E' + C'
  <2>1. CASE my[t].pc = "excess"
    <3>1. sub'[p].overcommit = over + 1 /\ sub'[p].headIndex = front /\ my[t].pc # "take index"
      BY <1>1, <2>1
    <3>2. E' = E - 1  BY <1>7, <2>1, Left
    <3>3. L' = L  BY <1>7, <3>1, Elsewhere
    <3>4. K' = K  BY <1>5, <3>1, <3>3
    <3>5. sub[p].optimistic = K' + (over + 1) + E' + C'
      <4> HIDE DEF K, E, C, L, front, over
      <4> QED BY <1>3, <1>4, <1>6, <1>8, <3>2, <3>4
    <3> HIDE DEF K, E, C, over
    <3> QED BY <3>1, <3>4, <3>5
  <2>2. CASE my[t].pc = "take index"
    <3>1. sub'[p].overcommit = over /\ sub'[p].headIndex = front + 1 /\ my[t].pc # "excess"
      BY <1>1, <2>2
    <3>2. L' = L - 1  BY <1>7, <2>2, Left
    <3>3. E' = E  BY <1>7, <3>1, Elsewhere
    <3> HIDE DEF K, E, C, L, front, over
    <3> QED BY <1>3, <1>4, <1>5, <1>6, <1>8, <3>1, <3>2, <3>3
  <2> QED BY <1>1, <2>1, <2>2
<1>10. ClaimsAdd(p)'
  <2>1. sub'[p].optimistic = K' + sub'[p].overcommit + E' + C' /\ K' <= sub'[p].tailIndex
    BY <1>0, <1>6, <1>9
  <2> QED BY <2>1 DEF ClaimsAdd
<1>11. sub[p].optimistic <= sub'[p].optimistic /\ over <= sub'[p].overcommit
  <2>1. sub'[p].overcommit = over \/ sub'[p].overcommit = over + 1  BY <1>1
  <2>2. sub[p].optimistic \in Nat /\ over \in Nat  BY <1>3
  <2> HIDE DEF over
  <2> QED BY <1>0, <2>1, <2>2
<1>12. AtLabel(p, "check")' = AtLabel(p, "check") /\ t \notin AtLabel(p, "check")
  <2>1. AtLabel(p, "check")' = AtLabel(p, "check") \ {t}  BY <1>7, LabelSet
  <2> QED BY <1>7, <2>1 DEF AtLabel
<1>13. ASSUME NEW u \in AtLabel(p, "check")  PROVE Backed(p, u)'
  <2>1. Backed(p, u) /\ u # t  BY <1>2, <1>12 DEF ClaimAt
  <2>2. Ahead(u)' = Ahead(u) \ {t}  BY <1>7, <1>13, <2>1, AheadSet
  <2>3. Ahead(u)' = Ahead(u)  BY <1>7, <2>2 DEF Ahead, AtLabel
  <2> DEFINE A == Cardinality(Ahead(u))
  <2>4. A' = A /\ A \in Nat  BY <2>3, AheadFinite
  <2>5. K' + A' <= K + A
    <3> HIDE DEF K, A
    <3> QED BY <1>3, <1>9, <2>4
  <2> QED BY <1>0, <1>7, <1>11, <1>13, <2>1, <2>5, BackedStays
<1>14. \A u \in AtLabel(p, "test")' \cup AtLabel(p, "claim")' : my'[u].over <= sub'[p].overcommit
  BY <1>0, <1>2, <1>7, <1>11, TestsStay
<1> QED BY <1>10, <1>12, <1>13, <1>14 DEF ClaimAt

LEMMA OthersOf ==
    ASSUME QueueTypes, NEW t \in Threads,
           EnqueueEffect(t) \/ DequeueEffect(t) \/ CallDequeueEffect(t)
    PROVE  Others(t)
<1>1. CASE EnqueueEffect(t) \/ DequeueEffect(t)
  <2>1. my' = [my EXCEPT ![t] = my'[t]]  BY <1>1 DEF EnqueueEffect, DequeueEffect
  <2> QED BY <2>1 DEF Others, QueueTypes
<1>2. CASE CallDequeueEffect(t)
  <2>1. \A r : CallOK(r) => LET c == [r EXCEPT !.alone = FALSE] IN
                            c.pc = r.pc /\ c.p = r.p /\ c.i = r.i /\ c.over = r.over
    BY DEF CallOK
  <2>2. \A u \in Threads : CallOK(my[u])  BY DEF QueueTypes
  <2> QED BY <1>2, <2>1, <2>2 DEF CallDequeueEffect, Others
<1> QED BY <1>1, <1>2

\* A step is quiet in every sub-queue, or makes or settles a claim in one.
LEMMA ClaimNext ==
    ASSUME TableInv, QueueTypes, QueueTypes', ClaimInv, [Next]_vars
    PROVE  ClaimInv'
<1> TableTypes  BY DEF TableInv
<1>0. \A p \in Producers : /\ ClaimAt(p) /\ sub[p].tailIndex \in Nat
                           /\ sub[p].tailIndex <= sub[p].tailIndex
  BY ClaimNumbers DEF ClaimInv
<1>1. CASE StillEffect
  <2>1. \A p, l : AtLabel(p, l)' = AtLabel(p, l)  BY <1>1 DEF StillEffect, AtLabel
  <2>2. \A u : Ahead(u)' = Ahead(u)  BY <1>1, <2>1 DEF StillEffect, Ahead
  <2>3. \A p : Taken(p)' = Taken(p)  BY <1>1, <2>1 DEF StillEffect, Taken
  <2>4. \A p, u : Backed(p, u) => Backed(p, u)'
    BY <1>1, <2>1, <2>2, <2>3 DEF StillEffect, Backed
  <2>5. \A p : ClaimsAdd(p) => ClaimsAdd(p)'
    BY <1>1, <2>1, <2>3 DEF StillEffect, ClaimsAdd
  <2> QED BY <1>1, <2>1, <2>4, <2>5 DEF StillEffect, ClaimInv, ClaimAt
<1>2. ASSUME NEW t \in Threads, EnqueueEffect(t)  PROVE ClaimInv'
  <2> SUFFICES ASSUME NEW p \in Producers  PROVE ClaimAt(p)'  BY DEF ClaimInv
  <2>1. Others(t)  BY <1>2, OthersOf
  <2>2. my[t].pc \notin Claimed /\ my'[t].pc \notin Claimed /\ my'[t].pc \notin {"test", "claim"}
    BY <1>2 DEF EnqueueEffect, Walking, Claimed
  <2>3. /\ sub'[p].headIndex = sub[p].headIndex /\ sub'[p].optimistic = sub[p].optimistic
        /\ sub'[p].overcommit = sub[p].overcommit /\ sub[p].tailIndex <= sub'[p].tailIndex
    BY <1>2 DEF EnqueueEffect
  <2> QED BY <1>0, <2>1, <2>2, <2>3, QuietKeepsClaim
<1>3. ASSUME NEW t \in Threads, CallDequeueEffect(t)  PROVE ClaimInv'
  <2> SUFFICES ASSUME NEW p \in Producers  PROVE ClaimAt(p)'  BY DEF ClaimInv
  <2>1. Others(t)  BY <1>3, OthersOf
  <2>2. my[t].pc \notin Claimed /\ my'[t].pc \notin Claimed /\ my'[t].pc \notin {"test", "claim"}
        /\ sub' = sub
    BY <1>3 DEF CallDequeueEffect, Claimed
  <2> QED BY <1>0, <2>1, <2>2, QuietKeepsClaim
<1>4. ASSUME NEW t \in Threads, DequeueEffect(t), NoClaim(t)  PROVE ClaimInv'
  <2> SUFFICES ASSUME NEW p \in Producers  PROVE ClaimAt(p)'  BY DEF ClaimInv
  <2>1. Others(t)  BY <1>4, OthersOf
  <2>2. /\ my[t].pc \notin Claimed /\ my'[t].pc \notin Claimed
        /\ my'[t].pc \in {"test", "claim"} /\ my'[t].p = p => my'[t].over <= sub[p].overcommit
        /\ SameCounts(sub'[p], sub[p])
    BY <1>4 DEF NoClaim
  <2>3. /\ sub'[p].headIndex = sub[p].headIndex /\ sub'[p].optimistic = sub[p].optimistic
        /\ sub'[p].overcommit = sub[p].overcommit /\ sub[p].tailIndex <= sub'[p].tailIndex
    BY <1>0, <2>2 DEF SameCounts
  <2> QED BY <1>0, <2>1, <2>2, <2>3, QuietKeepsClaim
<1>5. ASSUME NEW t \in Threads, DequeueEffect(t),
             Claim(t) \/ Check(t) \/ Excess(t) \/ TakeIndex(t)
      PROVE  ClaimInv'
  <2> SUFFICES ASSUME NEW p \in Producers  PROVE ClaimAt(p)'  BY DEF ClaimInv
  <2>1. Others(t)  BY <1>5, OthersOf
  <2>2. CASE p = my[t].p  BY <1>5, <2>1, <2>2, ClaimKeeps, CheckKeeps, ExcessKeeps
  <2>3. CASE p # my[t].p
    <3>1. sub'[p] = sub[p]
      BY <1>5, <2>3, ClaimEffect, CheckEffect, ExcessEffect, TakeIndexEffect
    <3>2. my'[t].p = my[t].p \/ my'[t].pc \in {"load", "out", "find"}
      <4>1. Claim(t) => my'[t].p = my[t].p
        <5>1. CallOK(my[t])  BY DEF QueueTypes
        <5>2. Claim(t) => my'[t] = [my[t] EXCEPT !.pc = "check", !.i = sub[my[t].p].optimistic]
          BY ClaimEffect
        <5> QED BY <5>1, <5>2 DEF CallOK
      <4>2. Check(t) => my'[t].p = my[t].p  BY CheckEffect
      <4>3. Excess(t) \/ TakeIndex(t) => my'[t].pc \in {"load", "out", "find"}
        BY ExcessEffect, TakeIndexEffect
      <4> QED BY <1>5, <4>1, <4>2, <4>3
    <3>3. /\ ~(my[t].pc \in Claimed /\ my[t].p = p) /\ ~(my'[t].pc \in Claimed /\ my'[t].p = p)
          /\ ~(my'[t].pc \in {"test", "claim"} /\ my'[t].p = p)
      BY <2>3, <3>2 DEF Claimed
    <3> QED BY <1>0, <2>1, <3>1, <3>3, QuietKeepsClaim
  <2> QED BY <2>2, <2>3
<1>6. ASSUME NEW t \in Threads, DequeueEffect(t),
             Score(t) \/ LoadOver(t) \/ TestOptimistic(t) \/ Taking(t)
      PROVE  ClaimInv'
  <2>1. NoClaim(t)
    BY <1>6, ScoreEffect, LoadOverEffect, TestEffect, TakenEffect DEF Taking
  <2> QED BY <1>4, <1>6, <2>1
<1> QED BY <1>1, <1>2, <1>3, <1>5, <1>6, QueueSteps DEF DequeueStep

-----------------------------------------------------------------------------
(* A dequeue that is alone.                                                *)

\* Nothing is claimed where no dequeue is.
LEMMA NothingClaimed ==
    ASSUME QueueTypes, ClaimInv, NEW t \in Threads, NEW p \in Producers,
           my[t].pc \notin Claimed, \A u \in Threads \ {t} : my[u].pc \notin Walking
    PROVE  sub[p].optimistic = sub[p].headIndex + sub[p].overcommit
<1>1. \A l \in Claimed : AtLabel(p, l) = {}
  BY DEF AtLabel, Walking, Claimed
<1> DEFINE E == Cardinality(AtLabel(p, "excess"))
           C == Cardinality(AtLabel(p, "check"))
           L == Cardinality(AtLabel(p, "take index"))
<1>2. AtLabel(p, "excess") = {} /\ AtLabel(p, "check") = {} /\ AtLabel(p, "take index") = {}
  BY <1>1 DEF Claimed
<1>3. E = 0 /\ C = 0 /\ L = 0  BY <1>2, FS_EmptySet
<1>4. Taken(p) = sub[p].headIndex + L  BY DEF Taken
<1>5. sub[p].optimistic = Taken(p) + sub[p].overcommit + E + C  BY DEF ClaimInv, ClaimAt, ClaimsAdd
<1>6. sub[p].headIndex \in Nat /\ sub[p].overcommit \in Nat  BY ClaimNumbers
<1> HIDE DEF E, C, L
<1> QED BY <1>3, <1>4, <1>5, <1>6

\* The next step of such a dequeue, if the queue held an element as it began.
FindsOn(t) == /\ StillFinds(t)'
              /\ my[t].pc \in {"score", "test", "excess"} => my'[t].pc # "out"

LEMMA ScoreFinds ==
    ASSUME TableTypes, QueueTypes, NEW t \in Threads, Score(t), StillFinds(t)
    PROVE  FindsOn(t)
<1> DEFINE r == my[t]
           p == r.p
           size == IF Holds(p) THEN sub[p].tailIndex - sub[p].headIndex ELSE 0
           found == IF size > 0 THEN r.found + 1 ELSE r.found
           best == IF size > r.size THEN p ELSE r.best
           r1 == [r EXCEPT !.p = p - 1, !.found = found, !.best = best,
                           !.size = IF size > @ THEN size ELSE @]
           r2 == [r EXCEPT !.pc = "load", !.p = best, !.best = best, !.found = 0, !.size = 0]
<1>0. r.pc = "score" /\ CallOK(r) /\ sub' = sub
  BY DEF Score, QueueTypes
<1>1. \/ p > 1 /\ Set(t, r1)
      \/ found = 0 /\ (p > 1 => ~(found < 3))
      \/ found # 0 /\ Set(t, r2)
  BY DEF Score
<1>2. created \in Nat /\ p \in 1..created /\ p \in Producers
  BY <1>0, WalkerAt DEF Walking
<1>3. sub[p].tailIndex \in Nat /\ sub[p].headIndex \in Nat
  BY <1>2, SubFields DEF QueueTypes
<1>4. size \in Nat /\ (size > 0 <=> Holds(p))  BY <1>3 DEF Holds
<1>5. r.found \in Nat /\ r.size \in Nat /\ (r.found = 0 => r.size = 0)  BY <1>0 DEF CallOK
<1>6. IF r.found = 0 THEN \E q \in 1..p : Holds(q) ELSE Holds(r.best)
  BY <1>0 DEF StillFinds
<1>7. IF found = 0 THEN p > 1 /\ \E q \in 1..(p-1) : Holds(q) ELSE Holds(best)
  <2> HIDE DEF r, p, size
  <2>1. CASE found = 0
    <3>1. r.found = 0 /\ ~Holds(p)  BY <1>4, <1>5, <2>1
    <3>2. PICK q \in 1..p : Holds(q)  BY <1>6, <3>1
    <3>3. q # p /\ p \in Nat  BY <1>2, <3>1, <3>2
    <3>4. q \in 1..(p-1) /\ p > 1  BY <3>2, <3>3
    <3> QED BY <2>1, <3>2, <3>4
  <2>2. CASE found # 0
    <3>1. CASE size > r.size  BY <1>4, <1>5, <2>2, <3>1
    <3>2. CASE ~(size > r.size)
      <4>1. r.found # 0  BY <1>4, <1>5, <2>2, <3>2
      <4> QED BY <1>6, <2>2, <3>2, <4>1
    <3> QED BY <2>2, <3>1, <3>2
  <2> QED BY <2>1, <2>2
<1>8. \A q : Holds(q)' = Holds(q)  BY <1>0 DEF Holds
<1>9. CASE p > 1 /\ Set(t, r1)
  <2>1. my'[t] = r1  BY <1>9 DEF Set, QueueTypes
  <2> HIDE DEF size, best, found
  <2>2. r1.pc = "score" /\ r1.p = p - 1 /\ r1.found = found /\ r1.best = best
    BY <1>0 DEF CallOK
  <2> HIDE DEF r1, p, r
  <2> QED BY <1>7, <1>8, <2>1, <2>2 DEF StillFinds, FindsOn
<1>10. CASE found # 0 /\ Set(t, r2)
  <2>1. my'[t] = r2  BY <1>10 DEF Set, QueueTypes
  <2> HIDE DEF size, best, found
  <2>2. r2.pc = "load" /\ r2.p = best  BY <1>0 DEF CallOK
  <2> HIDE DEF r2, p, r
  <2> QED BY <1>7, <1>8, <1>10, <2>1, <2>2 DEF StillFinds, FindsOn
<1>11. ~(found = 0 /\ (p > 1 => ~(found < 3)))  BY <1>7
<1> QED BY <1>1, <1>9, <1>10, <1>11

LEMMA WalkFinds ==
    ASSUME TableTypes, QueueTypes, ClaimInv, NEW t \in Threads, DequeueStep(t), DequeueEffect(t),
           StillFinds(t), \A u \in Threads \ {t} : my[u].pc \notin Walking
    PROVE  FindsOn(t)
<1> DEFINE p == my[t].p
           front == sub[p].headIndex
           over == sub[p].overcommit
           tail == sub[p].tailIndex
<1>0. my[t].pc \in Walking /\ p \in Producers /\ CallOK(my[t])
  BY WalkerAt DEF DequeueEffect, QueueTypes
<1>1. front \in Nat /\ over \in Nat /\ tail \in Nat  BY <1>0, ClaimNumbers
<1>2. CASE Score(t)  BY <1>2, ScoreFinds
<1>3. CASE LoadOver(t)
  <2>1. /\ my[t].pc = "load" /\ my'[t].pc = "test" /\ my'[t].p = p /\ sub' = sub
        /\ my'[t].tail = tail /\ my'[t].over = over
    BY <1>3, LoadOverEffect DEF LoadOver
  <2>2. front < tail  BY <2>1 DEF StillFinds, Holds
  <2> QED BY <1>1, <2>1, <2>2 DEF StillFinds, FindsOn
<1>4. CASE TestOptimistic(t)
  <2>1. my[t].pc = "test" /\ sub' = sub  BY <1>4, TestEffect DEF TestOptimistic
  <2>2. sub[p].optimistic = front + over  BY <1>0, <2>1, NothingClaimed DEF Claimed
  <2>3. my[t].over = over /\ front < my[t].tail /\ my[t].tail <= tail /\ my[t].tail \in Nat
    BY <1>0, <2>1 DEF StillFinds, CallOK
  <2>4. my'[t] = [my[t] EXCEPT !.pc = "claim"]
    <3>1. sub[p].optimistic < my[t].tail + my[t].over  BY <1>1, <2>2, <2>3
    <3> QED BY <1>4, <3>1, TestEffect
  <2>5. /\ my'[t].pc = "claim" /\ my'[t].p = p /\ my'[t].over = my[t].over
        /\ my'[t].tail = my[t].tail
    BY <1>0, <2>4 DEF CallOK
  <2> QED BY <2>1, <2>3, <2>5 DEF StillFinds, FindsOn
<1>5. CASE Claim(t)
  <2>1. /\ my[t].pc = "claim" /\ my'[t] = [my[t] EXCEPT !.pc = "check", !.i = sub[p].optimistic]
        /\ sub'[p].headIndex = front /\ sub'[p].overcommit = over /\ sub'[p].tailIndex = tail
    BY <1>0, <1>5, ClaimEffect DEF DequeueEffect
  <2>2. sub[p].optimistic = front + over  BY <1>0, <2>1, NothingClaimed DEF Claimed
  <2>3. my[t].over = over /\ front < my[t].tail /\ my[t].tail <= tail
    BY <2>1 DEF StillFinds
  <2>4. /\ my'[t].pc = "check" /\ my'[t].p = p /\ my'[t].over = my[t].over
        /\ my'[t].tail = my[t].tail /\ my'[t].i = sub[p].optimistic
    BY <1>0, <2>1 DEF CallOK
  <2> QED BY <2>1, <2>2, <2>3, <2>4 DEF StillFinds, FindsOn
<1>6. CASE Check(t)
  <2>1. /\ my[t].pc = "check"
        /\ my'[t].pc = IF my[t].i < tail + my[t].over THEN "take index" ELSE "excess"
    BY <1>6, CheckEffect
  <2>2. /\ my[t].over = over /\ front < my[t].tail /\ my[t].tail <= tail /\ my[t].tail \in Nat
        /\ my[t].i = front + my[t].over
    BY <1>0, <2>1 DEF StillFinds, CallOK
  <2>3. my[t].i < tail + my[t].over  BY <1>1, <2>2
  <2>4. my'[t].pc = "take index"  BY <2>1, <2>3
  <2> QED BY <2>1, <2>4 DEF StillFinds, FindsOn
<1>7. CASE Excess(t)
  <2>1. my[t].pc = "excess"  BY <1>7 DEF Excess
  <2> QED BY <2>1 DEF StillFinds
<1>8. CASE TakeIndex(t)
  <2>1. my[t].pc = "take index" /\ my'[t].pc = "find"  BY <1>8, TakeIndexEffect
  <2> QED BY <2>1 DEF StillFinds, FindsOn
<1>9. CASE Taking(t)
  <2>1. /\ my[t].pc \in {"find", "entry", "move", "unlink", "add"}
        /\ my'[t].pc \in {"entry", "move", "unlink", "add", "out"}
    BY <1>9, TakenEffect DEF Taking
  <2> QED BY <2>1 DEF StillFinds, FindsOn
<1> QED BY <1>2, <1>3, <1>4, <1>5, <1>6, <1>7, <1>8, <1>9 DEF DequeueStep

LEMMA AloneNext ==
    ASSUME TableInv, TableTypes', QueueTypes, ClaimInv, AloneInv, [Next]_vars
    PROVE  /\ AloneInv'
           /\ \A t \in Threads : my[t].pc \in {"score", "test", "excess"} /\ my'[t].pc = "out"
                => ~(my[t].alone /\ my[t].had)
<1> DEFINE Empty(p) == p > created => ~Holds(p)
           Alone(t) == my[t].alone => /\ my[t].pc \in Walking
                                      /\ \A u \in Threads \ {t} : my[u].pc \notin Walking
                                      /\ my[t].had => StillFinds(t)
           Served(t) == my[t].pc \in {"score", "test", "excess"} /\ my'[t].pc = "out"
                          => ~(my[t].alone /\ my[t].had)
<1> SUFFICES /\ \A p \in Producers : Empty(p)'
             /\ \A t \in Threads : Alone(t)' /\ Served(t)
  BY DEF AloneInv
<1>0. TableTypes /\ created \in Nat  BY DEF TableInv, TableTypes
<1>a. /\ \A p \in Producers : Empty(p)
      /\ \A t \in Threads : Alone(t)
  BY DEF AloneInv
<1>b. \A p \in Producers : /\ p \in Nat /\ sub[p].tailIndex \in Nat /\ sub[p].headIndex \in Nat
  BY ClaimNumbers, QueueAssumption
<1>1. CASE StillEffect
  <2>1. sub' = sub /\ my' = my /\ created <= created' /\ created' \in Nat
    BY <1>1 DEF StillEffect, TableTypes
  <2>2. ASSUME NEW p \in Producers  PROVE Empty(p)'
    <3>1. p > created' => p > created  BY <1>0, <1>b, <2>1
    <3> QED BY <1>a, <2>1, <3>1 DEF Holds
  <2>3. ASSUME NEW t \in Threads  PROVE Alone(t)' /\ Served(t)
    <3>1. StillFinds(t) => StillFinds(t)'  BY <2>1 DEF StillFinds, Holds
    <3> QED BY <1>a, <2>1, <3>1
  <2> QED BY <2>2, <2>3
<1>2. ASSUME NEW t \in Threads, EnqueueEffect(t)
      PROVE  (\A p \in Producers : Empty(p)') /\ (\A u \in Threads : Alone(u)' /\ Served(u))
  <2>0. /\ created' = created /\ my[t].pc \notin Walking /\ my'[t].pc \notin Walking
        /\ my'[t].alone => my[t].alone
        /\ \A u \in Threads : u # t => my'[u] = my[u]
    BY <1>2 DEF EnqueueEffect, QueueTypes
  <2>1. \A p \in Producers :
         /\ sub'[p].headIndex = sub[p].headIndex /\ sub'[p].overcommit = sub[p].overcommit
         /\ sub[p].tailIndex <= sub'[p].tailIndex /\ sub'[p].tailIndex \in Nat
         /\ p > created => sub'[p].tailIndex = sub[p].tailIndex
    BY <1>2, SubFields DEF EnqueueEffect
  <2>2. ASSUME NEW p \in Producers  PROVE Empty(p)'
    BY <1>a, <2>0, <2>1 DEF Holds
  <2>3. Alone(t)' /\ Served(t)
    <3>1. ~my[t].alone  BY <1>a, <2>0
    <3> QED BY <2>0, <3>1
  <2>4. ASSUME NEW u \in Threads, u # t  PROVE Alone(u)' /\ Served(u)
    <3>1. my'[u] = my[u]  BY <2>0, <2>4
    <3>2. (\A v \in Threads \ {u} : my[v].pc \notin Walking)
            => (\A v \in Threads \ {u} : my'[v].pc \notin Walking)
      BY <2>0
    <3>3. StillFinds(u) => StillFinds(u)'
      <4> SUFFICES ASSUME StillFinds(u)  PROVE StillFinds(u)'  OBVIOUS
      <4>1. \A q \in Producers : Holds(q) => Holds(q)'  BY <1>b, <2>1 DEF Holds
      <4> DEFINE r == my[u]
      <4>2. CallOK(r)  BY DEF QueueTypes
      <4>3. 1..created \subseteq Producers /\ created <= MaxProducers /\ MaxProducers \in Nat
        BY <1>0, QueueAssumption DEF TableTypes
      <4>4. r.pc = "score" => IF r.found = 0 THEN \E q \in 1..r.p : Holds(q)' ELSE Holds(r.best)'
        <5> SUFFICES ASSUME r.pc = "score"
                     PROVE  IF r.found = 0 THEN \E q \in 1..r.p : Holds(q)' ELSE Holds(r.best)'
          OBVIOUS
        <5>1. r.p \in 1..created /\ (r.found # 0 => r.best \in 1..created)
          BY <4>2 DEF CallOK, Walking
        <5>2. 1..r.p \subseteq Producers  BY <4>3, <5>1, <1>0
        <5>3. IF r.found = 0 THEN \E q \in 1..r.p : Holds(q) ELSE Holds(r.best)
          BY DEF StillFinds
        <5>4. CASE r.found = 0
          <6>1. PICK q \in 1..r.p : Holds(q)  BY <5>3, <5>4
          <6>2. Holds(q)'  BY <4>1, <5>2, <6>1
          <6> QED BY <5>4, <6>2
        <5>5. CASE r.found # 0
          <6>1. Holds(r.best) /\ r.best \in Producers  BY <4>3, <5>1, <5>3, <5>5
          <6>2. \A q \in Producers : q = r.best => Holds(q)'
            <7> HIDE DEF r
            <7> QED BY <4>1, <6>1
          <6>3. Holds(r.best)'
            <7>1. my'[u].best = r.best  BY <3>1
            <7> QED BY <4>1, <6>1, <6>2, <7>1
          <6> QED BY <5>5, <6>3
        <5> QED BY <5>4, <5>5
      <4>5. r.pc = "load" => Holds(r.p)'
        <5> SUFFICES ASSUME r.pc = "load"  PROVE Holds(r.p)'  OBVIOUS
        <5>1. r.p \in Producers  BY <4>2, <4>3 DEF CallOK, Walking
        <5>2. Holds(r.p)  BY DEF StillFinds
        <5> QED BY <1>b, <2>1, <3>1, <5>1, <5>2 DEF Holds
      <4>6. r.pc \in {"test", "claim", "check"} =>
              /\ r.over = sub'[r.p].overcommit
              /\ sub'[r.p].headIndex < r.tail /\ r.tail <= sub'[r.p].tailIndex
              /\ r.pc = "check" => r.i = sub'[r.p].headIndex + r.over
        <5> SUFFICES ASSUME r.pc \in {"test", "claim", "check"}
                     PROVE  /\ r.over = sub'[r.p].overcommit
                            /\ sub'[r.p].headIndex < r.tail /\ r.tail <= sub'[r.p].tailIndex
                            /\ r.pc = "check" => r.i = sub'[r.p].headIndex + r.over
          OBVIOUS
        <5>1. r.p \in Producers /\ r.tail \in Nat  BY <4>2, <4>3 DEF CallOK, Walking
        <5>2. /\ r.over = sub[r.p].overcommit
              /\ sub[r.p].headIndex < r.tail /\ r.tail <= sub[r.p].tailIndex
              /\ r.pc = "check" => r.i = sub[r.p].headIndex + r.over
          BY DEF StillFinds
        <5> HIDE DEF r
        <5> QED BY <1>b, <2>1, <5>1, <5>2
      <4>7. r.pc # "excess"  BY DEF StillFinds
      <4> QED BY <3>1, <4>4, <4>5, <4>6, <4>7 DEF StillFinds
    <3> QED BY <1>a, <3>1, <3>2, <3>3
  <2> QED BY <2>2, <2>3, <2>4
<1>3. ASSUME NEW t \in Threads, CallDequeueEffect(t)
      PROVE  (\A p \in Producers : Empty(p)') /\ (\A u \in Threads : Alone(u)' /\ Served(u))
  <2>0. /\ sub' = sub /\ created' = created /\ my[t].pc = "out"
        /\ my'[t].pc = "score" /\ my'[t].p = created /\ my'[t].found = 0
        /\ my'[t].had => \E q \in Producers : Holds(q)
        /\ my'[t].alone => \A u \in Threads \ {t} : my[u].pc \notin Walking
    BY <1>3 DEF CallDequeueEffect
  <2>1. ASSUME NEW u \in Threads, u # t  PROVE my'[u].pc = my[u].pc /\ my'[u].alone = FALSE
    <3>1. CallOK(my[u])  BY DEF QueueTypes
    <3>2. my'[u] = [my[u] EXCEPT !.alone = FALSE]  BY <1>3, <2>1 DEF CallDequeueEffect
    <3> QED BY <3>1, <3>2 DEF CallOK
  <2>2. ASSUME NEW p \in Producers  PROVE Empty(p)'  BY <1>a, <2>0 DEF Holds
  <2>3. Alone(t)' /\ Served(t)
    <3>1. my'[t].had => StillFinds(t)'
      <4> SUFFICES ASSUME my'[t].had  PROVE StillFinds(t)'  OBVIOUS
      <4>1. PICK q \in Producers : Holds(q)  BY <2>0
      <4>2. q \in 1..created  BY <1>0, <1>a, <1>b, <4>1
      <4>3. Holds(q)'  BY <2>0, <4>1 DEF Holds
      <4> QED BY <2>0, <4>2, <4>3 DEF StillFinds
    <3>2. my'[t].pc \in Walking  BY <2>0 DEF Walking
    <3> QED BY <2>0, <2>1, <3>1, <3>2
  <2>4. ASSUME NEW u \in Threads, u # t  PROVE Alone(u)' /\ Served(u)
    BY <2>1, <2>4
  <2> QED BY <2>2, <2>3, <2>4
<1>4. ASSUME NEW t \in Threads, DequeueStep(t), DequeueEffect(t)
      PROVE  (\A p \in Producers : Empty(p)') /\ (\A u \in Threads : Alone(u)' /\ Served(u))
  <2>0. /\ created' = created /\ my[t].pc \in Walking
        /\ my'[t].alone => my[t].alone /\ my'[t].had = my[t].had /\ my'[t].pc \in Walking
        /\ \A u \in Threads : u # t => my'[u] = my[u]
    BY <1>4 DEF DequeueEffect, QueueTypes
  <2>1. \A p \in Producers : /\ sub'[p].tailIndex = sub[p].tailIndex
                             /\ sub[p].headIndex <= sub'[p].headIndex /\ sub'[p].headIndex \in Nat
    BY <1>4, SubFields DEF DequeueEffect
  <2>2. ASSUME NEW p \in Producers  PROVE Empty(p)'
    BY <1>a, <1>b, <2>0, <2>1 DEF Holds
  <2>3. my[t].alone /\ my[t].had => FindsOn(t)  BY <1>0, <1>4, <1>a, WalkFinds
  <2>4. Alone(t)'
    <3> SUFFICES ASSUME my'[t].alone
                 PROVE  /\ my'[t].pc \in Walking
                        /\ \A u \in Threads \ {t} : my'[u].pc \notin Walking
                        /\ my'[t].had => StillFinds(t)'
      OBVIOUS
    <3>1. \A u \in Threads \ {t} : my'[u].pc \notin Walking  BY <1>a, <2>0
    <3>2. my'[t].had => my[t].alone /\ my[t].had  BY <2>0
    <3> QED BY <2>0, <2>3, <3>1, <3>2 DEF FindsOn
  <2>5. Served(t)  BY <2>3 DEF FindsOn
  <2>6. ASSUME NEW u \in Threads, u # t  PROVE Alone(u)' /\ Served(u)
    <3>1. my'[u] = my[u]  BY <2>0, <2>6
    <3>2. ~my[u].alone  BY <1>a, <2>0, <2>6
    <3> QED BY <3>1, <3>2
  <2> QED BY <2>2, <2>4, <2>5, <2>6
<1> QED BY <1>1, <1>2, <1>3, <1>4, QueueSteps

-----------------------------------------------------------------------------
(* The theorems.                                                           *)

\* At first every sub-queue is balanced, and no call is under way.
LEMMA QueueInit == ASSUME Init PROVE QueueTypes /\ ClaimInv /\ AloneInv
<1> DEFINE left(p) == [NewSub EXCEPT !.tailIndex = BlockSize, !.headIndex = BlockSize,
                                     !.optimistic = BlockSize, !.tailBlock = p,
                                     !.entries[1].key = 0, !.headers[1].tail = 0]
           Balanced(s) == /\ SubOK(s) /\ s.headIndex = s.tailIndex
                          /\ s.optimistic = s.headIndex + s.overcommit
<1>1. \/ sub = [p \in Producers |-> NewSub]
      \/ sub = [p \in Producers |-> left(p)]
  BY DEF Init, InitNew, InitUsed
<1>2. Balanced(NewSub)  BY DEF NewSub, SubOK
<1>3. \A p : Balanced(left(p))
  <2>1. BlockSize \in Nat /\ BlockSize + 0 = BlockSize  BY QueueAssumption
  <2> DEFINE headers == <<[tail |-> IndexSize - 1, index |-> [i \in 0..(IndexSize-1) |-> i + 1]]>>
             entries == [e \in 1..IndexSize |-> [key |-> NoKey, value |-> Null]]
  <2>2. NewSub = [tailIndex |-> 0, headIndex |-> 0, optimistic |-> 0, overcommit |-> 0,
                  tailBlock |-> Null, entries |-> entries, headers |-> headers]
    BY DEF NewSub
  <2> HIDE DEF headers, entries
  <2>3. ASSUME NEW p  PROVE Balanced(left(p))
    <3> DEFINE s == left(p)
    <3>1. /\ s.tailIndex = BlockSize /\ s.headIndex = BlockSize /\ s.optimistic = BlockSize
          /\ s.overcommit = 0
      BY <2>2
    <3>2. s \in [tailIndex: {BlockSize}, headIndex: {BlockSize}, optimistic: {BlockSize},
                 overcommit: {0}, tailBlock: {s.tailBlock}, entries: {s.entries},
                 headers: {s.headers}]
      BY <2>2
    <3> HIDE DEF s, left
    <3>3. SubOK(s)  BY <2>1, <3>2 DEF SubOK
    <3> QED BY <2>1, <3>1, <3>3 DEF s
  <2> QED BY <2>3
<1> HIDE DEF left
<1>4. sub = [p \in Producers |-> sub[p]] /\ \A p \in Producers : Balanced(sub[p])
  <2> HIDE DEF Balanced
  <2> QED BY <1>1, <1>2, <1>3
<1>5. my = [t \in Threads |-> Idle]  BY DEF Init
<1>6. Idle.pc = "out" /\ Idle.alone = FALSE  BY DEF Idle
<1>7. QueueTypes  BY <1>4, <1>5, IdleOK DEF QueueTypes
<1>8. ClaimInv
  <2> SUFFICES ASSUME NEW p \in Producers  PROVE ClaimAt(p)  BY DEF ClaimInv
  <2> DEFINE E == Cardinality(AtLabel(p, "excess"))
             C == Cardinality(AtLabel(p, "check"))
             L == Cardinality(AtLabel(p, "take index"))
  <2>1. \A l : l # "out" => AtLabel(p, l) = {}  BY <1>5, <1>6 DEF AtLabel
  <2>2. /\ AtLabel(p, "excess") = {} /\ AtLabel(p, "check") = {} /\ AtLabel(p, "take index") = {}
        /\ AtLabel(p, "test") = {} /\ AtLabel(p, "claim") = {}
    BY <2>1
  <2>3. E = 0 /\ C = 0 /\ L = 0  BY <2>2, FS_EmptySet
  <2>4. Taken(p) = sub[p].headIndex + L  BY DEF Taken
  <2>5. /\ sub[p].headIndex \in Nat /\ sub[p].overcommit \in Nat
        /\ sub[p].headIndex = sub[p].tailIndex
        /\ sub[p].optimistic = sub[p].headIndex + sub[p].overcommit
    BY <1>4, SubFields
  <2>6. sub[p].optimistic = Taken(p) + sub[p].overcommit + E + C /\ Taken(p) <= sub[p].tailIndex
    <3> HIDE DEF E, C, L
    <3> QED BY <2>3, <2>4, <2>5
  <2> QED BY <2>2, <2>6 DEF ClaimAt, ClaimsAdd
<1>9. AloneInv
  <2>1. ASSUME NEW p \in Producers  PROVE ~Holds(p)
    BY <1>4, SubFields DEF Holds
  <2> QED BY <1>5, <1>6, <2>1 DEF AloneInv
<1> QED BY <1>7, <1>8, <1>9

\* The tables, the counters and the walk of a dequeue that is alone are at all
\* times as enqueue and try_dequeue need them.
THEOREM QueueInvariant == Spec => []QueueInv
<1>1. Init => QueueInv  BY TableInit, QueueInit DEF QueueInv
<1>2. QueueInv /\ [Next]_vars => QueueInv'
  <2> SUFFICES ASSUME QueueInv, [Next]_vars  PROVE QueueInv'  OBVIOUS
  <2>1. TableInv /\ QueueTypes /\ ClaimInv /\ AloneInv  BY DEF QueueInv
  <2>2. TableInv'  BY <2>1, TableNext
  <2>3. TableTypes'  BY <2>2 DEF TableInv
  <2>4. QueueTypes'  BY <2>1, <2>3, TypesNext
  <2>5. ClaimInv'  BY <2>1, <2>4, ClaimNext
  <2>6. AloneInv'  BY <2>1, <2>3, AloneNext
  <2> QED BY <2>2, <2>4, <2>5, <2>6 DEF QueueInv
<1> QED BY <1>1, <1>2, PTL DEF Spec

\* No two threads write to the same sub-queue: a producer that is in use
\* belongs to one thread, however threads come and go and the tables grow.
THEOREM QueueOneWriter == Spec => []OneWriter
<1>1. QueueInv => OneWriter  BY DEF QueueInv, TableInv, MineInv
<1> QED BY <1>1, QueueInvariant, PTL

\* No more indexes are taken from a sub-queue than elements were published.
THEOREM QueueClaims == Spec => []ClaimsAreBacked
<1>1. QueueInv => ClaimsAreBacked
  <2> SUFFICES ASSUME QueueInv, NEW p \in Producers
               PROVE  sub[p].headIndex <= sub[p].tailIndex
    BY DEF ClaimsAreBacked
  <2> DEFINE L == Cardinality(AtLabel(p, "take index"))
  <2>1. QueueTypes /\ ClaimsAdd(p)  BY DEF QueueInv, ClaimInv, ClaimAt
  <2>2. sub[p].headIndex + L <= sub[p].tailIndex  BY <2>1 DEF ClaimsAdd, Taken
  <2>3. L \in Nat /\ sub[p].headIndex \in Nat /\ sub[p].tailIndex \in Nat
    BY <2>1, ClaimNumbers, LabelFinite
  <2> HIDE DEF L
  <2> QED BY <2>2, <2>3
<1> QED BY <1>1, QueueInvariant, PTL

\* A try_dequeue that no other one overlaps, called when the queue held an
\* element, does not come back without one.
THEOREM QueueAloneGetsOne == Spec => AloneGetsOne
<1>1. QueueInv /\ QueueInv' /\ [Next]_vars =>
        [\A t \in Threads :
           my[t].pc \in {"score", "test", "excess"} /\ my'[t].pc = "out"
             => ~(my[t].alone /\ my[t].had)]_vars
  <2> SUFFICES ASSUME QueueInv, QueueInv', [Next]_vars
               PROVE  \A t \in Threads :
                        my[t].pc \in {"score", "test", "excess"} /\ my'[t].pc = "out"
                          => ~(my[t].alone /\ my[t].had)
    OBVIOUS
  <2>1. TableInv /\ TableTypes' /\ QueueTypes /\ ClaimInv /\ AloneInv
    BY DEF QueueInv, TableInv
  <2> QED BY <2>1, AloneNext
<1> QED BY <1>1, QueueInvariant, PTL DEF Spec, AloneGetsOne

-----------------------------------------------------------------------------
(* The block index.  First, numbers that differ by a multiple of another.  *)

Cong(a, b, z) == \E q \in Int : a = b + q * z

LEMMA CongSym == ASSUME NEW a \in Int, NEW b \in Int, NEW z \in Int, Cong(a, b, z)  PROVE Cong(b, a, z)
<1>1. PICK q \in Int : a = b + q * z  BY DEF Cong
<1>2. -q \in Int /\ (-q) * z = -(q * z)  OBVIOUS
<1> QED BY <1>1, <1>2 DEF Cong

\* Congruence is transitive and goes along with sums and differences.
LEMMA CongTrans ==
    ASSUME NEW a \in Int, NEW b \in Int, NEW c \in Int, NEW z \in Int, Cong(a, b, z), Cong(b, c, z)
    PROVE  Cong(a, c, z)
<1>1. PICK q \in Int : a = b + q * z  BY DEF Cong
<1>2. PICK r \in Int : b = c + r * z  BY DEF Cong
<1>3. q + r \in Int /\ (q + r) * z = q * z + r * z  OBVIOUS
<1>4. q * z \in Int /\ r * z \in Int  OBVIOUS
<1>5. a = c + (q + r) * z  BY <1>1, <1>2, <1>3, <1>4
<1> QED BY <1>3, <1>5 DEF Cong

LEMMA CongAdd ==
    ASSUME NEW a \in Int, NEW b \in Int, NEW c \in Int, NEW z \in Int, Cong(a, b, z)
    PROVE  Cong(a + c, b + c, z)
BY DEF Cong

LEMMA CongSub ==
    ASSUME NEW a \in Int, NEW b \in Int, NEW c \in Int, NEW z \in Int, Cong(a, b, z)
    PROVE  Cong(c - a, c - b, z)
<1>1. PICK q \in Int : a = b + q * z  BY DEF Cong
<1>2. -q \in Int /\ (-q) * z = -(q * z)  OBVIOUS
<1>3. c - a = (c - b) + (-q) * z  BY <1>1, <1>2
<1> QED BY <1>2, <1>3 DEF Cong

LEMMA CongOne ==
    ASSUME NEW a \in Int, NEW z \in Int  PROVE Cong(a + z, a, z) /\ Cong(a - z, a, z) /\ Cong(a, a, z)
<1>1. a + z = a + 1 * z /\ a - z = a + (-1) * z /\ a = a + 0 * z  OBVIOUS
<1> QED BY <1>1 DEF Cong

\* Numbers congruent modulo a multiple of z are congruent modulo z.
LEMMA CongDivides ==
    ASSUME NEW a \in Int, NEW b \in Int, NEW z \in Int, NEW r \in Int, Cong(a, b, r * z)
    PROVE  Cong(a, b, z)
<1>1. PICK q \in Int : a = b + q * (r * z)  BY DEF Cong
<1>2. q * r \in Int /\ q * (r * z) = (q * r) * z  OBVIOUS
<1> QED BY <1>1, <1>2 DEF Cong

LEMMA CongDivisor ==
    ASSUME NEW a \in Int, NEW b \in Int, NEW z \in Int, NEW r \in Int,
           NEW n, n = r * z, Cong(a, b, n)
    PROVE  Cong(a, b, z)
BY CongDivides

LEMMA ProductAtLeast ==
    ASSUME NEW q \in Int, NEW z \in Nat, q >= 1  PROVE q * z >= z
<1>1. (q - 1) * z >= 0  OBVIOUS
<1>2. (q - 1) * z = q * z - z  OBVIOUS
<1> QED BY <1>1, <1>2

\* Within a stretch as long as z, equal but for multiples of z is equal.
LEMMA CongEqual ==
    ASSUME NEW a \in Int, NEW b \in Int, NEW z \in Nat, Cong(a, b, z), a - b < z, b - a < z
    PROVE  a = b
<1>1. PICK q \in Int : a = b + q * z  BY DEF Cong
<1>2. CASE q >= 1
  <2>1. q * z >= z  BY <1>2, ProductAtLeast
  <2> QED BY <1>1, <2>1
<1>3. CASE q <= -1
  <2>1. -q \in Int /\ -q >= 1 /\ (-q) * z = -(q * z)  BY <1>3
  <2>2. (-q) * z >= z  BY <2>1, ProductAtLeast
  <2> QED BY <1>1, <2>1, <2>2
<1>4. CASE q = 0  BY <1>1, <1>4
<1> QED BY <1>2, <1>3, <1>4

\* Quotient and remainder, which are congruent modulo the divisor.
LEMMA DivMod ==
    ASSUME NEW a \in Int, NEW z \in Nat \ {0}
    PROVE  \E q \in Int, r \in 0..(z-1) : q = a \div z /\ r = a % z /\ a = q * z + r
<1> DEFINE q == a \div z
           r == a % z
<1>1. q \in Int /\ r \in 0..(z-1)  OBVIOUS
<1>2. q = a \div z /\ r = a % z  OBVIOUS
<1> HIDE DEF q, r
<1>3. a = z * q + r  BY <1>2
<1>4. z * q = q * z  BY <1>1
<1> QED BY <1>1, <1>2, <1>3, <1>4

LEMMA CongMod ==
    ASSUME NEW a \in Int, NEW z \in Nat \ {0}  PROVE a % z \in 0..(z-1) /\ Cong(a % z, a, z)
<1>1. PICK q \in Int, r \in 0..(z-1) : q = a \div z /\ r = a % z /\ a = q * z + r
  BY DivMod
<1>2. q \in Int /\ r \in 0..(z-1) /\ a = q * z + r  BY <1>1
<1>3. -q \in Int /\ (-q) * z = -(q * z) /\ q * z \in Int  BY <1>2
<1>4. r = a + (-q) * z  BY <1>2, <1>3
<1> QED BY <1>1, <1>2, <1>3, <1>4 DEF Cong

-----------------------------------------------------------------------------
(* Multiples of BlockSize and the blocks' first indexes.                   *)

\* Multiples of BlockSize keep the order of their factors.
LEMMA Multiples ==
    ASSUME NEW x \in Int, NEW y \in Int
    PROVE  /\ x * BlockSize \in Int
           /\ (x + 1) * BlockSize = x * BlockSize + BlockSize
           /\ (x - 1) * BlockSize = x * BlockSize - BlockSize
           /\ (x - y) * BlockSize = x * BlockSize - y * BlockSize
           /\ x < y => x * BlockSize + BlockSize <= y * BlockSize
           /\ x * BlockSize < y * BlockSize + BlockSize => x <= y
           /\ x * BlockSize = y * BlockSize => x = y
           /\ x * BlockSize >= 0 <=> x >= 0
           /\ x * BlockSize # NoKey
<1>1. BlockSize \in Nat /\ BlockSize >= 2  BY QueueAssumption
<1> DEFINE B == BlockSize
<1>2. \A a, b \in Int : a < b => a * B + B <= b * B
  <2> SUFFICES ASSUME NEW a \in Int, NEW b \in Int, a < b PROVE a * B + B <= b * B
    OBVIOUS
  <2>1. (b - a) * B >= B  BY <1>1, ProductAtLeast
  <2>2. (b - a) * B = b * B - a * B  BY <1>1
  <2>3. a * B \in Int /\ b * B \in Int  BY <1>1
  <2> QED BY <1>1, <2>1, <2>2, <2>3
<1>3. /\ x * B \in Int /\ y * B \in Int /\ (x + 1) * B = x * B + B /\ (x - 1) * B = x * B - B
      /\ (x - y) * B = x * B - y * B
  BY <1>1
<1> HIDE DEF B
<1>4. x * B < y * B + B => x <= y
  <2>1. CASE y < x
    <3>1. y * B + B <= x * B  BY <1>2, <2>1
    <3> QED BY <1>3, <1>1, <3>1 DEF B
  <2> QED BY <2>1
<1>5. x * B = y * B => x = y
  <2>1. x < y => x * B + B <= y * B  BY <1>2
  <2>2. y < x => y * B + B <= x * B  BY <1>2
  <2> QED BY <1>1, <1>3, <2>1, <2>2 DEF B
<1>6. 0 * B = 0 /\ 1 * B = B  BY <1>1 DEF B
<1>7. x * B >= 0 <=> x >= 0
  <2>1. x < 0 => x * B + B <= 0 * B  BY <1>2
  <2>2. 0 < x => 0 * B + B <= x * B  BY <1>2
  <2> QED BY <1>1, <1>3, <1>6, <2>1, <2>2 DEF B
<1>8. x * B # 1
  <2>1. x < 1 => x * B + B <= 1 * B  BY <1>2
  <2>2. 1 < x => 1 * B + B <= x * B  BY <1>2
  <2> QED BY <1>1, <1>3, <1>6, <2>1, <2>2 DEF B
<1> QED BY <1>2, <1>3, <1>4, <1>5, <1>7, <1>8 DEF B, NoKey

\* The first index of an index's block, and the cell that it has there.
LEMMA FirstOfIs ==
    ASSUME NEW i \in Nat
    PROVE  \E q \in Nat : /\ FirstOf(i) = q * BlockSize /\ FirstOf(i) \in Nat
                          /\ FirstOf(i) <= i /\ i < FirstOf(i) + BlockSize
                          /\ i % BlockSize = i - FirstOf(i)
                          /\ i % BlockSize \in 0..(BlockSize-1)
<1>1. BlockSize \in Nat /\ BlockSize >= 2  BY QueueAssumption
<1>2. PICK q \in Int, r \in 0..(BlockSize-1) :
        q = i \div BlockSize /\ r = i % BlockSize /\ i = q * BlockSize + r
  BY <1>1, DivMod
<1>3. q \in Int /\ r \in 0..(BlockSize-1) /\ i = q * BlockSize + r  BY <1>2
<1>4. q * BlockSize \in Int /\ (q * BlockSize >= 0 <=> q >= 0)
      /\ (q < 0 => q * BlockSize + BlockSize <= 0 * BlockSize)
  BY <1>3, Multiples
<1>5. 0 * BlockSize = 0  BY <1>1
<1>6. q \in Nat
  <2>1. CASE q < 0  BY <1>1, <1>3, <1>4, <1>5, <2>1
  <2> QED BY <1>3, <2>1
<1>7. FirstOf(i) = i - r  BY <1>2 DEF FirstOf
<1>8. /\ FirstOf(i) = q * BlockSize /\ FirstOf(i) \in Nat
      /\ FirstOf(i) <= i /\ i < FirstOf(i) + BlockSize /\ r = i - FirstOf(i)
  BY <1>1, <1>3, <1>4, <1>6, <1>7
<1> QED BY <1>2, <1>3, <1>6, <1>8

LEMMA DivExact ==
    ASSUME NEW d \in Int, NEW a \in Int, a = d * BlockSize  PROVE a \div BlockSize = d
<1>1. BlockSize \in Nat \ {0} /\ BlockSize >= 2  BY QueueAssumption
<1>2. PICK q \in Int, r \in 0..(BlockSize-1) :
        q = a \div BlockSize /\ r = a % BlockSize /\ a = q * BlockSize + r
  BY <1>1, DivMod
<1>3. q \in Int /\ r \in 0..(BlockSize-1) /\ a = q * BlockSize + r  BY <1>2
<1>4. q * BlockSize \in Int  BY <1>3, Multiples
<1>5. ~(q < d)
  <2>1. q < d => q * BlockSize + BlockSize <= d * BlockSize  BY <1>3, Multiples
  <2> QED BY <1>1, <1>3, <1>4, <2>1
<1>6. ~(d < q)
  <2>1. d < q => d * BlockSize + BlockSize <= q * BlockSize  BY <1>3, Multiples
  <2> QED BY <1>1, <1>3, <1>4, <2>1
<1>7. q = d  BY <1>3, <1>5, <1>6
<1> QED BY <1>2, <1>7

\* The indexes of a block are those from its first one.
LEMMA FirstOfOnly ==
    ASSUME NEW i \in Nat, NEW x \in Int, x * BlockSize <= i, i < x * BlockSize + BlockSize
    PROVE  FirstOf(i) = x * BlockSize
<1>1. PICK q \in Nat : FirstOf(i) = q * BlockSize /\ FirstOf(i) <= i /\ i < FirstOf(i) + BlockSize
  BY FirstOfIs
<1>0. BlockSize \in Nat  BY QueueAssumption
<1>2. q * BlockSize \in Int /\ x * BlockSize \in Int  BY <1>1, Multiples
<1>3. q <= x
  <2>1. q * BlockSize < x * BlockSize + BlockSize  BY <1>0, <1>1, <1>2
  <2> QED BY <1>1, <2>1, Multiples
<1>4. x <= q
  <2>1. x * BlockSize < q * BlockSize + BlockSize  BY <1>0, <1>1, <1>2
  <2> QED BY <1>1, <2>1, Multiples
<1> QED BY <1>1, <1>3, <1>4

-----------------------------------------------------------------------------
(* The block index of a sub-queue.                                         *)

\* What the index of a sub-queue is made of.
Entry == [key: Nat, value: Blocks \cup {Null}]
AnIndex == UNION {[0..(z-1) -> Nat] : z \in Nat \ {0}}
AHeader == [tail: Nat, index: AnIndex]

\* The entries' numbers: an entry with number x is the one for the block that
\* begins at x * BlockSize.  m blocks were begun, the entries have the last
\* numbers below m.  An entry was never used, or has its block's key, or it
\* was given back when it was the next one to be used.
KeyOK(x, k, m, n) ==
    \/ x.key = NoKey /\ x.value = Null
    \/ x.key = k * BlockSize
    \/ k = m - n /\ x.key = m * BlockSize /\ x.value = Null
Numbered(E, m, num) ==
    LET n == Len(E) IN
    /\ E \in Seq(Entry) /\ n >= 2 /\ m \in Nat
    /\ num \in [1..n -> Int]
    /\ \A e \in 1..n : num[e] \in (m-n)..(m-1)
    /\ \A e, f \in 1..n : num[e] = num[f] => e = f
    /\ \A e \in 1..n : KeyOK(E[e], num[e], m, n)
    /\ \A e \in 1..n : num[e] = m - 1 /\ m >= 1 => E[e].key # NoKey

\* A header's slots have numbers in their order, but for multiples of its size.
Fits(h, n, num, o) ==
    \E z, r \in Nat \ {0} :
      /\ n = r * z
      /\ h.index \in [0..(z-1) -> 1..n] /\ h.tail \in 0..(z-1)
      /\ \A a \in 0..(z-1) : Cong(num[h.index[a]], a + o, z)

\* The newest header has all entries; its tail's entry is the last one begun.
Newest(h, n, m, o) ==
    /\ h.index \in [0..(n-1) -> 1..n] /\ h.tail \in 0..(n-1)
    /\ \A e \in 1..n : \E a \in 0..(n-1) : h.index[a] = e
    /\ Cong(m, h.tail + 1 + o, n)
Headed(H, n, m, num, off) ==
    /\ H \in Seq(AHeader) /\ Len(H) >= 1 /\ off \in [1..Len(H) -> Int]
    /\ \A j \in 1..Len(H) : Fits(H[j], n, num, off[j])
    /\ Newest(H[Len(H)], n, m, off[Len(H)])

\* The entries E and the headers H of an index in which m blocks were begun.
Indexed(E, H, m, num, off) == Numbered(E, m, num) /\ Headed(H, Len(E), m, num, off)

LEMMA SizeIs ==
    ASSUME NEW z \in Nat \ {0}, NEW S, NEW f \in [0..(z-1) -> S]  PROVE Size(f) = z
<1>1. 0 \in Int /\ z - 1 \in Int /\ (z - 1) - 0 + 1 = z /\ ~(0 > z - 1)  OBVIOUS
<1>2. Cardinality(0..(z-1)) = z  BY <1>1, FS_Interval
<1>3. DOMAIN f = 0..(z-1)  OBVIOUS
<1> QED BY <1>2, <1>3 DEF Size

\* The size of a header that fits, and the numbers of its slots.
LEMMA FitsShape ==
    ASSUME NEW h, NEW n, NEW num, NEW o, Fits(h, n, num, o)
    PROVE  LET z == Size(h.index) IN
           /\ z \in Nat \ {0} /\ \E r \in Nat \ {0} : n = r * z
           /\ h.index \in [0..(z-1) -> 1..n] /\ h.tail \in 0..(z-1)
           /\ \A a \in 0..(z-1) : Cong(num[h.index[a]], a + o, z)
<1>1. PICK z, r \in Nat \ {0} :
        /\ n = r * z
        /\ h.index \in [0..(z-1) -> 1..n] /\ h.tail \in 0..(z-1)
        /\ \A a \in 0..(z-1) : Cong(num[h.index[a]], a + o, z)
  BY DEF Fits
<1>2. Size(h.index) = z  BY <1>1, SizeIs
<1> QED BY <1>1, <1>2

\* Numbers that move by n, and entries that are added, leave a header fitting.
LEMMA FitsShifted ==
    ASSUME NEW h, NEW n \in Nat, NEW num \in [1..n -> Int], NEW o \in Int, Fits(h, n, num, o),
           NEW new \in [1..n -> Int],
           \A e \in 1..n : new[e] = num[e] \/ new[e] = num[e] + n \/ new[e] = num[e] - n
    PROVE  Fits(h, n, new, o)
<1>1. PICK z, r \in Nat \ {0} :
        /\ n = r * z
        /\ h.index \in [0..(z-1) -> 1..n] /\ h.tail \in 0..(z-1)
        /\ \A a \in 0..(z-1) : Cong(num[h.index[a]], a + o, z)
  BY DEF Fits
<1>2. ASSUME NEW a \in 0..(z-1)  PROVE Cong(new[h.index[a]], a + o, z)
  <2> DEFINE e == h.index[a]
  <2>1. e \in 1..n  BY <1>1
  <2>2. Cong(num[e], a + o, z)  BY <1>1
  <2> HIDE DEF e
  <2>3. num[e] \in Int /\ new[e] \in Int /\ z \in Int /\ a + o \in Int /\ n \in Int  BY <2>1
  <2>4. Cong(num[e] + n, num[e], z) /\ Cong(num[e] - n, num[e], z)
    <3>1. Cong(num[e] + n, num[e], n) /\ Cong(num[e] - n, num[e], n)  BY <2>3, CongOne
    <3>2. num[e] + n \in Int /\ num[e] - n \in Int  BY <2>3
    <3> QED BY <1>1, <2>3, <3>1, <3>2, CongDivides
  <2>5. Cong(new[e], num[e], z)
    <3>1. Cong(num[e], num[e], z)  BY <2>3, CongOne
    <3> QED BY <2>1, <2>4, <3>1
  <2>6. Cong(new[e], a + o, z)  BY <2>2, <2>3, <2>5, CongTrans
  <2> QED BY <2>6 DEF e
<1> QED BY <1>1, <1>2 DEF Fits

\* A header stays in order when entries are added, and when its tail moves.
LEMMA FitsMore ==
    ASSUME NEW h, NEW n \in Nat, NEW num, NEW o \in Int, Fits(h, n, num, o),
           NEW new, \A e \in 1..n : new[e] = num[e]
    PROVE  Fits(h, 2 * n, new, o)
<1>1. PICK z, r \in Nat \ {0} :
        /\ n = r * z
        /\ h.index \in [0..(z-1) -> 1..n] /\ h.tail \in 0..(z-1)
        /\ \A a \in 0..(z-1) : Cong(num[h.index[a]], a + o, z)
  BY DEF Fits
<1>2. 2 * n = (2 * r) * z /\ 2 * r \in Nat \ {0}  BY <1>1
<1>3. h.index \in [0..(z-1) -> 1..(2*n)]
  <2>1. 1..n \subseteq 1..(2*n)  OBVIOUS
  <2> QED BY <1>1, <2>1
<1>4. \A a \in 0..(z-1) : Cong(new[h.index[a]], a + o, z)  BY <1>1
<1> QED BY <1>1, <1>2, <1>3, <1>4 DEF Fits

LEMMA FitsTail ==
    ASSUME NEW h \in AHeader, NEW n, NEW num, NEW o, Fits(h, n, num, o),
           NEW x \in 0..(Size(h.index) - 1)
    PROVE  Fits([h EXCEPT !.tail = x], n, num, o)
<1> DEFINE g == [h EXCEPT !.tail = x]
           z == Size(h.index)
<1>1. g.index = h.index /\ g.tail = x  BY DEF AHeader
<1>2. /\ z \in Nat \ {0} /\ \E r \in Nat \ {0} : n = r * z
      /\ h.index \in [0..(z-1) -> 1..n] /\ x \in 0..(z-1)
      /\ \A a \in 0..(z-1) : Cong(num[h.index[a]], a + o, z)
  BY FitsShape
<1> HIDE DEF g, z
<1>3. Fits(g, n, num, o)  BY <1>1, <1>2 DEF Fits
<1> QED BY <1>3 DEF g

\* Where the newest header's tail is, and the slot after it.
LEMMA TailNum ==
    ASSUME NEW E, NEW H, NEW m, NEW num, NEW off, Indexed(E, H, m, num, off)
    PROVE  LET n == Len(E)
               h == H[Len(H)]
           IN  /\ n \in Nat /\ m \in Nat /\ h \in AHeader /\ Size(h.index) = n
               /\ h.index \in [0..(n-1) -> 1..n] /\ h.tail \in 0..(n-1)
               /\ \A a \in 0..(n-1) : Cong(num[h.index[a]], a + off[Len(H)], n)
               /\ num[h.index[h.tail]] = m - 1
               /\ NextSlot(h) \in 0..(n-1) /\ num[h.index[NextSlot(h)]] = m - n
<1> DEFINE n == Len(E)
           h == H[Len(H)]
           o == off[Len(H)]
           s == NextSlot(h)
<1>1. /\ n \in Nat /\ n >= 2 /\ m \in Nat /\ num \in [1..n -> Int]
      /\ \A e \in 1..n : num[e] \in (m-n)..(m-1)
  BY DEF Indexed, Numbered
<1>2. Len(H) \in 1..Len(H) /\ h \in AHeader /\ o \in Int
  <2>1. H \in Seq(AHeader) /\ Len(H) >= 1 /\ off \in [1..Len(H) -> Int]  BY DEF Indexed, Headed
  <2>2. Len(H) \in 1..Len(H)  BY <2>1
  <2> QED BY <2>1, <2>2
<1>3. Fits(h, n, num, o) /\ Newest(h, n, m, o)  BY <1>2 DEF Indexed, Headed
<1>4. h.index \in [0..(n-1) -> 1..n] /\ h.tail \in 0..(n-1) /\ Cong(m, h.tail + 1 + o, n)
  BY <1>3 DEF Newest
<1>5. Size(h.index) = n
  <2>1. n \in Nat \ {0} /\ h.index \in [0..(n-1) -> 1..n]  BY <1>1, <1>4
  <2> HIDE DEF n, h
  <2> QED BY <2>1, SizeIs
<1>6. \A a \in 0..(n-1) : Cong(num[h.index[a]], a + o, n)
  <2> HIDE DEF n, h, o
  <2> QED BY <1>3, <1>5, FitsShape
<1>7. s = (h.tail + 1) % n  BY <1>5 DEF NextSlot
<1> DEFINE tl == h.tail
<1> HIDE DEF h, o, s, n, tl
<1>8. tl \in 0..(n-1) /\ tl = h.tail  BY <1>4 DEF tl
<1>9. num[h.index[tl]] = m - 1
  <2> DEFINE x == num[h.index[tl]]
  <2>1. x \in (m-n)..(m-1) /\ x \in Int  BY <1>1, <1>4, <1>8
  <2>2. Cong(x, tl + o, n)  BY <1>6, <1>8
  <2> HIDE DEF x
  <2>3. Cong(m - 1, tl + o, n)
    <3>1. Cong(m, tl + 1 + o, n)  BY <1>4, <1>8
    <3>2. tl + 1 + o \in Int /\ m \in Int /\ -1 \in Int /\ n \in Int  BY <1>1, <1>2, <1>8
    <3>3. Cong(m + (-1), (tl + 1 + o) + (-1), n)  BY <3>1, <3>2, CongAdd
    <3>4. m + (-1) = m - 1 /\ (tl + 1 + o) + (-1) = tl + o  BY <1>1, <1>2, <1>8
    <3> QED BY <3>3, <3>4
  <2>4. Cong(x, m - 1, n)
    <3>1. tl + o \in Int /\ m - 1 \in Int /\ n \in Int  BY <1>1, <1>2, <1>8
    <3>2. Cong(tl + o, m - 1, n)  BY <2>3, <3>1, CongSym
    <3> QED BY <2>1, <2>2, <3>1, <3>2, CongTrans
  <2>5. x - (m - 1) < n /\ (m - 1) - x < n /\ m - 1 \in Int  BY <1>1, <2>1
  <2>6. x = m - 1  BY <1>1, <2>1, <2>4, <2>5, CongEqual
  <2> QED BY <2>6 DEF x
<1>10. s \in 0..(n-1) /\ num[h.index[s]] = m - n
  <2> DEFINE y == tl + 1
             x == num[h.index[s]]
  <2>1. y \in Int /\ n \in Nat \ {0} /\ s = y % n  BY <1>1, <1>7, <1>8
  <2> HIDE DEF y
  <2>2. s \in 0..(n-1) /\ Cong(s, y, n)  BY <2>1, CongMod
  <2>3. x \in (m-n)..(m-1) /\ x \in Int  BY <1>1, <1>4, <2>2
  <2>4. Cong(x, s + o, n)  BY <1>6, <2>2
  <2> HIDE DEF x
  <2>5. s \in Int /\ n \in Int /\ s + o \in Int /\ y + o \in Int /\ m \in Int /\ m - n \in Int
    BY <1>1, <1>2, <2>1, <2>2
  <2>6. Cong(s + o, y + o, n)  BY <1>2, <2>1, <2>2, <2>5, CongAdd
  <2>7. Cong(y + o, m, n)
    <3>1. Cong(m, y + o, n)  BY <1>4, <1>8 DEF y
    <3> QED BY <2>5, <3>1, CongSym
  <2>8. Cong(m, m - n, n)
    <3>1. Cong(m - n, m, n)  BY <2>5, CongOne
    <3> QED BY <2>5, <3>1, CongSym
  <2>9. Cong(x, y + o, n)  BY <2>3, <2>4, <2>5, <2>6, CongTrans
  <2>10. Cong(x, m, n)  BY <2>3, <2>5, <2>7, <2>9, CongTrans
  <2>11. Cong(x, m - n, n)  BY <2>3, <2>5, <2>8, <2>10, CongTrans
  <2>12. x - (m - n) < n /\ (m - n) - x < n  BY <1>1, <2>3
  <2>13. x = m - n  BY <1>1, <2>3, <2>5, <2>11, <2>12, CongEqual
  <2> QED BY <2>2, <2>13 DEF x
<1> QED BY <1>1, <1>2, <1>4, <1>5, <1>6, <1>8, <1>9, <1>10 DEF h, o, s, n, tl

\* The edits: the newest header's tail, an entry's key, an entry's block.
TailSet(H, x) == [H EXCEPT ![Len(H)].tail = x]
KeySet(E, e, k) == [E EXCEPT ![e].key = k]
ValueSet(E, e, v) == [E EXCEPT ![e].value = v]

LEMMA TailEdit ==
    ASSUME NEW H \in Seq(AHeader), Len(H) >= 1, NEW x \in Nat
    PROVE  LET G == TailSet(H, x)
               l == Len(H)
           IN  /\ G \in Seq(AHeader) /\ Len(G) = l /\ G[l] \in AHeader
               /\ G[l].tail = x /\ G[l].index = H[l].index /\ G[l] = [H[l] EXCEPT !.tail = x]
               /\ \A j \in 1..l : G[j].index = H[j].index /\ (j # l => G[j] = H[j])
<1> DEFINE l == Len(H)
           g == [H[l] EXCEPT !.tail = x]
           G == TailSet(H, x)
<1>1. l \in 1..l /\ H[l] \in AHeader  OBVIOUS
<1>2. g \in AHeader /\ g.tail = x /\ g.index = H[l].index  BY <1>1 DEF AHeader
<1>3. G = [H EXCEPT ![l] = g]  BY DEF TailSet
<1>4. g = [H[l] EXCEPT !.tail = x]  OBVIOUS
<1> HIDE DEF l, g, G
<1>5. G \in Seq(AHeader) /\ Len(G) = l /\ G[l] = g /\ \A j \in 1..l : j # l => G[j] = H[j]
  BY <1>1, <1>2, <1>3 DEF l
<1>6. \A j \in 1..l : G[j].index = H[j].index  BY <1>2, <1>5
<1> QED BY <1>2, <1>4, <1>5, <1>6 DEF l, G

LEMMA TailEditIndexes ==
    ASSUME NEW H \in Seq(AHeader), Len(H) >= 1, NEW x \in Nat, NEW G, G = TailSet(H, x)
    PROVE  Len(G) = Len(H) /\ \A j \in 1..Len(H) : G[j].index = H[j].index
<1> DEFINE l == Len(H)
           g == [H[l] EXCEPT !.tail = x]
<1>1. l \in 1..l /\ H[l] \in AHeader  OBVIOUS
<1>2. g.index = H[l].index  BY <1>1 DEF AHeader
<1>3. G = [H EXCEPT ![l] = g]  BY DEF TailSet
<1> HIDE DEF l, g
<1>4. Len(G) = l /\ G[l] = g /\ \A j \in 1..l : j # l => G[j] = H[j]  BY <1>1, <1>3 DEF l
<1> QED BY <1>2, <1>4 DEF l

\* The newest header's tail moves, and numbers move by n.
LEMMA HeadedMoved ==
    ASSUME NEW H, NEW n \in Nat, NEW m, NEW num \in [1..n -> Int], NEW off,
           Headed(H, n, m, num, off),
           NEW new \in [1..n -> Int],
           \A e \in 1..n : new[e] = num[e] \/ new[e] = num[e] + n \/ new[e] = num[e] - n,
           NEW x \in 0..(n-1), NEW k, NEW y, y = x + 1 + off[Len(H)], Cong(k, y, n)
    PROVE  Headed(TailSet(H, x), n, k, new, off)
<1> DEFINE l == Len(H)
           g == [H[l] EXCEPT !.tail = x]
           G == TailSet(H, x)
<1>1. /\ H \in Seq(AHeader) /\ l \in 1..l /\ l >= 1 /\ off \in [1..l -> Int] /\ l \in Nat
      /\ \A j \in 1..l : Fits(H[j], n, num, off[j])
      /\ Newest(H[l], n, m, off[l])
  BY DEF Headed
<1>2. H[l] \in AHeader  BY <1>1
<1>3. H[l].index \in [0..(n-1) -> 1..n] /\ \A e \in 1..n : \E a \in 0..(n-1) : H[l].index[a] = e
  BY <1>1 DEF Newest
<1>4. n \in Nat \ {0}  OBVIOUS
<1>5. Size(H[l].index) = n
  <2> DEFINE f == H[l].index
  <2>1. f \in [0..(n-1) -> 1..n]  BY <1>3
  <2> HIDE DEF f
  <2>2. Size(f) = n  BY <1>4, <2>1, SizeIs
  <2> QED BY <2>2 DEF f
<1>6. /\ G \in Seq(AHeader) /\ Len(G) = l /\ G[l] = g /\ g.tail = x /\ g.index = H[l].index
      /\ \A j \in 1..l : j # l => G[j] = H[j]
  BY <1>1, TailEdit
<1>7. g = [H[l] EXCEPT !.tail = x]  OBVIOUS
<1> HIDE DEF l, g, G
<1>9. \A j \in 1..l : Fits(G[j], n, new, off[j])
  <2> SUFFICES ASSUME NEW j \in 1..l  PROVE Fits(G[j], n, new, off[j])  OBVIOUS
  <2>1. off[j] \in Int /\ Fits(H[j], n, num, off[j])  BY <1>1
  <2>2. CASE j # l
    <3>1. G[j] = H[j]  BY <1>6, <2>2
    <3>2. Fits(H[j], n, new, off[j])  BY <2>1, FitsShifted
    <3> QED BY <3>1, <3>2
  <2>3. CASE j = l
    <3>1. Fits(g, n, num, off[j])  BY <1>2, <1>5, <1>7, <2>1, <2>3, FitsTail
    <3>2. Fits(g, n, new, off[j])  BY <2>1, <3>1, FitsShifted
    <3> QED BY <1>6, <2>3, <3>2
  <2> QED BY <2>2, <2>3
<1>10. Newest(G[l], n, k, off[l])  BY <1>3, <1>6 DEF Newest, l
<1>11. Headed(G, n, k, new, off)  BY <1>1, <1>6, <1>9, <1>10 DEF Headed
<1> QED BY <1>11 DEF G

\* A block that was begun and is not published yet: the newest header's tail
\* is at its entry e, which has no block, and no entry was given back.
Begun(E, H, m, num, e) ==
    /\ m >= 1 /\ e \in 1..Len(E) /\ e = H[Len(H)].index[H[Len(H)].tail]
    /\ E[e].value = Null /\ E[e].key = (m - 1) * BlockSize
    /\ \A f \in 1..Len(E) : (E[f].key = NoKey /\ E[f].value = Null) \/ E[f].key = num[f] * BlockSize
    /\ \A f \in 1..Len(E) : num[f] = m - 2 /\ m >= 2 => E[f].key # NoKey

\* An entry's key or its block changes.
LEMMA KeyEdit ==
    ASSUME NEW E \in Seq(Entry), NEW e \in 1..Len(E), NEW k \in Nat
    PROVE  LET F == KeySet(E, e, k) IN
           /\ F \in Seq(Entry) /\ Len(F) = Len(E) /\ F[e].key = k /\ F[e].value = E[e].value
           /\ \A f \in 1..Len(E) : f # e => F[f] = E[f]
<1> DEFINE x == [E[e] EXCEPT !.key = k]
           F == KeySet(E, e, k)
<1>1. E[e] \in Entry  OBVIOUS
<1>2. x \in Entry /\ x.key = k /\ x.value = E[e].value  BY <1>1 DEF Entry
<1>3. F = [E EXCEPT ![e] = x]  BY DEF KeySet, ValueSet
<1> HIDE DEF x, F
<1>4. /\ F \in Seq(Entry) /\ Len(F) = Len(E) /\ F[e] = x
      /\ \A f \in 1..Len(E) : f # e => F[f] = E[f]
  BY <1>2, <1>3
<1> QED BY <1>2, <1>4 DEF F

LEMMA ValueEdit ==
    ASSUME NEW E \in Seq(Entry), NEW e \in 1..Len(E), NEW v \in Blocks \cup {Null}
    PROVE  LET F == ValueSet(E, e, v) IN
           /\ F \in Seq(Entry) /\ Len(F) = Len(E) /\ F[e].value = v /\ F[e].key = E[e].key
           /\ \A f \in 1..Len(E) : f # e => F[f] = E[f]
<1> DEFINE x == [E[e] EXCEPT !.value = v]
           F == ValueSet(E, e, v)
<1>1. E[e] \in Entry  OBVIOUS
<1>2. x \in Entry /\ x.value = v /\ x.key = E[e].key  BY <1>1 DEF Entry
<1>3. F = [E EXCEPT ![e] = x]  BY DEF KeySet, ValueSet
<1> HIDE DEF x, F
<1>4. /\ F \in Seq(Entry) /\ Len(F) = Len(E) /\ F[e] = x
      /\ \A f \in 1..Len(E) : f # e => F[f] = E[f]
  BY <1>2, <1>3
<1> QED BY <1>2, <1>4 DEF F

\* A new block takes the entry after the newest tail: it gets the number m.
LEMMA IndexedBegins ==
    ASSUME NEW E, NEW H, NEW m, NEW num, NEW off, Indexed(E, H, m, num, off),
           NEW e, e = H[Len(H)].index[NextSlot(H[Len(H)])], E[e].value = Null,
           NEW k, k = m * BlockSize
    PROVE  LET new == [num EXCEPT ![e] = m]
               F == KeySet(E, e, k)
               G == TailSet(H, NextSlot(H[Len(H)]))
           IN  /\ Indexed(F, G, m + 1, new, off) /\ Begun(F, G, m + 1, new, e)
               /\ e \in 1..Len(E) /\ k \in Nat
<1> DEFINE n == Len(E)
           h == H[Len(H)]
           s == NextSlot(h)
           F == KeySet(E, e, k)
           G == TailSet(H, s)
           new == [num EXCEPT ![e] = m]
<1>1. /\ n \in Nat /\ m \in Nat /\ h.index \in [0..(n-1) -> 1..n] /\ s \in 0..(n-1)
      /\ num[h.index[s]] = m - n
      /\ \A a \in 0..(n-1) : Cong(num[h.index[a]], a + off[Len(H)], n)
  BY TailNum
<1>2. e \in 1..n /\ num[e] = m - n /\ e = h.index[s]  BY <1>1
<1>3. /\ E \in Seq(Entry) /\ n >= 2 /\ num \in [1..n -> Int]
      /\ \A f \in 1..n : num[f] \in (m-n)..(m-1)
      /\ \A f, g \in 1..n : num[f] = num[g] => f = g
      /\ \A f \in 1..n : KeyOK(E[f], num[f], m, n)
      /\ \A f \in 1..n : num[f] = m - 1 /\ m >= 1 => E[f].key # NoKey
  BY DEF Indexed, Numbered
<1>0. m \in Int /\ n \in Int /\ n >= 2 /\ m >= 0  BY <1>1, <1>3
<1>4. Headed(H, n, m, num, off) /\ off[Len(H)] \in Int
  <2>1. Headed(H, n, m, num, off)  BY DEF Indexed
  <2>2. off \in [1..Len(H) -> Int] /\ Len(H) \in 1..Len(H)  BY <2>1 DEF Headed
  <2> QED BY <2>1, <2>2
<1>5. k \in Nat /\ k # NoKey /\ m + 1 - 1 = m /\ m + 1 - 2 = m - 1
  BY <1>1, Multiples
<1>6. /\ F \in Seq(Entry) /\ Len(F) = n /\ F[e].key = k /\ F[e].value = E[e].value
      /\ \A f \in 1..n : f # e => F[f] = E[f]
  <2>1. e \in 1..Len(E) /\ E \in Seq(Entry) /\ k \in Nat  BY <1>2, <1>3, <1>5
  <2> QED BY <2>1, KeyEdit
<1>7. new \in [1..n -> Int] /\ new[e] = m /\ \A f \in 1..n : f # e => new[f] = num[f]
  BY <1>1, <1>2, <1>3
<1> DEFINE o == off[Len(H)]
<1>8. Cong(m + 1, s + 1 + o, n)
  <2>1. Cong(m - n, s + o, n)  BY <1>1
  <2>2. m - n \in Int /\ s + o \in Int /\ m \in Int /\ n \in Int /\ s \in Int /\ o \in Int
    BY <1>1, <1>4
  <2> HIDE DEF o, s, n
  <2>3. Cong(m, m - n, n)
    <3>1. Cong(m - n, m, n)  BY <2>2, CongOne
    <3> QED BY <2>2, <3>1, CongSym
  <2>4. Cong(m, s + o, n)  BY <2>1, <2>2, <2>3, CongTrans
  <2>5. Cong(m + 1, (s + o) + 1, n)  BY <2>2, <2>4, CongAdd
  <2>6. (s + o) + 1 = s + 1 + o  BY <2>2
  <2> QED BY <2>5, <2>6
<1> HIDE DEF n, h, s, new, F, G
<1>9. /\ Headed(G, n, m + 1, new, off) /\ Len(G) = Len(H)
      /\ G[Len(H)].tail = s /\ G[Len(H)].index = h.index
  <2>1. new[e] = num[e] + n
    <3>1. m \in Int /\ n \in Int /\ (m - n) + n = m  BY <1>1
    <3> QED BY <1>2, <1>7, <3>1
  <2>2. \A f \in 1..n : new[f] = num[f] \/ new[f] = num[f] + n \/ new[f] = num[f] - n
    BY <1>7, <2>1
  <2>3. num \in [1..n -> Int] /\ new \in [1..n -> Int] /\ n \in Nat /\ s \in 0..(n-1)
    BY <1>1, <1>3, <1>7
  <2>4. Cong(m + 1, s + 1 + off[Len(H)], n)  BY <1>8 DEF o
  <2>5. Headed(H, n, m, num, off)  BY <1>4
  <2> DEFINE k1 == m + 1
             y == s + 1 + off[Len(H)]
  <2>6. y = s + 1 + off[Len(H)] /\ Cong(k1, y, n)  BY <2>4
  <2> HIDE DEF k1, y
  <2>7. Headed(TailSet(H, s), n, k1, new, off)
    BY <2>2, <2>3, <2>5, <2>6, HeadedMoved
  <2>8. H \in Seq(AHeader) /\ Len(H) >= 1 /\ s \in Nat  BY <1>0, <2>3, <2>5 DEF Headed
  <2>9. Len(G) = Len(H) /\ G[Len(H)].tail = s /\ G[Len(H)].index = H[Len(H)].index
    BY <2>8, TailEdit DEF G
  <2> QED BY <2>7, <2>9 DEF h, G, k1
<1>10. ASSUME NEW f \in 1..n, f # e  PROVE new[f] = num[f] /\ num[f] \in (m+1-n)..(m-1) /\ num[f] # m - n
  <2>1. new[f] = num[f] /\ num[f] \in (m-n)..(m-1)  BY <1>3, <1>7, <1>10
  <2>2. num[f] # m - n  BY <1>2, <1>3, <1>10
  <2>3. num[f] \in (m+1-n)..(m-1)  BY <1>0, <2>1, <2>2
  <2> QED BY <2>1, <2>2, <2>3
<1>11. ASSUME NEW f \in 1..n
       PROVE  (F[f].key = NoKey /\ F[f].value = Null) \/ F[f].key = new[f] * BlockSize
  <2>1. CASE f = e  BY <1>6, <1>7, <2>1
  <2>2. CASE f # e
    <3>1. F[f] = E[f] /\ new[f] = num[f] /\ num[f] # m - n  BY <1>6, <1>10, <2>2
    <3>2. KeyOK(E[f], num[f], m, n)  BY <1>3
    <3> QED BY <3>1, <3>2 DEF KeyOK
  <2> QED BY <2>1, <2>2
<1>12. Numbered(F, m + 1, new)
  <2>1. \A f \in 1..n : new[f] \in (m+1-n)..m
    <3> SUFFICES ASSUME NEW f \in 1..n  PROVE new[f] \in (m+1-n)..m  OBVIOUS
    <3>1. CASE f = e
      <4>1. new[f] = m /\ m \in (m+1-n)..m  BY <1>0, <1>7, <3>1
      <4> QED BY <4>1
    <3>2. CASE f # e
      <4>1. new[f] \in (m+1-n)..(m-1)  BY <1>10, <3>2
      <4> QED BY <1>0, <4>1
    <3> QED BY <3>1, <3>2
  <2>2. \A f, g \in 1..n : new[f] = new[g] => f = g
    <3> SUFFICES ASSUME NEW f \in 1..n, NEW g \in 1..n, new[f] = new[g]  PROVE f = g  OBVIOUS
    <3>1. \A x \in 1..n : x # e => new[x] = num[x] /\ new[x] < m
      <4> SUFFICES ASSUME NEW x \in 1..n, x # e  PROVE new[x] = num[x] /\ new[x] < m  OBVIOUS
      <4>1. new[x] = num[x] /\ num[x] \in (m+1-n)..(m-1)  BY <1>10
      <4> QED BY <1>1, <4>1
    <3>2. CASE f = e \/ g = e
      <4>1. \A x \in 1..n : x # e => new[x] # m
        <5> SUFFICES ASSUME NEW x \in 1..n, x # e, new[x] = m  PROVE FALSE  OBVIOUS
        <5>1. new[x] < m  BY <3>1
        <5> QED BY <1>0, <5>1
      <4> QED BY <1>7, <3>2, <4>1
    <3>3. CASE f # e /\ g # e  BY <1>3, <3>1, <3>3
    <3> QED BY <3>2, <3>3
  <2>3. \A f \in 1..n : KeyOK(F[f], new[f], m + 1, n)  BY <1>11 DEF KeyOK
  <2>4. \A f \in 1..n : new[f] = m => F[f].key # NoKey
    <3> SUFFICES ASSUME NEW f \in 1..n, new[f] = m  PROVE F[f].key # NoKey  OBVIOUS
    <3>1. f = e  BY <1>1, <1>10
    <3> QED BY <1>5, <1>6, <3>1
  <2>5. m + 1 \in Nat /\ (m + 1) - 1 = m /\ (m + 1) - n = m + 1 - n  BY <1>0
  <2>6. F \in Seq(Entry) /\ Len(F) = n /\ n >= 2 /\ new \in [1..n -> Int]  BY <1>0, <1>6, <1>7
  <2> QED BY <2>1, <2>2, <2>3, <2>4, <2>5, <2>6 DEF Numbered
<1>13. Indexed(F, G, m + 1, new, off)  BY <1>6, <1>9, <1>12 DEF Indexed
<1>14. Begun(F, G, m + 1, new, e)
  <2>1. \A f \in 1..n : new[f] = m - 1 /\ m >= 1 => F[f].key # NoKey
    <3> SUFFICES ASSUME NEW f \in 1..n, new[f] = m - 1, m >= 1  PROVE F[f].key # NoKey  OBVIOUS
    <3>1. f # e
      <4>1. m - 1 # m  BY <1>0
      <4> QED BY <1>7, <4>1
    <3>2. num[f] = m - 1 /\ F[f] = E[f]  BY <1>6, <1>10, <3>1
    <3> QED BY <1>3, <3>2
  <2>2. (m + 1) - 1 = m /\ (m + 1) - 2 = m - 1 /\ m + 1 >= 1 /\ (m + 1 >= 2 => m >= 1)  BY <1>1
  <2> QED BY <1>2, <1>6, <1>9, <1>11, <2>1, <2>2 DEF Begun, n, h
<1> QED BY <1>2, <1>5, <1>13, <1>14 DEF new, n, F, G, s, h

\* What a block index tells about its entries.
LEMMA NumberedShape ==
    ASSUME NEW E, NEW m, NEW num, Numbered(E, m, num)
    PROVE  LET n == Len(E) IN
           /\ E \in Seq(Entry) /\ n \in Nat /\ n \in Int /\ n >= 2 /\ m \in Nat /\ m \in Int
           /\ num \in [1..n -> Int]
           /\ \A f \in 1..n : num[f] \in Int /\ m - n <= num[f] /\ num[f] <= m - 1
           /\ \A f, g \in 1..n : num[f] = num[g] => f = g
           /\ \A f \in 1..n : KeyOK(E[f], num[f], m, n)
           /\ \A f \in 1..n : num[f] = m - 1 /\ m >= 1 => E[f].key # NoKey
           /\ \A f \in 1..n : E[f] \in Entry
<1>1. E \in Seq(Entry) /\ Len(E) >= 2 /\ m \in Nat /\ Len(E) \in Nat  BY DEF Numbered
<1> DEFINE n == Len(E)
<1>2. /\ num \in [1..n -> Int]
      /\ \A e \in 1..n : num[e] \in (m-n)..(m-1)
      /\ \A f, g \in 1..n : num[f] = num[g] => f = g
      /\ \A f \in 1..n : KeyOK(E[f], num[f], m, n)
      /\ \A f \in 1..n : num[f] = m - 1 /\ m >= 1 => E[f].key # NoKey
  BY DEF Numbered
<1>3. \A f \in 1..n : E[f] \in Entry  BY <1>1
<1> HIDE DEF n
<1>4. \A f \in 1..n : num[f] \in Int /\ m - n <= num[f] /\ num[f] <= m - 1  BY <1>1, <1>2
<1> QED BY <1>1, <1>2, <1>3, <1>4 DEF n

\* An entry loses its block, or gets the block that it has the key of.
LEMMA IndexedValue ==
    ASSUME NEW E, NEW H, NEW m, NEW num, NEW off, Indexed(E, H, m, num, off),
           NEW e \in 1..Len(E), NEW v \in Blocks \cup {Null},
           v = Null \/ E[e].key = num[e] * BlockSize
    PROVE  Indexed(ValueSet(E, e, v), H, m, num, off)
<1> DEFINE F == ValueSet(E, e, v)
           n == Len(E)
<1>1. Numbered(E, m, num) /\ Headed(H, n, m, num, off)  BY DEF Indexed
<1>2. /\ E \in Seq(Entry) /\ n >= 2 /\ m \in Nat /\ num \in [1..n -> Int]
      /\ \A f \in 1..n : num[f] \in (m-n)..(m-1)
      /\ \A f, g \in 1..n : num[f] = num[g] => f = g
      /\ \A f \in 1..n : KeyOK(E[f], num[f], m, n)
      /\ \A f \in 1..n : num[f] = m - 1 /\ m >= 1 => E[f].key # NoKey
  BY <1>1 DEF Numbered
<1>3. /\ F \in Seq(Entry) /\ Len(F) = n /\ F[e].value = v /\ F[e].key = E[e].key
      /\ \A f \in 1..n : f # e => F[f] = E[f]
  BY <1>2, ValueEdit
<1> HIDE DEF F, n
<1>4. \A f \in 1..n : F[f].key = E[f].key  BY <1>3
<1>5. \A f \in 1..n : KeyOK(F[f], num[f], m, n)
  <2> SUFFICES ASSUME NEW f \in 1..n  PROVE KeyOK(F[f], num[f], m, n)  OBVIOUS
  <2>1. KeyOK(E[f], num[f], m, n)  BY <1>2
  <2>2. CASE f # e  BY <1>3, <2>1, <2>2
  <2>3. CASE f = e /\ v = Null  BY <1>3, <2>1, <2>3 DEF KeyOK
  <2>4. CASE f = e /\ E[e].key = num[e] * BlockSize  BY <1>3, <2>4 DEF KeyOK
  <2> QED BY <2>2, <2>3, <2>4
<1>6. Numbered(F, m, num)  BY <1>2, <1>3, <1>4, <1>5 DEF Numbered
<1> QED BY <1>1, <1>3, <1>6 DEF Indexed, F

LEMMA BegunValue ==
    ASSUME NEW E \in Seq(Entry), NEW H, NEW m, NEW num, NEW e, Begun(E, H, m, num, e),
           NEW f \in 1..Len(E)
    PROVE  Begun(ValueSet(E, f, Null), H, m, num, e)
<1> DEFINE F == ValueSet(E, f, Null)
<1>0. Null \in Blocks \cup {Null}  OBVIOUS
<1>1. /\ Len(F) = Len(E) /\ F[f].value = Null /\ F[f].key = E[f].key
      /\ \A g \in 1..Len(E) : g # f => F[g] = E[g]
  BY <1>0, ValueEdit
<1> HIDE DEF F
<1>2. /\ \A g \in 1..Len(E) : F[g].key = E[g].key
      /\ \A g \in 1..Len(E) : F[g].value = E[g].value \/ F[g].value = Null
  BY <1>1
<1>3. Begun(F, H, m, num, e)  BY <1>1, <1>2 DEF Begun
<1> QED BY <1>3 DEF F

\* The number of the entry of a block that was begun.
LEMMA BegunNum ==
    ASSUME NEW E, NEW H, NEW m, NEW num, NEW off, Indexed(E, H, m, num, off),
           NEW e, Begun(E, H, m, num, e)
    PROVE  e \in 1..Len(E) /\ num[e] = m - 1
<1>1. e \in 1..Len(E) /\ e = H[Len(H)].index[H[Len(H)].tail]  BY DEF Begun
<1> QED BY <1>1, TailNum

LEMMA BackArith ==
    ASSUME NEW t \in Int, NEW n \in Int, NEW o \in Int, NEW x \in Int
    PROVE  /\ (t + n - 1) + (1 + o) = (t + o) + n /\ x + (1 + o) = x + 1 + o
           /\ x \in Int /\ t + o \in Int /\ 1 + o \in Int
OBVIOUS

\* An entry that was begun and got no block is given back by moving the tail back.
LEMMA IndexedGivesBack ==
    ASSUME NEW E, NEW H, NEW m, NEW num, NEW off, Indexed(E, H, m, num, off),
           NEW e, Begun(E, H, m, num, e),
           NEW x, x = (H[Len(H)].tail + Len(E) - 1) % Len(E)
    PROVE  LET new == [num EXCEPT ![e] = m - 1 - Len(E)] IN
           Indexed(ValueSet(E, e, Null), TailSet(H, x), m - 1, new, off)
<1> DEFINE n == Len(E)
           k == m - 1
           new == [num EXCEPT ![e] = k - n]
           F == ValueSet(E, e, Null)
           G == TailSet(H, x)
           tl == H[Len(H)].tail
           o == off[Len(H)]
<1>1. Numbered(E, m, num) /\ Headed(H, n, m, num, off)  BY DEF Indexed
<1>2. /\ E \in Seq(Entry) /\ n \in Nat /\ n \in Int /\ n >= 2 /\ m \in Nat /\ m \in Int
      /\ num \in [1..n -> Int]
      /\ \A f \in 1..n : num[f] \in Int /\ m - n <= num[f] /\ num[f] <= m - 1
      /\ \A f, g \in 1..n : num[f] = num[g] => f = g
  BY <1>1, NumberedShape
<1>3. /\ m >= 1 /\ e \in 1..n /\ E[e].value = Null /\ E[e].key = k * BlockSize
      /\ \A f \in 1..n : (E[f].key = NoKey /\ E[f].value = Null) \/ E[f].key = num[f] * BlockSize
      /\ \A f \in 1..n : num[f] = m - 2 /\ m >= 2 => E[f].key # NoKey
  BY DEF Begun
<1>4. num[e] = k  BY BegunNum
<1>5. tl \in 0..(n-1) /\ num[H[Len(H)].index[tl]] = k
      /\ Cong(num[H[Len(H)].index[tl]], tl + o, n)
  <2>1. /\ tl \in 0..(n-1) /\ num[H[Len(H)].index[tl]] = k
        /\ \A a \in 0..(n-1) : Cong(num[H[Len(H)].index[a]], a + o, n)
    BY TailNum
  <2> HIDE DEF tl, n, o
  <2> QED BY <2>1
<1>6. o \in Int /\ H \in Seq(AHeader) /\ Len(H) >= 1
  <2>1. off \in [1..Len(H) -> Int] /\ Len(H) \in 1..Len(H)  BY <1>1 DEF Headed
  <2> QED BY <1>1, <2>1 DEF Headed
<1>0. Null \in Blocks \cup {Null}  OBVIOUS
<1>7. /\ F \in Seq(Entry) /\ Len(F) = n /\ F[e].value = Null /\ F[e].key = E[e].key
      /\ \A f \in 1..n : f # e => F[f] = E[f]
  <2>1. E \in Seq(Entry) /\ e \in 1..Len(E)  BY <1>2, <1>3
  <2> HIDE DEF k, new, G, tl, o
  <2> QED BY <1>0, <2>1, ValueEdit
<1>8. k \in Nat /\ k \in Int /\ m - 1 = k /\ m - 2 = k - 1 /\ k + 1 = m  BY <1>2, <1>3
<1>9. new \in [1..n -> Int] /\ new[e] = k - n /\ \A f \in 1..n : f # e => new[f] = num[f]
  BY <1>2, <1>3, <1>8
<1> DEFINE y == x + 1 + o
<1>10. x \in 0..(n-1) /\ Cong(k, y, n)
  <2> DEFINE z == tl + n - 1
  <2>1. z \in Int /\ n \in Nat \ {0} /\ x = z % n  BY <1>2, <1>5
  <2>2. x \in 0..(n-1) /\ Cong(x, z, n)  BY <2>1, CongMod
  <2> HIDE DEF tl, o, n
  <2>0. tl \in Int /\ n \in Int /\ o \in Int /\ x \in Int  BY <1>2, <1>5, <1>6, <2>2
  <2>3. z + (1 + o) = (tl + o) + n /\ x + (1 + o) = y /\ x \in Int /\ tl + o \in Int /\ 1 + o \in Int
    BY <2>0, BackArith
  <2>4. Cong(k, tl + o, n)  BY <1>5
  <2> HIDE DEF y, z, k
  <2>5. Cong(x + (1 + o), z + (1 + o), n)  BY <1>2, <2>1, <2>2, <2>3, CongAdd
  <2>6. Cong(y, (tl + o) + n, n)  BY <2>3, <2>5
  <2>7. Cong((tl + o) + n, tl + o, n)  BY <1>2, <2>3, CongOne
  <2>8. y \in Int /\ (tl + o) + n \in Int
    <3>1. \A a, b \in Int : a + b \in Int  OBVIOUS
    <3> QED BY <2>0, <2>3, <3>1
  <2>9. Cong(y, tl + o, n)  BY <1>2, <2>3, <2>6, <2>7, <2>8, CongTrans
  <2>10. Cong(tl + o, y, n)  BY <1>2, <2>3, <2>8, <2>9, CongSym
  <2>11. Cong(k, y, n)  BY <1>2, <1>8, <2>3, <2>4, <2>8, <2>10, CongTrans
  <2> QED BY <2>2, <2>11 DEF n
<1> HIDE DEF n, k, new, F, G, tl
<1>11. Headed(G, n, k, new, off)
  <2>1. new[e] = num[e] - n  BY <1>4, <1>9
  <2>2. \A f \in 1..n : new[f] = num[f] \/ new[f] = num[f] + n \/ new[f] = num[f] - n
    BY <1>9, <2>1
  <2>3. y = x + 1 + off[Len(H)]  BY DEF o
  <2> HIDE DEF y, o
  <2> QED BY <1>1, <1>2, <1>9, <1>10, <2>2, <2>3, HeadedMoved DEF G
<1>12. ASSUME NEW f \in 1..n, f # e
       PROVE  new[f] = num[f] /\ num[f] \in Int /\ k - n < num[f] /\ num[f] < k
  <2>1. num[f] # k  BY <1>2, <1>3, <1>4, <1>12
  <2>2. num[f] \in Int /\ m - n <= num[f] /\ num[f] <= m - 1  BY <1>2
  <2>3. k - n < num[f] /\ num[f] < k  BY <1>2, <1>8, <2>1, <2>2
  <2> QED BY <1>9, <1>12, <2>2, <2>3
<1>13. \A f \in 1..n : KeyOK(F[f], new[f], k, n)
  <2> SUFFICES ASSUME NEW f \in 1..n  PROVE KeyOK(F[f], new[f], k, n)  OBVIOUS
  <2>1. CASE f = e  BY <1>3, <1>7, <1>9, <2>1 DEF KeyOK
  <2>2. CASE f # e
    <3>1. F[f] = E[f] /\ new[f] = num[f]  BY <1>7, <1>12, <2>2
    <3> QED BY <1>3, <3>1 DEF KeyOK
  <2> QED BY <2>1, <2>2
<1>14. \A f \in 1..n : new[f] \in (k-n)..(k-1)
  <2> SUFFICES ASSUME NEW f \in 1..n  PROVE new[f] \in (k-n)..(k-1)  OBVIOUS
  <2>1. CASE f = e
    <3>1. k - n \in (k-n)..(k-1)  BY <1>2, <1>8
    <3> QED BY <1>9, <2>1, <3>1
  <2>2. CASE f # e
    <3>1. new[f] \in Int /\ k - n < new[f] /\ new[f] < k  BY <1>12, <2>2
    <3> QED BY <1>2, <1>8, <3>1
  <2> QED BY <2>1, <2>2
<1>15. \A f, g \in 1..n : new[f] = new[g] => f = g
  <2> SUFFICES ASSUME NEW f \in 1..n, NEW g \in 1..n, new[f] = new[g]  PROVE f = g  OBVIOUS
  <2>1. \A a \in 1..n : a # e => new[a] # k - n
    <3> SUFFICES ASSUME NEW a \in 1..n, a # e, new[a] = k - n  PROVE FALSE  OBVIOUS
    <3>1. k - n < new[a] /\ new[a] \in Int  BY <1>12
    <3> QED BY <1>2, <1>8, <3>1
  <2>2. CASE f = e \/ g = e  BY <1>9, <2>1, <2>2
  <2>3. CASE f # e /\ g # e  BY <1>2, <1>12, <2>3
  <2> QED BY <2>2, <2>3
<1>16. \A f \in 1..n : new[f] = k - 1 /\ k >= 1 => F[f].key # NoKey
  <2> SUFFICES ASSUME NEW f \in 1..n, new[f] = k - 1, k >= 1  PROVE F[f].key # NoKey  OBVIOUS
  <2>1. k - n # k - 1 /\ m >= 2  BY <1>2, <1>8
  <2>2. f # e  BY <1>9, <2>1
  <2>3. F[f] = E[f] /\ num[f] = m - 2  BY <1>7, <1>8, <1>12, <2>2
  <2> QED BY <1>3, <2>1, <2>3
<1>17. Numbered(F, k, new)  BY <1>2, <1>7, <1>8, <1>9, <1>13, <1>14, <1>15, <1>16 DEF Numbered
<1>18. Indexed(F, G, k, new, off)  BY <1>7, <1>11, <1>17 DEF Indexed
<1>19. new = [num EXCEPT ![e] = m - 1 - Len(E)] /\ k = m - 1  BY DEF new, k, n
<1> QED BY <1>18, <1>19 DEF F, G

\* A new header, with as many entries more as there were.
Unused(n) == [e \in 1..n |-> [key |-> NoKey, value |-> Null]]
Bigger(h, n) == [tail |-> n - 1,
                 index |-> [i \in 0..(2*n-1) |->
                              IF i < n THEN h.index[(h.tail + 1 + i) % n] ELSE n + 1 + i - n]]

LEMMA UnusedEntries ==
    ASSUME NEW E \in Seq(Entry), NEW n \in Nat, n = Len(E)
    PROVE  LET F == E \o Unused(n) IN
           /\ F \in Seq(Entry) /\ Len(F) = 2 * n
           /\ \A f \in 1..n : F[f] = E[f]
           /\ \A f \in (n+1)..(2*n) : F[f].key = NoKey /\ F[f].value = Null
<1> DEFINE x == [key |-> NoKey, value |-> Null]
           U == Unused(n)
           F == E \o U
<1>1. x \in Entry /\ x.key = NoKey /\ x.value = Null  BY DEF Entry, NoKey
<1> HIDE DEF x
<1>2. U \in Seq(Entry) /\ Len(U) = n /\ \A i \in 1..n : U[i] = x
  <2>1. U = [e \in 1..n |-> x]  BY DEF Unused, x
  <2> HIDE DEF U
  <2>2. U \in [1..n -> Entry]  BY <1>1, <2>1
  <2> QED BY <2>1, <2>2
<1> HIDE DEF U
<1>3. F \in Seq(Entry) /\ Len(F) = n + n  BY <1>2
<1>4. \A f \in 1..n : F[f] = E[f]  BY <1>2
<1>5. \A f \in (n+1)..(n+n) : F[f] = U[f - n] /\ f - n \in 1..n  BY <1>2
<1>6. n + n = 2 * n  OBVIOUS
<1> HIDE DEF F
<1>7. \A f \in (n+1)..(2*n) : F[f] = x  BY <1>2, <1>5, <1>6
<1> QED BY <1>1, <1>3, <1>4, <1>6, <1>7 DEF F, U

\* The slots of the bigger index: the old entries in the order of their numbers.
InOrder(g, n, m, num) ==
    /\ g \in AHeader /\ g.tail = n - 1 /\ g.index \in [0..(2*n-1) -> 1..(2*n)]
    /\ \A a \in 0..(n-1) : g.index[a] \in 1..n /\ num[g.index[a]] = m - n + a
    /\ \A a \in n..(2*n-1) : g.index[a] = a + 1
LEMMA BiggerSlots ==
    ASSUME NEW E, NEW H, NEW m, NEW num, NEW off, Indexed(E, H, m, num, off),
           NEW n, n = Len(E)
    PROVE  InOrder(Bigger(H[Len(H)], n), n, m, num)
<1> DEFINE h == H[Len(H)]
           o == off[Len(H)]
           tl == h.tail
           f == h.index
           g == Bigger(h, n)
           new == [i \in 0..(2*n-1) |-> IF i < n THEN f[(tl + 1 + i) % n] ELSE n + 1 + i - n]
<1>1. /\ n \in Nat /\ n \in Int /\ n >= 2 /\ m \in Nat /\ m \in Int
      /\ num \in [1..n -> Int]
      /\ \A e \in 1..n : num[e] \in Int /\ m - n <= num[e] /\ num[e] <= m - 1
  BY NumberedShape DEF Indexed
<1>2. /\ f \in [0..(n-1) -> 1..n] /\ tl \in 0..(n-1)
      /\ \A a \in 0..(n-1) : Cong(num[f[a]], a + o, n)
  BY TailNum
<1>3. o \in Int /\ Cong(m, tl + 1 + o, n)
  <2>1. Headed(H, n, m, num, off)  BY DEF Indexed
  <2>2. off \in [1..Len(H) -> Int] /\ Len(H) \in 1..Len(H)  BY <2>1 DEF Headed
  <2> QED BY <2>1, <2>2 DEF Headed, Newest
<1>4. g = [tail |-> n - 1, index |-> new]  BY DEF Bigger
<1> HIDE DEF h, o, tl, f, g, new
<1>5. n \in Nat \ {0}  BY <1>1
<1>6. ASSUME NEW a \in 0..(n-1)
      PROVE  (tl + 1 + a) % n \in 0..(n-1) /\ num[f[(tl + 1 + a) % n]] = m - n + a
  <2> DEFINE y == tl + 1 + a
             s == y % n
             x == num[f[s]]
             k == m - n + a
  <2>1. y \in Int /\ a \in Int  BY <1>1, <1>2
  <2>2. s \in 0..(n-1) /\ Cong(s, y, n)  BY <1>5, <2>1, CongMod
  <2>3. Cong(x, s + o, n) /\ f[s] \in 1..n  BY <1>2, <2>2
  <2>4. x \in Int /\ m - n <= x /\ x <= m - 1  BY <1>1, <2>3
  <2> HIDE DEF x, s
  <2>5. s \in Int /\ s + o \in Int /\ y + o \in Int /\ m + a \in Int /\ k \in Int
        /\ tl + 1 + o \in Int
    BY <1>1, <1>2, <1>3, <2>1, <2>2
  <2>6. y + o = (tl + 1 + o) + a /\ (m + a) - n = k  BY <1>1, <1>2, <1>3, <2>1
  <2> HIDE DEF y, k
  <2>7. Cong(s + o, y + o, n)  BY <1>1, <1>3, <2>1, <2>2, <2>5, CongAdd
  <2>8. Cong(m + a, (tl + 1 + o) + a, n)  BY <1>1, <1>3, <2>1, <2>5, CongAdd
  <2>9. Cong(y + o, m + a, n)
    <3>1. Cong(m + a, y + o, n)  BY <2>6, <2>8
    <3> QED BY <1>1, <2>5, <3>1, CongSym
  <2>10. Cong(m + a, k, n)
    <3>1. Cong((m + a) - n, m + a, n)  BY <1>1, <2>5, CongOne
    <3>2. Cong(k, m + a, n)  BY <2>6, <3>1
    <3> QED BY <1>1, <2>5, <3>2, CongSym
  <2>11. Cong(x, y + o, n)  BY <1>1, <2>3, <2>4, <2>5, <2>7, CongTrans
  <2>12. Cong(x, m + a, n)  BY <1>1, <2>4, <2>5, <2>9, <2>11, CongTrans
  <2>13. Cong(x, k, n)  BY <1>1, <2>4, <2>5, <2>10, <2>12, CongTrans
  <2>14. x - k < n /\ k - x < n
    <3>1. k = m - n + a  BY DEF k
    <3>2. m \in Int /\ n \in Int /\ a \in Int /\ 0 <= a /\ a <= n - 1  BY <1>1
    <3> QED BY <2>4, <3>1, <3>2
  <2>15. x = k  BY <1>1, <2>4, <2>5, <2>13, <2>14, CongEqual
  <2> QED BY <2>2, <2>15 DEF x, s, y, k
<1>7. \A a \in 0..(n-1) : a \in 0..(2*n-1) /\ new[a] = f[(tl + 1 + a) % n]
  BY <1>1 DEF new
<1>8. \A a \in n..(2*n-1) : a \in 0..(2*n-1) /\ new[a] = a + 1  BY <1>1 DEF new
<1>9. \A a \in 0..(n-1) : new[a] \in 1..n /\ num[new[a]] = m - n + a
  BY <1>2, <1>6, <1>7
<1>10. new \in [0..(2*n-1) -> 1..(2*n)]
  <2>1. new = [i \in 0..(2*n-1) |-> new[i]]  BY DEF new
  <2>2. \A i \in 0..(2*n-1) : new[i] \in 1..(2*n)
    <3> SUFFICES ASSUME NEW i \in 0..(2*n-1)  PROVE new[i] \in 1..(2*n)  OBVIOUS
    <3>1. CASE i < n
      <4>1. new[i] \in 1..n  BY <1>1, <1>9, <3>1
      <4> QED BY <1>1, <4>1
    <3>2. CASE i >= n
      <4>1. new[i] = i + 1  BY <1>1, <1>8, <3>2
      <4> QED BY <1>1, <4>1
    <3> QED BY <1>1, <3>1, <3>2
  <2> HIDE DEF new
  <2> QED BY <2>1, <2>2
<1>11. g.tail = n - 1 /\ g.index = new  BY <1>4
<1>12. g \in AHeader
  <2>1. 2 * n \in Nat \ {0} /\ n - 1 \in Nat /\ 1..(2*n) \subseteq Nat  BY <1>1
  <2>2. new \in [0..(2*n-1) -> Nat]  BY <1>10, <2>1
  <2>3. new \in AnIndex  BY <2>1, <2>2 DEF AnIndex
  <2> QED BY <1>4, <2>1, <2>3 DEF AHeader
<1>13. InOrder(g, n, m, num)  BY <1>8, <1>9, <1>10, <1>11, <1>12 DEF InOrder
<1> QED BY <1>13 DEF g, h

\* A full index is doubled: the new header lists the old entries from the oldest,
\* then as many unused ones.
LEMMA IndexedDoubles ==
    ASSUME NEW E, NEW H, NEW m, NEW num, NEW off, Indexed(E, H, m, num, off),
           NEW n, n = Len(E), E[H[Len(H)].index[NextSlot(H[Len(H)])]].value # Null
    PROVE  \E new, ofs : Indexed(E \o Unused(n), Append(H, Bigger(H[Len(H)], n)), m, new, ofs)
<1> DEFINE F == E \o Unused(n)
           l == Len(H)
           k == l + 1
           g == Bigger(H[l], n)
           G == Append(H, g)
           N == 2 * n
           e0 == H[l].index[NextSlot(H[l])]
           new == [e \in 1..N |-> IF e <= n THEN num[e] ELSE m - 3 * n + e - 1]
           ofs == [j \in 1..k |-> IF j <= l THEN off[j] ELSE m - n]
<1>1. /\ E \in Seq(Entry) /\ n \in Nat /\ n \in Int /\ n >= 2 /\ m \in Nat /\ m \in Int
      /\ num \in [1..n -> Int]
      /\ \A e \in 1..n : num[e] \in Int /\ m - n <= num[e] /\ num[e] <= m - 1
      /\ \A f, e \in 1..n : num[f] = num[e] => f = e
      /\ \A f \in 1..n : KeyOK(E[f], num[f], m, n)
      /\ \A f \in 1..n : num[f] = m - 1 /\ m >= 1 => E[f].key # NoKey
  BY NumberedShape DEF Indexed
<1>2. /\ H \in Seq(AHeader) /\ l >= 1 /\ l \in Nat /\ off \in [1..l -> Int]
      /\ \A j \in 1..l : Fits(H[j], n, num, off[j])
  BY DEF Indexed, Headed
<1>3. e0 \in 1..n /\ num[e0] = m - n /\ E[e0].value # Null
  <2>1. /\ H[l].index \in [0..(n-1) -> 1..n] /\ NextSlot(H[l]) \in 0..(n-1)
        /\ num[H[l].index[NextSlot(H[l])]] = m - n
    BY TailNum
  <2> QED BY <2>1
<1>4. /\ g \in AHeader /\ g.tail = n - 1 /\ g.index \in [0..(N-1) -> 1..N]
      /\ \A a \in 0..(n-1) : g.index[a] \in 1..n /\ num[g.index[a]] = m - n + a
      /\ \A a \in n..(N-1) : g.index[a] = a + 1
  <2> HIDE DEF F, G, N, e0, new, ofs, k
  <2>1. InOrder(g, n, m, num)  BY BiggerSlots
  <2> HIDE DEF g
  <2> QED BY <2>1 DEF InOrder, N
<1>5. /\ F \in Seq(Entry) /\ Len(F) = N
      /\ \A f \in 1..n : F[f] = E[f]
      /\ \A f \in (n+1)..N : F[f].key = NoKey /\ F[f].value = Null
  BY <1>1, UnusedEntries
<1>6. N \in Nat /\ N \in Int /\ N >= 2 /\ N = n + n  BY <1>1
<1>7. /\ new \in [1..N -> Int]
      /\ \A e \in 1..n : new[e] = num[e]
      /\ \A e \in (n+1)..N : new[e] = m - 3 * n + e - 1
  <2> DEFINE c == m - 3 * n
             f == [e \in 1..N |-> IF e <= n THEN num[e] ELSE c + e - 1]
  <2>1. c \in Int /\ N \in Int  BY <1>1
  <2>2. new = f  OBVIOUS
  <2> HIDE DEF c, N, F, G, g, k, l, e0, ofs
  <2>3. /\ \A e \in 1..N : e <= n => e \in 1..n
        /\ \A e \in 1..n : num[e] \in Int /\ e <= n
        /\ \A e \in 1..N : c + e - 1 \in Int
    BY <1>1, <2>1
  <2>4. \A e \in 1..N : (IF e <= n THEN num[e] ELSE c + e - 1) \in Int  BY <2>3
  <2>5. f \in [1..N -> Int]  BY <2>4
  <2>6. \A e \in 1..n : e \in 1..N  BY <1>1, <1>6
  <2>7. \A e \in (n+1)..N : e \in 1..N /\ ~(e <= n)  BY <1>1, <2>1
  <2>8. \A e \in 1..n : f[e] = num[e]  BY <2>3, <2>6
  <2>9. \A e \in (n+1)..N : f[e] = c + e - 1  BY <2>7
  <2> QED BY <2>2, <2>5, <2>8, <2>9 DEF c
<1>8. /\ ofs \in [1..k -> Int] /\ ofs[k] = m - n
      /\ \A j \in 1..l : ofs[j] = off[j]
  BY <1>1, <1>2
<1>20. k \in Nat /\ k >= 1 /\ \A j \in 1..k : j = k \/ j \in 1..l  BY <1>2
<1> HIDE DEF F, g, N, e0, new, ofs
<1>9. /\ G \in Seq(AHeader) /\ Len(G) = k /\ G[k] = g
      /\ \A j \in 1..l : G[j] = H[j]
  BY <1>2, <1>4
<1> HIDE DEF G, l, k
<1>10. \A e \in (n+1)..N : m - N <= new[e] /\ new[e] <= m - n - 1 /\ new[e] \in Int
  <2> SUFFICES ASSUME NEW e \in (n+1)..N
               PROVE  m - N <= new[e] /\ new[e] <= m - n - 1 /\ new[e] \in Int
    OBVIOUS
  <2>1. new[e] = m - 3 * n + e - 1  BY <1>7
  <2> QED BY <1>1, <1>6, <2>1
<1>11. \A e \in 1..n : m - n <= new[e] /\ new[e] <= m - 1 /\ new[e] \in Int
  BY <1>1, <1>7
<1>12. \A e \in 1..N : e \in 1..n \/ e \in (n+1)..N  BY <1>1, <1>6
<1>13. Numbered(F, m, new)
  <2>1. \A e \in 1..N : new[e] \in (m-N)..(m-1)
    <3> SUFFICES ASSUME NEW e \in 1..N  PROVE new[e] \in (m-N)..(m-1)  OBVIOUS
    <3>1. m - N <= new[e] /\ new[e] <= m - 1 /\ new[e] \in Int
      <4>1. CASE e \in 1..n
        <5>1. m - n <= new[e] /\ new[e] <= m - 1 /\ new[e] \in Int  BY <1>11, <4>1
        <5> QED BY <1>1, <1>6, <5>1
      <4>2. CASE e \in (n+1)..N
        <5>1. m - N <= new[e] /\ new[e] <= m - n - 1 /\ new[e] \in Int  BY <1>10, <4>2
        <5> QED BY <1>1, <1>6, <5>1
      <4> QED BY <1>12, <4>1, <4>2
    <3> QED BY <1>1, <1>6, <3>1
  <2>2. \A e, f \in 1..N : new[e] = new[f] => e = f
    <3> SUFFICES ASSUME NEW e \in 1..N, NEW f \in 1..N, new[e] = new[f]  PROVE e = f  OBVIOUS
    <3>1. CASE e \in 1..n /\ f \in 1..n  BY <1>1, <1>7, <3>1
    <3>2. CASE e \in (n+1)..N /\ f \in (n+1)..N
      <4> DEFINE c == m - 3 * n
      <4>1. new[e] = c + e - 1 /\ new[f] = c + f - 1  BY <1>7, <3>2
      <4>2. e \in Int /\ f \in Int /\ c \in Int  BY <1>1, <1>6, <3>2
      <4> HIDE DEF c
      <4>3. c + e - 1 = c + f - 1  BY <4>1
      <4> QED BY <4>2, <4>3
    <3>3. CASE e \in 1..n /\ f \in (n+1)..N
      <4>1. m - n <= new[e] /\ new[f] <= m - n - 1 /\ new[e] \in Int  BY <1>10, <1>11, <3>3
      <4> QED BY <1>1, <4>1
    <3>4. CASE e \in (n+1)..N /\ f \in 1..n
      <4>1. m - n <= new[f] /\ new[e] <= m - n - 1 /\ new[e] \in Int  BY <1>10, <1>11, <3>4
      <4> QED BY <1>1, <4>1
    <3> QED BY <1>12, <3>1, <3>2, <3>3, <3>4
  <2>3. \A e \in 1..N : KeyOK(F[e], new[e], m, N)
    <3> SUFFICES ASSUME NEW e \in 1..N  PROVE KeyOK(F[e], new[e], m, N)  OBVIOUS
    <3>1. CASE e \in (n+1)..N  BY <1>5, <3>1 DEF KeyOK
    <3>2. CASE e \in 1..n
      <4>1. KeyOK(E[e], num[e], m, n) /\ F[e] = E[e] /\ new[e] = num[e]  BY <1>1, <1>5, <1>7, <3>2
      <4>2. num[e] = m - n => E[e].value # Null  BY <1>1, <1>3, <3>2
      <4> QED BY <4>1, <4>2 DEF KeyOK
    <3> QED BY <1>12, <3>1, <3>2
  <2>4. \A e \in 1..N : new[e] = m - 1 /\ m >= 1 => F[e].key # NoKey
    <3> SUFFICES ASSUME NEW e \in 1..N, new[e] = m - 1, m >= 1  PROVE F[e].key # NoKey  OBVIOUS
    <3>1. CASE e \in (n+1)..N
      <4>1. new[e] <= m - n - 1  BY <1>10, <3>1
      <4> QED BY <1>1, <4>1
    <3>2. CASE e \in 1..n  BY <1>1, <1>5, <1>7, <3>2
    <3> QED BY <1>12, <3>1, <3>2
  <2> QED BY <1>1, <1>5, <1>6, <1>7, <2>1, <2>2, <2>3, <2>4 DEF Numbered
<1>14. ASSUME NEW a \in 0..(N-1)
       PROVE  Cong(new[g.index[a]], a + (m - n), N)
  <2>1. CASE a < n
    <3>1. a \in 0..(n-1)  BY <1>1, <2>1
    <3>2. new[g.index[a]] = m - n + a  BY <1>4, <1>7, <3>1
    <3>3. m - n + a = a + (m - n) /\ a + (m - n) \in Int  BY <1>1
    <3>4. Cong(a + (m - n), a + (m - n), N)  BY <1>6, <3>3, CongOne
    <3> QED BY <3>2, <3>3, <3>4
  <2>2. CASE a >= n
    <3>1. a \in n..(N-1) /\ a + 1 \in (n+1)..N
      <4>1. n \in Int /\ N \in Int /\ a \in Int /\ a <= N - 1  BY <1>1, <1>6
      <4> QED BY <2>2, <4>1
    <3>2. new[g.index[a]] = m - 3 * n + (a + 1) - 1  BY <1>4, <1>7, <3>1
    <3>3. m - 3 * n + (a + 1) - 1 = (a + (m - n)) - N /\ a + (m - n) \in Int  BY <1>1, <1>6
    <3>4. Cong((a + (m - n)) - N, a + (m - n), N)  BY <1>6, <3>3, CongOne
    <3> QED BY <3>2, <3>3, <3>4
  <2> QED BY <1>1, <2>1, <2>2
<1>15. Fits(g, N, new, m - n)
  <2>1. 1 \in Nat \ {0} /\ N \in Nat \ {0} /\ N = 1 * N /\ n - 1 \in 0..(N-1)  BY <1>1, <1>6
  <2> QED BY <1>4, <1>14, <2>1 DEF Fits
<1>16. Newest(g, N, m, m - n)
  <2>1. n - 1 \in 0..(N-1)  BY <1>1, <1>6
  <2>2. \A e \in 1..N : \E a \in 0..(N-1) : g.index[a] = e
    <3> SUFFICES ASSUME NEW e \in 1..N  PROVE \E a \in 0..(N-1) : g.index[a] = e  OBVIOUS
    <3>1. CASE e \in (n+1)..N
      <4>1. e - 1 \in n..(N-1) /\ e - 1 \in 0..(N-1) /\ (e - 1) + 1 = e  BY <1>1, <1>6, <3>1
      <4> QED BY <1>4, <4>1
    <3>2. CASE e \in 1..n
      <4> DEFINE a == num[e] - (m - n)
      <4>0. num[e] \in Int /\ m - n <= num[e] /\ num[e] <= m - 1  BY <1>1, <3>2
      <4>4. m \in Int /\ n \in Int /\ N = n + n /\ n >= 2  BY <1>1, <1>6
      <4>1. a \in 0..(n-1) /\ a \in 0..(N-1) /\ m - n + a = num[e]
        <5> DEFINE w == num[e]
        <5>1. w \in Int /\ m - n <= w /\ w <= m - 1 /\ a = w - (m - n)  BY <4>0
        <5> HIDE DEF w, a
        <5>2. a \in Int /\ 0 <= a /\ a <= n - 1 /\ a <= N - 1 /\ m - n + a = w  BY <4>4, <5>1
        <5>3. a \in 0..(n-1) /\ a \in 0..(N-1)  BY <4>4, <5>2
        <5> QED BY <5>2, <5>3 DEF w
      <4>2. g.index[a] \in 1..n /\ num[g.index[a]] = num[e]  BY <1>4, <4>1
      <4>3. g.index[a] = e  BY <1>1, <3>2, <4>2
      <4> QED BY <4>1, <4>3
    <3> QED BY <1>12, <3>1, <3>2
  <2>3. Cong(m, (n - 1) + 1 + (m - n), N)
    <3>1. (n - 1) + 1 + (m - n) = m  BY <1>1
    <3> QED BY <1>1, <1>6, <3>1, CongOne
  <2> QED BY <1>4, <2>1, <2>2, <2>3 DEF Newest
<1>17. \A j \in 1..k : Fits(G[j], N, new, ofs[j])
  <2> SUFFICES ASSUME NEW j \in 1..k  PROVE Fits(G[j], N, new, ofs[j])  OBVIOUS
  <2>1. CASE j = k
    <3>1. G[j] = g /\ ofs[j] = m - n  BY <1>8, <1>9, <2>1
    <3> QED BY <1>15, <3>1
  <2>2. CASE j \in 1..l
    <3>1. off[j] \in Int /\ Fits(H[j], n, num, off[j])  BY <1>2, <2>2
    <3>2. Fits(H[j], 2 * n, new, off[j])  BY <1>1, <1>7, <3>1, FitsMore
    <3>3. Fits(H[j], N, new, off[j])  BY <3>2 DEF N
    <3> QED BY <1>8, <1>9, <2>2, <3>3
  <2> QED BY <1>20, <2>1, <2>2
<1>18. Headed(G, N, m, new, ofs)
  <2>1. Newest(G[Len(G)], N, m, ofs[Len(G)])  BY <1>8, <1>9, <1>16
  <2> QED BY <1>8, <1>9, <1>17, <1>20, <2>1 DEF Headed
<1>19. Indexed(F, G, m, new, ofs)  BY <1>5, <1>13, <1>18 DEF Indexed
<1> QED BY <1>19 DEF F, G, g, l

\* An entry that has a block has that block's key.
LEMMA LiveNum ==
    ASSUME NEW E, NEW m, NEW num, Numbered(E, m, num),
           NEW e \in 1..Len(E), E[e].value # Null
    PROVE  E[e].key = num[e] * BlockSize /\ num[e] \in Nat
<1>1. KeyOK(E[e], num[e], m, Len(E)) /\ E[e] \in Entry /\ num[e] \in Int  BY NumberedShape
<1>2. E[e].key = num[e] * BlockSize  BY <1>1 DEF KeyOK
<1>3. E[e].key >= 0  BY <1>1 DEF Entry
<1>4. num[e] * BlockSize >= 0  BY <1>2, <1>3
<1>5. \A x \in Int : x * BlockSize >= 0 => x >= 0
  <2> SUFFICES ASSUME NEW x \in Int, x * BlockSize >= 0  PROVE x >= 0  OBVIOUS
  <2> QED BY Multiples
<1>6. num[e] >= 0  BY <1>1, <1>4, <1>5
<1> QED BY <1>1, <1>2, <1>6

\* A key that is there differs from the entry's number by a multiple of n.
LEMMA KeyedNum ==
    ASSUME NEW E, NEW m, NEW num, Numbered(E, m, num),
           NEW e \in 1..Len(E), E[e].key # NoKey
    PROVE  \E k \in Int : E[e].key = k * BlockSize /\ Cong(k, num[e], Len(E))
<1> DEFINE n == Len(E)
<1>1. KeyOK(E[e], num[e], m, n) /\ num[e] \in Int /\ n \in Int /\ m \in Int  BY NumberedShape
<1> HIDE DEF n
<1>2. CASE E[e].key = num[e] * BlockSize
  <2>1. Cong(num[e], num[e], n)  BY <1>1, CongOne
  <2> QED BY <1>1, <1>2, <2>1 DEF n
<1>3. CASE num[e] = m - n /\ E[e].key = m * BlockSize
  <2>1. Cong(m - n, m, n) /\ m - n \in Int  BY <1>1, CongOne
  <2>2. Cong(m, m - n, n)  BY <1>1, <2>1, CongSym
  <2>3. Cong(m, num[e], n)  BY <1>3, <2>2
  <2> QED BY <1>1, <1>3, <2>3 DEF n
<1> QED BY <1>1, <1>2, <1>3 DEF KeyOK

\* Slots of a header are as far apart as the numbers in them, around its size.
Back(a, z, d) == (a + z - (d % z)) % z
Slots(z) == 0..(z-1)
LEMMA SlotBack ==
    ASSUME NEW z \in Nat \ {0}, NEW a \in Slots(z), NEW b \in Slots(z), NEW o \in Int,
           NEW ao \in Int, ao = a + o, NEW bo \in Int, bo = b + o,
           NEW k \in Int, Cong(k, ao, z), NEW x \in Int, Cong(x, bo, z),
           NEW kx, kx = k - x
    PROVE  Back(a, z, kx) = b
<1> DEFINE d == k - x
           r == d % z
           y == a + z - r
           w == y % z
<1>1. d \in Int /\ a \in 0..(z-1) /\ b \in 0..(z-1) /\ a \in Int /\ b \in Int /\ z \in Int
      /\ Cong(k, a + o, z) /\ Cong(x, b + o, z)
  BY DEF Slots
<1>2. r \in 0..(z-1) /\ Cong(r, d, z)  BY <1>1, CongMod
<1> HIDE DEF r
<1>3. y \in Int  BY <1>1, <1>2
<1>4. w \in 0..(z-1) /\ Cong(w, y, z)  BY <1>3, CongMod
<1> HIDE DEF w, y, d
<1>5. Cong(a + z - r, a + z - d, z)
  <2> DEFINE c == a + z
  <2>1. c \in Int /\ r \in Int  BY <1>1, <1>2
  <2> HIDE DEF c
  <2>2. Cong(c - r, c - d, z)  BY <1>1, <1>2, <2>1, CongSub
  <2>3. c - r = a + z - r /\ c - d = a + z - d  BY <1>1, <1>2 DEF c
  <2> QED BY <2>2, <2>3
<1>6. Cong(d, a - b, z)
  <2>1. a + o \in Int /\ b + o \in Int /\ k - x \in Int /\ k - (b + o) \in Int
        /\ (a + o) - (b + o) \in Int /\ -(b + o) \in Int
    BY <1>1
  <2>2. Cong(k - x, k - (b + o), z)  BY <1>1, <2>1, CongSub
  <2>3. Cong(k + (-(b + o)), (a + o) + (-(b + o)), z)  BY <1>1, <2>1, CongAdd
  <2>4. k + (-(b + o)) = k - (b + o) /\ (a + o) + (-(b + o)) = a - b  BY <1>1
  <2>5. Cong(k - (b + o), a - b, z)  BY <2>3, <2>4
  <2>6. a - b \in Int  BY <1>1
  <2>7. Cong(k - x, a - b, z)  BY <1>1, <2>1, <2>2, <2>5, <2>6, CongTrans
  <2> QED BY <2>7 DEF d
<1>7. Cong(a + z - d, b + z, z)
  <2>1. a + z \in Int /\ a - b \in Int  BY <1>1
  <2>2. Cong((a + z) - d, (a + z) - (a - b), z)  BY <1>1, <1>6, <2>1, CongSub
  <2>3. (a + z) - (a - b) = b + z /\ (a + z) - d = a + z - d  BY <1>1
  <2> QED BY <2>2, <2>3
<1>8. Cong(b + z, b, z)  BY <1>1, CongOne
<1>9. Cong(w, b, z)
  <2>1. a + z - r \in Int /\ a + z - d \in Int /\ b + z \in Int /\ w \in Int  BY <1>1, <1>2, <1>4
  <2>2. Cong(w, a + z - r, z)  BY <1>4 DEF y
  <2>3. Cong(w, a + z - d, z)  BY <1>1, <1>5, <2>1, <2>2, CongTrans
  <2>4. Cong(w, b + z, z)  BY <1>1, <1>7, <2>1, <2>3, CongTrans
  <2> QED BY <1>1, <1>8, <2>1, <2>4, CongTrans
<1>10. w - b < z /\ b - w < z /\ w \in Int  BY <1>1, <1>4
<1>11. w = b  BY <1>1, <1>9, <1>10, CongEqual
<1> QED BY <1>11 DEF w, y, r, d, Back

\* What a search reads: a header, a tail of it that has a key, and a live entry
\* of the block that i is in.
FindsAt(p, m, num, off, j, h, tail, i, a) ==
    /\ Indexed(sub[p].entries, sub[p].headers, m, num, off)
    /\ j \in 1..Len(sub[p].headers) /\ h.index = sub[p].headers[j].index
    /\ tail \in DOMAIN h.index /\ sub[p].entries[h.index[tail]].key # NoKey
    /\ i \in Nat /\ a \in DOMAIN h.index
    /\ sub[p].entries[h.index[a]].value # Null /\ sub[p].entries[h.index[a]].key = FirstOf(i)

\* get_block_index_entry_for_index finds the entry of i's block, in whichever
\* header and from whichever tail that has a key.
LEMMA EntryForFinds ==
    ASSUME NEW p, NEW m, NEW num, NEW off, NEW j, NEW h, NEW tail, NEW i, NEW a,
           FindsAt(p, m, num, off, j, h, tail, i, a)
    PROVE  EntryFor(p, h, tail, i) = h.index[a] /\ h.index[a] \in 1..Len(sub[p].entries)
<1>0. /\ Indexed(sub[p].entries, sub[p].headers, m, num, off)
      /\ j \in 1..Len(sub[p].headers) /\ h.index = sub[p].headers[j].index
      /\ tail \in DOMAIN h.index /\ sub[p].entries[h.index[tail]].key # NoKey
      /\ i \in Nat /\ a \in DOMAIN h.index
      /\ sub[p].entries[h.index[a]].value # Null /\ sub[p].entries[h.index[a]].key = FirstOf(i)
  BY DEF FindsAt
<1> DEFINE E == sub[p].entries
           H == sub[p].headers
           n == Len(E)
           f == h.index
           z == Size(f)
           o == off[j]
           x == f[a]
           y == f[tail]
<1>1. Numbered(E, m, num) /\ Headed(H, n, m, num, off)  BY <1>0 DEF Indexed
<1>2. Fits(H[j], n, num, o) /\ o \in Int  BY <1>0, <1>1 DEF Headed
<1>3. /\ z \in Nat \ {0} /\ \E r \in Nat \ {0} : n = r * z
      /\ f \in [0..(z-1) -> 1..n]
      /\ \A b \in 0..(z-1) : Cong(num[f[b]], b + o, z)
  <2>1. f = H[j].index  BY <1>0
  <2> DEFINE h0 == H[j]
  <2>2. Fits(h0, n, num, o) /\ h0.index = f  BY <1>2, <2>1
  <2> HIDE DEF E, H, n, f, o, h0
  <2>3. LET z0 == Size(h0.index) IN
        /\ z0 \in Nat \ {0} /\ \E r \in Nat \ {0} : n = r * z0
        /\ h0.index \in [0..(z0-1) -> 1..n]
        /\ \A b \in 0..(z0-1) : Cong(num[h0.index[b]], b + o, z0)
    BY <2>2, FitsShape
  <2> QED BY <2>2, <2>3
<1>4. tail \in 0..(z-1) /\ a \in 0..(z-1) /\ x \in 1..n /\ y \in 1..n
  <2>1. tail \in DOMAIN f /\ a \in DOMAIN f  BY <1>0
  <2> HIDE DEF n, f, z
  <2> QED BY <1>3, <2>1
<1>10. num[x] = num[f[a]] /\ num[y] = num[f[tail]]  OBVIOUS
<1>16. E[x].value # Null /\ E[y].key # NoKey /\ E[x].key = FirstOf(i) /\ n = Len(E)  BY <1>0
<1>8. EntryFor(p, h, tail, i) =
        f[(tail + z - (((E[y].key - FirstOf(i)) \div BlockSize) % z)) % z]
  BY DEF EntryFor
<1> HIDE DEF E, H, n, f, z, o, x, y
<1>5. n \in Int /\ num[x] \in Int /\ num[y] \in Int  BY <1>1, <1>4, <1>16, NumberedShape
<1>6. E[x].key = num[x] * BlockSize  BY <1>1, <1>4, <1>16, LiveNum
<1>7. PICK k \in Int : E[y].key = k * BlockSize /\ Cong(k, num[y], n)
  <2>1. y \in 1..Len(E)  BY <1>4, <1>16
  <2>2. \E k \in Int : E[y].key = k * BlockSize /\ Cong(k, num[y], Len(E))  BY <1>1, <1>16, <2>1, KeyedNum
  <2> QED BY <1>16, <2>2
<1>9. FirstOf(i) = num[x] * BlockSize  BY <1>6, <1>16
<1>11. (E[y].key - FirstOf(i)) \div BlockSize = k - num[x]
  <2> DEFINE v == E[y].key - FirstOf(i)
  <2>1. v = k * BlockSize - num[x] * BlockSize  BY <1>7, <1>9
  <2>2. (k - num[x]) * BlockSize = k * BlockSize - num[x] * BlockSize
        /\ (k - num[x]) * BlockSize \in Int /\ k - num[x] \in Int
    <3>1. num[x] \in Int  BY <1>5
    <3> DEFINE w == num[x]
    <3> HIDE DEF w
    <3>2. w \in Int  BY <3>1 DEF w
    <3>3. (k - w) * BlockSize = k * BlockSize - w * BlockSize
          /\ (k - w) * BlockSize \in Int /\ k - w \in Int
      <4> DEFINE B == BlockSize
      <4>1. B \in Int  BY QueueAssumption
      <4> HIDE DEF B
      <4>2. (k - w) * B = k * B - w * B /\ (k - w) * B \in Int /\ k - w \in Int  BY <3>2, <4>1
      <4> QED BY <4>2 DEF B
    <3> QED BY <3>3 DEF w
  <2> HIDE DEF v
  <2>3. v \in Int /\ v = (k - num[x]) * BlockSize  BY <2>1, <2>2
  <2>4. v \div BlockSize = k - num[x]  BY <2>2, <2>3, DivExact
  <2> QED BY <2>4 DEF v
<1>12. Cong(k, tail + o, z)
  <2>1. PICK r \in Nat \ {0} : n = r * z  BY <1>3
  <2>2. Cong(k, num[y], z)
    <3> DEFINE w == num[y]
    <3>1. w \in Int /\ Cong(k, w, n)  BY <1>5, <1>7
    <3> HIDE DEF w
    <3>3. z \in Int /\ r \in Int  BY <1>3
    <3>2. Cong(k, w, z)  BY <2>1, <3>1, <3>3, CongDivisor
    <3> QED BY <3>2 DEF w
  <2>3. Cong(num[y], tail + o, z)  BY <1>3, <1>4, <1>10
  <2>4. tail + o \in Int /\ z \in Int  BY <1>2, <1>3, <1>4
  <2> QED BY <1>5, <2>2, <2>3, <2>4, CongTrans
<1>13. Cong(num[x], a + o, z)  BY <1>3, <1>4, <1>10
<1>14. Back(tail, z, k - num[x]) = a
  <2>1. z \in Nat \ {0} /\ tail \in Slots(z) /\ a \in Slots(z) /\ o \in Int /\ num[x] \in Int
    BY <1>2, <1>3, <1>4, <1>5 DEF Slots
  <2> DEFINE w == num[x]  ao == a + o  to == tail + o  kx == k - w
  <2>2. w \in Int /\ ao \in Int /\ to \in Int  BY <1>4, <2>1
  <2>3. Cong(k, to, z) /\ Cong(w, ao, z)  BY <1>12, <1>13
  <2>5. ao = a + o /\ to = tail + o /\ kx = k - w  OBVIOUS
  <2> HIDE DEF w, ao, to, kx
  <2>4. Back(tail, z, kx) = a  BY <2>1, <2>2, <2>3, <2>5, SlotBack
  <2> QED BY <2>4 DEF w, kx
<1>15. EntryFor(p, h, tail, i) = f[a]  BY <1>8, <1>11, <1>14 DEF Back
<1> QED BY <1>4, <1>15 DEF x, f, n, E

-----------------------------------------------------------------------------
(* Where the threads are in the free list while they enqueue or dequeue.   *)

\* The labels of the free list's calls.
FreeLabels == {"out", "head", "refs", "hold", "next", "pop", "release", "drop",
               "add", "load", "link", "count", "push", "undo"}
AddLabels == {"add", "load", "link", "count", "push", "undo"}
WithNode == FreeLabels \ {"out", "head", "refs"}
MaybeNode == Pool \cup {Null}

\* The words of the free list and the locals of its calls have their types.
FreeShape ==
    /\ at \in [Threads -> FreeLabels]
    /\ getting \in [Threads -> BOOLEAN]
    /\ seen = [t \in Threads |-> seen[t]]
    /\ node \in [Threads -> MaybeNode]
    /\ head \in [Threads -> MaybeNode]
    /\ nxt \in [Threads -> MaybeNode]
    /\ freeListHead \in MaybeNode
    /\ refs = [n \in Pool |-> refs[n]]
    /\ should \in [Pool -> BOOLEAN]
    /\ next \in [Pool -> MaybeNode]
    /\ \A t \in Threads : at[t] \in WithNode => node[t] # Null
    /\ \A t \in Threads : at[t] = "refs" => head[t] # Null

\* An entry was made for the block that a thread gets; the call that a thread
\* is in decides what it may do in the free list.
Inserting(t) == my[t].pc \in {"pool", "get", "put"}

\* Which call of the free list a thread is in at each point of its own call.
LabelAt(t) ==
    /\ Inserting(t) => step[t] = "out" /\ mine[t] # 0
    /\ at[t] # "out" => my[t].pc \in {"get", "add"}
    /\ getting[t] <=> (at[t] # "out" /\ my[t].pc = "get")
    /\ my[t].pc = "get" => at[t] # "add"
    /\ my[t].pc = "add" => at[t] \in AddLabels \cup {"out"}
LabelInv == \A t \in Threads : LabelAt(t)

\* What a thread has for itself is left alone by the others.
FreeApart(u) == /\ at'[u] = at[u] /\ node'[u] = node[u] /\ head'[u] = head[u]
                /\ nxt'[u] = nxt[u] /\ seen'[u] = seen[u] /\ getting'[u] = getting[u]
CallApart(u) == /\ my'[u].pc = my[u].pc /\ my'[u].p = my[u].p /\ my'[u].i = my[u].i
                /\ my'[u].tail = my[u].tail /\ my'[u].entry = my[u].entry
                /\ my'[u].block = my[u].block /\ my'[u].header = my[u].header
TableApart(u) == mine'[u] = mine[u] /\ step'[u] = step[u]
Apart(u) == FreeApart(u) /\ CallApart(u) /\ TableApart(u)

\* The block that is about to leave its index is a block.
UnlinkBlocks == \A t \in Threads : my[t].pc = "unlink" => my[t].block \in Blocks

\* A step to a label that writes the locals; the shared state keeps its shape.
StaysShaped == /\ freeListHead' \in MaybeNode /\ refs' = [n \in Pool |-> refs'[n]]
               /\ should' \in [Pool -> BOOLEAN] /\ next' \in [Pool -> MaybeNode]

\* The locals of t after a step of the free list; nobody else's change.
Goes(t, l, h, n, x, s, g) ==
    /\ at' = [at EXCEPT ![t] = l] /\ head' = [head EXCEPT ![t] = h]
    /\ node' = [node EXCEPT ![t] = n] /\ nxt' = [nxt EXCEPT ![t] = x]
    /\ seen' = [seen EXCEPT ![t] = s] /\ getting' = [getting EXCEPT ![t] = g]
Gone(t, l, n, g) == /\ FreeShape' /\ at'[t] = l /\ node'[t] = n /\ getting'[t] = g
                    /\ \A u \in Threads \ {t} : FreeApart(u)
LEMMA FreeReturns ==
    ASSUME FreeShape, StaysShaped, NEW t \in Threads, NEW r \in MaybeNode, Free!Return(t, r)
    PROVE  Gone(t, "out", r, FALSE)
<1>1. /\ at' = [at EXCEPT ![t] = "out"] /\ node' = [node EXCEPT ![t] = r]
      /\ head' = [head EXCEPT ![t] = Null] /\ nxt' = [nxt EXCEPT ![t] = Null]
      /\ seen' = [seen EXCEPT ![t] = <<0, FALSE>>] /\ getting' = [getting EXCEPT ![t] = FALSE]
  BY DEF Free!Return, Free!Jump
<1>2. at' \in [Threads -> FreeLabels] /\ getting' \in [Threads -> BOOLEAN]
      /\ seen' = [u \in Threads |-> seen'[u]]
  BY <1>1 DEF FreeShape, FreeLabels
<1>3. node' \in [Threads -> MaybeNode] /\ head' \in [Threads -> MaybeNode]
      /\ nxt' \in [Threads -> MaybeNode]
  BY <1>1 DEF FreeShape, MaybeNode
<1>4. \A u \in Threads \ {t} : FreeApart(u)  BY <1>1 DEF FreeShape, FreeApart
<1>5. at'[t] = "out" /\ node'[t] = r /\ getting'[t] = FALSE  BY <1>1 DEF FreeShape
<1>6. \A u \in Threads : at'[u] \in WithNode => node'[u] # Null
  BY <1>4, <1>5 DEF FreeShape, FreeApart, WithNode
<1>7. \A u \in Threads : at'[u] = "refs" => head'[u] # Null
  BY <1>4, <1>5 DEF FreeShape, FreeApart
<1>8. FreeShape'  BY <1>2, <1>3, <1>6, <1>7 DEF FreeShape, StaysShaped
<1> QED BY <1>4, <1>5, <1>8 DEF Gone

\* A step to another label that keeps what the thread has read, or reads more.
LEMMA FreeGoes ==
    ASSUME FreeShape, StaysShaped, NEW t \in Threads, NEW l \in FreeLabels, NEW h \in MaybeNode,
           NEW n \in MaybeNode, NEW x \in MaybeNode, NEW s, NEW g \in BOOLEAN,
           Goes(t, l, h, n, x, s, g),
           l \in WithNode => n # Null, l = "refs" => h # Null
    PROVE  Gone(t, l, n, g)
<1>2. at' \in [Threads -> FreeLabels] /\ getting' \in [Threads -> BOOLEAN]
      /\ seen' = [u \in Threads |-> seen'[u]]
  BY DEF FreeShape, Goes
<1>3. node' \in [Threads -> MaybeNode] /\ head' \in [Threads -> MaybeNode]
      /\ nxt' \in [Threads -> MaybeNode]
  BY DEF FreeShape, Goes
<1>4. \A u \in Threads \ {t} : FreeApart(u)  BY DEF FreeShape, FreeApart, Goes
<1>5. at'[t] = l /\ node'[t] = n /\ getting'[t] = g /\ head'[t] = h  BY DEF FreeShape, Goes
<1>6. \A u \in Threads : at'[u] \in WithNode => node'[u] # Null
  BY <1>4, <1>5 DEF FreeShape, FreeApart
<1>7. \A u \in Threads : at'[u] = "refs" => head'[u] # Null
  BY <1>4, <1>5 DEF FreeShape, FreeApart
<1>8. FreeShape'  BY <1>2, <1>3, <1>6, <1>7 DEF FreeShape, StaysShaped
<1> QED BY <1>4, <1>5, <1>8 DEF Gone

\* Each step of the free list: the shape stays, the other threads' locals too,
\* and where the thread gets to.
FreeMoves(t) ==
    /\ FreeShape'
    /\ \A u \in Threads \ {t} : FreeApart(u)
    /\ at[t] # "out"
    /\ at'[t] = "out" => ~getting'[t]
    /\ at'[t] # "out" => getting'[t] = getting[t]
    /\ at[t] # "add" => at'[t] # "add"
    /\ ~getting[t] /\ at[t] \in AddLabels => at'[t] \in AddLabels \cup {"out"}

\* The steps of the free list, one by one, keep its shape and go from label to
\* label as FreeMoves says.
LEMMA FreeStepMoves ==
    ASSUME FreeShape, NEW t \in Threads, Free!Step(t)
    PROVE  FreeMoves(t)
<1>0. /\ at[t] \in FreeLabels /\ head[t] \in MaybeNode /\ node[t] \in MaybeNode
      /\ nxt[t] \in MaybeNode /\ getting[t] \in BOOLEAN /\ freeListHead \in MaybeNode
      /\ head = [head EXCEPT ![t] = head[t]] /\ node = [node EXCEPT ![t] = node[t]]
      /\ nxt = [nxt EXCEPT ![t] = nxt[t]] /\ seen = [seen EXCEPT ![t] = seen[t]]
      /\ getting = [getting EXCEPT ![t] = getting[t]]
      /\ Null \in MaybeNode
      /\ at[t] \in WithNode => node[t] # Null
      /\ at[t] = "refs" => head[t] # Null
      /\ refs = [n \in Pool |-> refs[n]] /\ should \in [Pool -> BOOLEAN]
      /\ next \in [Pool -> MaybeNode]
  BY DEF FreeShape, MaybeNode
<1>1. ASSUME NEW r \in MaybeNode, Free!Return(t, r), StaysShaped, at[t] # "out"  PROVE FreeMoves(t)
  BY <1>1, FreeReturns DEF FreeMoves, Gone
<1>2. ASSUME NEW l \in FreeLabels, Free!Jump(t, l), StaysShaped, at[t] # "out", l # "out",
             UNCHANGED <<head, node, nxt, seen, getting>>,
             l \in WithNode => node[t] # Null, l = "refs" => head[t] # Null,
             l # "add" \/ at[t] = "add",
             getting[t] \/ at[t] \notin AddLabels \/ l \in AddLabels
      PROVE  FreeMoves(t)
  <2> DEFINE h == head[t]  n == node[t]  x == nxt[t]  s == seen[t]  g == getting[t]
  <2>1. /\ h \in MaybeNode /\ n \in MaybeNode /\ x \in MaybeNode /\ g \in BOOLEAN
        /\ Goes(t, l, h, n, x, s, g)
        /\ l \in WithNode => n # Null
        /\ l = "refs" => h # Null
    BY <1>0, <1>2 DEF Goes, Free!Jump
  <2> HIDE DEF h, n, x, s, g
  <2>2. Gone(t, l, n, g)
    BY <1>2, <2>1, FreeGoes
  <2> QED BY <1>2, <2>2 DEF FreeMoves, Gone, g
<1>3. ASSUME Free!Again(t), StaysShaped, at[t] \in {"drop", "push", "undo"}, getting[t] \/ at[t] \notin AddLabels
      PROVE  FreeMoves(t)
  <2>1. CASE head[t] = Null  BY <1>0, <1>1, <1>3, <2>1 DEF Free!Again
  <2>2. CASE head[t] # Null
    <3>1. Free!Jump(t, "refs") /\ UNCHANGED <<head, node, nxt, seen, getting>>
      BY <1>3, <2>2 DEF Free!Again
    <3>2. "refs" \in FreeLabels /\ "refs" \notin WithNode  BY DEF FreeLabels, WithNode
    <3> QED BY <1>2, <1>3, <2>2, <3>1, <3>2
  <2> QED BY <2>1, <2>2
<1>4. CASE Free!LoadHead(t)
  <2>1. /\ at[t] = "head" /\ StaysShaped
        /\ \/ Free!Return(t, Null)
           \/ /\ freeListHead # Null /\ head' = [head EXCEPT ![t] = freeListHead]
              /\ Free!Jump(t, "refs") /\ UNCHANGED <<node, nxt, seen, getting>>
    BY <1>0, <1>4 DEF Free!LoadHead, Free!list, StaysShaped
  <2>2. CASE Free!Return(t, Null)  BY <1>0, <1>1, <2>1, <2>2
  <2>3. CASE /\ freeListHead # Null /\ head' = [head EXCEPT ![t] = freeListHead]
             /\ Free!Jump(t, "refs") /\ UNCHANGED <<node, nxt, seen, getting>>
    <3> DEFINE h == freeListHead  n == node[t]  x == nxt[t]  s == seen[t]  g == getting[t]
    <3>1. /\ h \in MaybeNode /\ n \in MaybeNode /\ x \in MaybeNode /\ g \in BOOLEAN
          /\ Goes(t, "refs", h, n, x, s, g) /\ h # Null
      BY <1>0, <2>3 DEF Goes, Free!Jump
    <3> HIDE DEF h, n, x, s, g
    <3>2. "refs" \in FreeLabels /\ "refs" \notin WithNode  BY DEF FreeLabels, WithNode
    <3>3. Gone(t, "refs", n, g)
      BY <2>1, <2>3, <3>1, <3>2, FreeGoes
    <3> QED BY <2>1, <3>3 DEF FreeMoves, Gone, g, AddLabels
  <2> QED BY <2>1, <2>2, <2>3
<1>5. CASE Free!LoadRefs(t)
  <2> DEFINE l == IF refs[head[t]] = 0 THEN "head" ELSE "hold"
             h == head[t]  n == head[t]  x == nxt[t]  s == <<refs[head[t]], should[head[t]]>>  g == getting[t]
  <2>1. /\ at[t] = "refs" /\ StaysShaped
        /\ Goes(t, l, h, n, x, s, g)
    BY <1>0, <1>5 DEF Free!LoadRefs, Free!list, StaysShaped, Goes, Free!Jump
  <2>2. h \in MaybeNode /\ n \in MaybeNode /\ x \in MaybeNode /\ g \in BOOLEAN /\ n # Null
        /\ l \in FreeLabels /\ l # "refs" /\ l # "out" /\ l # "add"
    BY <1>0, <2>1 DEF FreeLabels
  <2> HIDE DEF h, n, x, s, g, l
  <2>3. Gone(t, l, n, g)
    BY <2>1, <2>2, FreeGoes
  <2> QED BY <2>1, <2>2, <2>3 DEF FreeMoves, Gone, g, AddLabels
<1>6. CASE Free!Hold(t)
  <2>1. /\ at[t] = "hold" /\ StaysShaped /\ UNCHANGED <<head, node, nxt, seen, getting>>
        /\ Free!Jump(t, "next") \/ Free!Jump(t, "head")
    BY <1>0, <1>6 DEF Free!Hold, StaysShaped
  <2>2. node[t] # Null  BY <1>0, <2>1 DEF WithNode, FreeLabels
  <2> QED BY <1>2, <2>1, <2>2 DEF FreeLabels, AddLabels, WithNode
<1>7. CASE Free!LoadNext(t)
  <2>1. node[t] \in Pool  BY <1>0, <1>7 DEF Free!LoadNext, WithNode, FreeLabels, MaybeNode
  <2> DEFINE h == head[t]  n == node[t]  x == next[node[t]]  s == seen[t]  g == getting[t]
  <2>2. /\ at[t] = "next" /\ StaysShaped
        /\ Goes(t, "pop", h, n, x, s, g)
    BY <1>0, <1>7 DEF Free!LoadNext, Free!list, StaysShaped, Goes, Free!Jump
  <2>3. h \in MaybeNode /\ n \in MaybeNode /\ x \in MaybeNode /\ g \in BOOLEAN /\ n # Null
    BY <1>0, <2>1 DEF MaybeNode, Pool
  <2> HIDE DEF h, n, x, s, g
  <2>4. "pop" \in FreeLabels  BY DEF FreeLabels
  <2>5. Gone(t, "pop", n, g)
    BY <2>2, <2>3, <2>4, FreeGoes
  <2> QED BY <2>2, <2>5 DEF FreeMoves, Gone, g, AddLabels
<1>8. CASE Free!Pop(t)
  <2>1. at[t] = "pop" /\ node[t] # Null  BY <1>0, <1>8 DEF Free!Pop, WithNode, FreeLabels
  <2>2. CASE freeListHead' = nxt[t] /\ Free!Jump(t, "release") /\ UNCHANGED head
    <3>1. StaysShaped /\ UNCHANGED <<head, node, nxt, seen, getting>>
      BY <1>0, <1>8, <2>2 DEF Free!Pop, StaysShaped
    <3> QED BY <1>2, <2>1, <2>2, <3>1 DEF FreeLabels, AddLabels, WithNode
  <2>3. CASE head' = [head EXCEPT ![t] = freeListHead] /\ Free!Jump(t, "drop") /\ UNCHANGED freeListHead
    <3> DEFINE h == freeListHead  n == node[t]  x == nxt[t]  s == seen[t]  g == getting[t]
    <3>1. /\ StaysShaped
          /\ Goes(t, "drop", h, n, x, s, g)
      BY <1>0, <1>8, <2>3 DEF Free!Pop, StaysShaped, Goes, Free!Jump
    <3>2. h \in MaybeNode /\ n \in MaybeNode /\ x \in MaybeNode /\ g \in BOOLEAN /\ n # Null
      BY <1>0, <2>1
    <3> HIDE DEF h, n, x, s, g
    <3>3. "drop" \in FreeLabels  BY DEF FreeLabels
    <3>4. Gone(t, "drop", n, g)
      BY <2>3, <3>1, <3>2, <3>3, FreeGoes
    <3> QED BY <2>1, <3>4 DEF FreeMoves, Gone, g, AddLabels
  <2> QED BY <1>8, <2>2, <2>3 DEF Free!Pop, StaysShaped
<1>9. CASE Free!Release(t)
  <2>1. at[t] = "release" /\ StaysShaped /\ Free!Return(t, node[t])
    BY <1>0, <1>9 DEF Free!Release, StaysShaped
  <2> QED BY <1>0, <1>1, <2>1
<1>10. CASE Free!Drop(t)
  <2>1. /\ at[t] = "drop" /\ StaysShaped
        /\ \/ Free!Jump(t, "load") /\ UNCHANGED <<head, node, nxt, seen, getting>>
           \/ Free!Again(t)
    BY <1>0, <1>10 DEF Free!Drop, StaysShaped
  <2>2. node[t] # Null  BY <1>0, <2>1 DEF WithNode, FreeLabels
  <2>3. CASE Free!Again(t)  BY <1>3, <2>1, <2>3 DEF AddLabels
  <2> QED BY <1>2, <2>1, <2>2, <2>3 DEF FreeLabels, AddLabels, WithNode
<1>11. CASE Free!Add(t)
  <2>1. /\ at[t] = "add" /\ StaysShaped
        /\ \/ Free!Jump(t, "load") /\ UNCHANGED <<head, node, nxt, seen, getting>>
           \/ Free!Return(t, Null)
    BY <1>0, <1>11 DEF Free!Add, StaysShaped
  <2>2. node[t] # Null  BY <1>0, <2>1 DEF WithNode, FreeLabels
  <2>3. CASE Free!Return(t, Null)  BY <1>0, <1>1, <2>1, <2>3
  <2> QED BY <1>2, <2>1, <2>2, <2>3 DEF FreeLabels, AddLabels, WithNode
<1>12. ASSUME NEW l, (at[t] = "load" /\ l = "link") \/ (at[t] = "push" /\ l = "undo"),
              StaysShaped, Free!Jump(t, l),
              nxt' = [nxt EXCEPT ![t] = freeListHead], UNCHANGED <<head, node, seen, getting>>
       PROVE  FreeMoves(t)
  <2> DEFINE h == head[t]  n == node[t]  x == freeListHead  s == seen[t]  g == getting[t]
  <2>1. Goes(t, l, h, n, x, s, g)  BY <1>0, <1>12 DEF Goes, Free!Jump
  <2>2. h \in MaybeNode /\ n \in MaybeNode /\ x \in MaybeNode /\ g \in BOOLEAN /\ n # Null
    BY <1>0, <1>12 DEF WithNode, FreeLabels
  <2> HIDE DEF h, n, x, s, g
  <2>3. l \in FreeLabels /\ l # "refs" /\ l # "out" /\ l # "add" /\ l \in AddLabels /\ at[t] # "out"
    BY <1>12 DEF FreeLabels, AddLabels
  <2>4. Gone(t, l, n, g)  BY <1>12, <2>1, <2>2, <2>3, FreeGoes
  <2> QED BY <1>12, <2>3, <2>4 DEF FreeMoves, Gone, g
<1>13. CASE Free!LoadTop(t)
  <2>1. /\ at[t] = "load" /\ StaysShaped /\ Free!Jump(t, "link")
        /\ nxt' = [nxt EXCEPT ![t] = freeListHead] /\ UNCHANGED <<head, node, seen, getting>>
    BY <1>0, <1>13 DEF Free!LoadTop, Free!list, StaysShaped
  <2> DEFINE l == "link"
  <2>2. (at[t] = "load" /\ l = "link") \/ (at[t] = "push" /\ l = "undo")  BY <2>1
  <2>3. Free!Jump(t, l)  BY <2>1
  <2> HIDE DEF l
  <2> QED BY <1>12, <2>1, <2>2, <2>3
<1>14. CASE Free!Link(t)
  <2>1. /\ at[t] = "link" /\ StaysShaped /\ Free!Jump(t, "count")
        /\ UNCHANGED <<head, node, nxt, seen, getting>>
    BY <1>0, <1>14 DEF Free!Link, StaysShaped
  <2>2. node[t] # Null  BY <1>0, <2>1 DEF WithNode, FreeLabels
  <2> QED BY <1>2, <2>1, <2>2 DEF FreeLabels, AddLabels, WithNode
<1>15. CASE Free!CountOne(t)
  <2>1. /\ at[t] = "count" /\ StaysShaped /\ Free!Jump(t, "push")
        /\ UNCHANGED <<head, node, nxt, seen, getting>>
    BY <1>0, <1>15 DEF Free!CountOne, StaysShaped
  <2>2. node[t] # Null  BY <1>0, <2>1 DEF WithNode, FreeLabels
  <2> QED BY <1>2, <2>1, <2>2 DEF FreeLabels, AddLabels, WithNode
<1>16. ASSUME Free!AddReturns(t), at[t] \in {"push", "undo"}, StaysShaped  PROVE FreeMoves(t)
  <2>1. CASE getting[t]  BY <1>3, <1>16, <2>1 DEF Free!AddReturns
  <2>2. CASE ~getting[t]
    <3>1. Free!Return(t, Null)  BY <1>16, <2>2 DEF Free!AddReturns
    <3> QED BY <1>0, <1>1, <1>16, <3>1
  <2> QED BY <2>1, <2>2
<1>17. CASE Free!Push(t)
  <2>1. /\ at[t] = "push" /\ StaysShaped
        /\ \/ Free!AddReturns(t)
           \/ /\ nxt' = [nxt EXCEPT ![t] = freeListHead] /\ Free!Jump(t, "undo")
              /\ UNCHANGED <<head, node, seen, getting>>
    BY <1>0, <1>17 DEF Free!Push, StaysShaped
  <2> QED BY <1>12, <1>16, <2>1
<1>18. CASE Free!Undo(t)
  <2>1. /\ at[t] = "undo" /\ StaysShaped
        /\ \/ Free!Jump(t, "link") /\ UNCHANGED <<head, node, nxt, seen, getting>>
           \/ Free!AddReturns(t)
    BY <1>0, <1>18 DEF Free!Undo, StaysShaped
  <2>2. node[t] # Null  BY <1>0, <2>1 DEF WithNode, FreeLabels
  <2>3. CASE Free!AddReturns(t)  BY <1>16, <2>1, <2>3
  <2> QED BY <1>2, <2>1, <2>2, <2>3 DEF FreeLabels, AddLabels, WithNode
<1> QED BY <1>4, <1>5, <1>6, <1>7, <1>8, <1>9, <1>10, <1>11, <1>13, <1>14, <1>15, <1>17, <1>18
        DEF Free!Step

\* What the thread's own call is after each of its steps.
LEMMA CallShape ==
    ASSUME NEW r, CallOK(r)
    PROVE  r = [pc |-> r.pc, p |-> r.p, i |-> r.i, over |-> r.over, tail |-> r.tail,
                best |-> r.best, size |-> r.size, found |-> r.found, entry |-> r.entry,
                block |-> r.block, header |-> r.header, alone |-> r.alone, had |-> r.had]
BY DEF CallOK

LEMMA MyAt ==
    ASSUME QueueTypes, NEW t \in Threads, NEW r, my' = [my EXCEPT ![t] = r]
    PROVE  my'[t] = r /\ \A u \in Threads \ {t} : my'[u] = my[u]
BY DEF QueueTypes

\* The labels of a dequeue lead to each other or out of it.
LEMMA PcAfter ==
    ASSUME QueueTypes, NEW t \in Threads, DequeueStep(t)
    PROVE  my'[t].pc \in Walking \cup {"out"}
<1> DEFINE r == my[t]
<1>0. CallOK(r)  BY DEF QueueTypes
<1>1. r = [pc |-> r.pc, p |-> r.p, i |-> r.i, over |-> r.over, tail |-> r.tail,
                best |-> r.best, size |-> r.size, found |-> r.found, entry |-> r.entry,
                block |-> r.block, header |-> r.header, alone |-> r.alone, had |-> r.had]
  BY <1>0, CallShape
<1>2. Idle.pc = "out"  BY DEF Idle
<1>3. \A x : Set(t, x) => my'[t] = x  BY DEF Set, QueueTypes
<1>4. \A l : Go(t, l) => my'[t] = [my[t] EXCEPT !.pc = l]  BY DEF Go, QueueTypes
<1>5. Finish(t) => my'[t].pc = "out"  BY <1>2, <1>3 DEF Finish
<1>6. Onwards(t) => my'[t].pc \in {"load", "out"}
  <2> SUFFICES ASSUME Onwards(t)  PROVE my'[t].pc \in {"load", "out"}  OBVIOUS
  <2>1. Finish(t) \/ \E q : Set(t, [my[t] EXCEPT !.pc = "load", !.found = 1, !.i = 0, !.over = 0,
                                                 !.tail = 0, !.p = q])
    BY DEF Onwards
  <2>2. ASSUME NEW q, Set(t, [my[t] EXCEPT !.pc = "load", !.found = 1, !.i = 0, !.over = 0,
                                                 !.tail = 0, !.p = q])
        PROVE  my'[t].pc = "load"
    <3>1. my'[t] = [r EXCEPT !.pc = "load", !.found = 1, !.i = 0, !.over = 0, !.tail = 0, !.p = q]
      BY <1>3, <2>2
    <3> HIDE DEF r
    <3> QED BY <1>1, <3>1
  <2> QED BY <1>5, <2>1, <2>2
<1>7. ASSUME NEW l, Go(t, l)  PROVE my'[t].pc = l
  <2>1. my'[t] = [r EXCEPT !.pc = l]  BY <1>4, <1>7
  <2> HIDE DEF r
  <2> QED BY <1>1, <2>1
<1>8. CASE Score(t)
  <2> DEFINE p == r.p
             size == IF Holds(p) THEN sub[p].tailIndex - sub[p].headIndex ELSE 0
             found == IF size > 0 THEN r.found + 1 ELSE r.found
             best == IF size > r.size THEN p ELSE r.best
             s == IF size > r.size THEN size ELSE r.size
  <2>1. \/ Set(t, [my[t] EXCEPT !.p = p - 1, !.found = found, !.best = best, !.size = s])
        \/ Finish(t)
        \/ Set(t, [my[t] EXCEPT !.pc = "load", !.p = best, !.best = best, !.found = 0, !.size = 0])
    BY <1>8 DEF Score
  <2>2. r.pc = "score"  BY <1>8 DEF Score
  <2> HIDE DEF p, size, found, best, s
  <2>3. CASE Set(t, [my[t] EXCEPT !.p = p - 1, !.found = found, !.best = best, !.size = s])
    BY <1>1, <1>3, <2>2, <2>3 DEF Walking
  <2>4. CASE Set(t, [my[t] EXCEPT !.pc = "load", !.p = best, !.best = best, !.found = 0, !.size = 0])
    BY <1>1, <1>3, <2>2, <2>4 DEF Walking
  <2> QED BY <1>5, <2>1, <2>3, <2>4
<1>9. CASE LoadOver(t)  BY <1>1, <1>3, <1>9 DEF LoadOver, Walking
<1>10. CASE TestOptimistic(t) \/ Check(t) \/ Excess(t) \/ Move(t) \/ Unlink(t) \/ EndDequeue(t)
  <2>1. (\E l \in Walking : Go(t, l)) \/ Onwards(t) \/ Finish(t)
    BY <1>10 DEF TestOptimistic, Check, Excess, Move, Unlink, EndDequeue, Walking
  <2>2. "load" \in Walking  BY DEF Walking
  <2> QED BY <1>5, <1>6, <1>7, <2>1, <2>2
<1>11. CASE Claim(t)  BY <1>1, <1>3, <1>11 DEF Claim, Walking
<1>12. CASE TakeIndex(t)  BY <1>1, <1>3, <1>12 DEF TakeIndex, Walking
<1>13. CASE FindIndex(t)  BY <1>1, <1>3, <1>13 DEF FindIndex, Walking
<1>14. CASE FindEntry(t)  BY <1>1, <1>3, <1>14 DEF FindEntry, Walking
<1> QED BY <1>8, <1>9, <1>10, <1>11, <1>12, <1>13, <1>14 DEF DequeueStep, Taking

\* A step of t leaves what the other threads have.
LEMMA OthersApart ==
    ASSUME TableInv, QueueTypes, ClaimInv, FreeShape, NEW t \in Threads, ThreadStep(t),
           NEW u \in Threads \ {t}
    PROVE  Apart(u)
<1>t. TableTypes  BY DEF TableInv
<1>1. FreeApart(u)
  <2>1. CASE UNCHANGED freeVars  BY <2>1 DEF freeVars, FreeApart
  <2>2. CASE FreeStep(t)  BY <2>2, FreeStepMoves DEF FreeStep, FreeMoves
  <2>3. CASE Free!CallGet(t)
    BY <2>3 DEF Free!CallGet, Free!Jump, FreeApart, FreeShape
  <2>4. CASE \E b : Free!CallAdd(t, b)
    BY <2>4 DEF Free!CallAdd, Free!Jump, FreeApart, FreeShape
  <2>5. \/ UNCHANGED freeVars \/ FreeStep(t) \/ Free!CallGet(t) \/ \E b : Free!CallAdd(t, b)
    <3>1. TakeFromPool(t) => UNCHANGED freeVars \/ Free!CallGet(t)  BY DEF TakeFromPool
    <3>2. Unlink(t) => UNCHANGED freeVars \/ \E b : Free!CallAdd(t, b)  BY DEF Unlink
    <3>3. CallEnqueue(t) \/ FailEnqueue(t) \/ InsertEntry(t) \/ TakeBlock(t) \/ PutFirst(t) \/ Put(t)
             => UNCHANGED freeVars
      BY DEF CallEnqueue, FailEnqueue, InsertEntry, TakeBlock, PutFirst, Put
    <3>4. CallDequeue(t) \/ Score(t) \/ LoadOver(t) \/ TestOptimistic(t) \/ Claim(t) \/ Check(t)
            \/ Excess(t) \/ TakeIndex(t) \/ FindIndex(t) \/ FindEntry(t) \/ Move(t) \/ EndDequeue(t)
            \/ ThreadExit(t) \/ TableStep(t)
             => UNCHANGED freeVars
      BY DEF CallDequeue, Score, LoadOver, TestOptimistic, Claim, Check, Excess, TakeIndex, FindIndex,
             FindEntry, Move, EndDequeue, ThreadExit, TableStep
    <3> QED BY <3>1, <3>2, <3>3, <3>4 DEF ThreadStep
  <2> QED BY <2>1, <2>2, <2>3, <2>4, <2>5
<1>2. CallApart(u)
  <2>1. ASSUME my' = [my EXCEPT ![t] = my'[t]]  PROVE CallApart(u)
    <3>1. my'[u] = my[u]  BY <2>1 DEF QueueTypes
    <3> QED BY <3>1 DEF CallApart
  <2>2. CASE CallDequeue(t)
    <3> DEFINE r == my[u]
    <3>1. my'[u] = [r EXCEPT !.alone = FALSE]  BY <1>t, <2>2, CallDequeueHas DEF CallDequeueEffect
    <3>2. CallOK(r)  BY DEF QueueTypes
    <3>3. r = [pc |-> r.pc, p |-> r.p, i |-> r.i, over |-> r.over, tail |-> r.tail,
                best |-> r.best, size |-> r.size, found |-> r.found, entry |-> r.entry,
                block |-> r.block, header |-> r.header, alone |-> r.alone, had |-> r.had]
      BY <3>2, CallShape
    <3>4. /\ my'[u].pc = r.pc /\ my'[u].p = r.p /\ my'[u].i = r.i /\ my'[u].tail = r.tail
          /\ my'[u].entry = r.entry /\ my'[u].block = r.block /\ my'[u].header = r.header
      BY <3>1, <3>3
    <3> QED BY <3>4 DEF CallApart
  <2>3. CASE CallEnqueue(t) \/ FailEnqueue(t) \/ InsertEntry(t) \/ TakeFromPool(t)
               \/ TakeBlock(t) \/ PutFirst(t) \/ Put(t)
    BY <1>t, <2>1, <2>3, CallEnqueueEffect, FailEnqueueEffect, InsertEntryEffect, TakeFromPoolEffect,
       TakeBlockEffect, PutFirstEffect, PutEffect DEF EnqueueEffect
  <2>4. CASE Score(t) \/ LoadOver(t) \/ TestOptimistic(t) \/ Claim(t) \/ Check(t)
    BY <1>t, <2>1, <2>4, ScoreEffect, LoadOverEffect, TestEffect, ClaimEffect, CheckEffect DEF DequeueEffect
  <2>5. CASE Excess(t) \/ TakeIndex(t) \/ FindIndex(t) \/ FindEntry(t) \/ Move(t) \/ Unlink(t)
               \/ EndDequeue(t)
    BY <1>t, <2>1, <2>5, ExcessEffect, TakeIndexEffect, TakenEffect DEF DequeueEffect, Taking
  <2>6. CASE ThreadExit(t) \/ TableStep(t) \/ FreeStep(t)
    BY <2>6 DEF ThreadExit, TableStep, FreeStep, CallApart
  <2> QED BY <2>2, <2>3, <2>4, <2>5, <2>6 DEF ThreadStep
<1>3. TableApart(u)
  <2>1. CASE UNCHANGED tableVars  BY <2>1 DEF tableVars, TableApart
  <2>2. CASE CallEnqueue(t) \/ ThreadExit(t)
    BY <1>t, <2>2 DEF CallEnqueue, ThreadExit, Table!Call, Table!Exit, Table!GoOn, TableApart, TableTypes
  <2>3. CASE TableStep(t)
    BY <1>t, <2>3 DEF TableStep, Table!Step, Table!Search, Table!Count, Table!TakeFlag, Table!Resize,
                Table!ClearFlag, Table!FailResize, Table!Wait, Table!Recycle, Table!EnterNew,
                Table!Remove, Table!Retire, Table!Proceed, Table!GoOn, Table!Result, TableApart, TableTypes
  <2>4. CallEnqueue(t) \/ ThreadExit(t) \/ TableStep(t) \/ UNCHANGED tableVars
    <3>1. FailEnqueue(t) \/ InsertEntry(t) \/ TakeFromPool(t) \/ TakeBlock(t) \/ PutFirst(t) \/ Put(t)
            \/ FreeStep(t) => UNCHANGED tableVars
      BY DEF FailEnqueue, InsertEntry, TakeFromPool, TakeBlock, PutFirst, Put, FreeStep
    <3>2. CallDequeue(t) \/ Score(t) \/ LoadOver(t) \/ TestOptimistic(t) \/ Claim(t) \/ Check(t)
            \/ Excess(t) \/ TakeIndex(t) \/ FindIndex(t) \/ FindEntry(t) \/ Move(t) \/ Unlink(t)
            \/ EndDequeue(t)
             => UNCHANGED tableVars
      BY DEF CallDequeue, Score, LoadOver, TestOptimistic, Claim, Check, Excess, TakeIndex, FindIndex,
             FindEntry, Move, Unlink, EndDequeue
    <3> QED BY <3>1, <3>2 DEF ThreadStep
  <2> QED BY <2>1, <2>2, <2>3, <2>4
<1> QED BY <1>1, <1>2, <1>3 DEF Apart

\* The free list's part of the state keeps its shape.
LEMMA FreeShapeNext ==
    ASSUME TableInv, QueueTypes, FreeShape, LabelInv, UnlinkBlocks, [Next]_vars
    PROVE  FreeShape'
<1>1. CASE UNCHANGED freeVars
  BY <1>1 DEF freeVars, FreeShape
<1>2. ASSUME NEW t \in Threads, FreeStep(t)  PROVE FreeShape'
  BY <1>2, FreeStepMoves DEF FreeStep, FreeMoves
<1>3. ASSUME NEW t \in Threads, TakeFromPool(t), Free!CallGet(t)  PROVE FreeShape'
  <2>1. at' = [at EXCEPT ![t] = "head"] /\ getting' = [getting EXCEPT ![t] = TRUE]
        /\ UNCHANGED <<freeListHead, refs, should, next, head, node, nxt, seen>>
    BY <1>3 DEF Free!CallGet, Free!Jump, Free!list
  <2>2. at' \in [Threads -> FreeLabels] /\ getting' \in [Threads -> BOOLEAN]
    BY <2>1 DEF FreeShape, FreeLabels
  <2>3. \A u \in Threads : at'[u] = at[u] \/ at'[u] = "head"  BY <2>1 DEF FreeShape
  <2>4. "head" \notin WithNode  BY DEF WithNode
  <2> QED BY <2>1, <2>2, <2>3, <2>4 DEF FreeShape
<1>4. ASSUME NEW t \in Threads, Unlink(t), Free!CallAdd(t, my[t].block), my[t].block \notin Heap
      PROVE  FreeShape'
  <2>0. my[t].block \in Pool /\ my[t].block # Null /\ my[t].block \in MaybeNode
    <3>1. my[t].block \in Blocks  BY <1>4 DEF UnlinkBlocks, Unlink
    <3>2. my[t].block \in Pool  BY <1>4, <3>1 DEF Blocks
    <3> QED BY <3>2 DEF Pool, MaybeNode
  <2> DEFINE b == my[t].block
  <2>1. at' = [at EXCEPT ![t] = "add"] /\ node' = [node EXCEPT ![t] = b]
        /\ UNCHANGED <<freeListHead, refs, should, next, head, getting, nxt, seen>>
    BY <1>4 DEF Free!CallAdd, Free!Jump, Free!list
  <2> HIDE DEF b
  <2>2. at' \in [Threads -> FreeLabels] /\ node' \in [Threads -> MaybeNode]
    BY <2>0, <2>1 DEF FreeShape, FreeLabels, b
  <2>3. \A u \in Threads : at'[u] \in WithNode => node'[u] # Null
    <3> SUFFICES ASSUME NEW u \in Threads, at'[u] \in WithNode  PROVE node'[u] # Null  OBVIOUS
    <3>1. CASE u = t  BY <2>0, <2>1, <3>1 DEF FreeShape, b
    <3>2. CASE u # t  BY <2>1, <3>2 DEF FreeShape
    <3> QED BY <3>1, <3>2
  <2>4. \A u \in Threads : at'[u] = at[u] \/ at'[u] = "add"  BY <2>1 DEF FreeShape
  <2> QED BY <2>1, <2>2, <2>3, <2>4 DEF FreeShape
<1>5. \/ UNCHANGED freeVars
      \/ \E t \in Threads : \/ FreeStep(t) \/ (TakeFromPool(t) /\ Free!CallGet(t))
                            \/ Unlink(t) /\ Free!CallAdd(t, my[t].block) /\ my[t].block \notin Heap
  <2>1. ASSUME NEW t \in Threads, ThreadStep(t)
        PROVE  \/ UNCHANGED freeVars
               \/ FreeStep(t) \/ (TakeFromPool(t) /\ Free!CallGet(t))
               \/ Unlink(t) /\ Free!CallAdd(t, my[t].block) /\ my[t].block \notin Heap
    <3>1. TakeFromPool(t) => UNCHANGED freeVars \/ (TakeFromPool(t) /\ Free!CallGet(t))
      BY DEF TakeFromPool
    <3>2. Unlink(t) => \/ UNCHANGED freeVars
                       \/ Unlink(t) /\ Free!CallAdd(t, my[t].block) /\ my[t].block \notin Heap
      BY DEF Unlink
    <3>3. CallEnqueue(t) \/ FailEnqueue(t) \/ InsertEntry(t) \/ TakeBlock(t) \/ PutFirst(t) \/ Put(t)
             => UNCHANGED freeVars
      BY DEF CallEnqueue, FailEnqueue, InsertEntry, TakeBlock, PutFirst, Put
    <3>4. CallDequeue(t) \/ Score(t) \/ LoadOver(t) \/ TestOptimistic(t) \/ Claim(t) \/ Check(t)
            \/ Excess(t) \/ TakeIndex(t) \/ FindIndex(t) \/ FindEntry(t) \/ Move(t) \/ EndDequeue(t)
            \/ ThreadExit(t) \/ TableStep(t)
             => UNCHANGED freeVars
      BY DEF CallDequeue, Score, LoadOver, TestOptimistic, Claim, Check, Excess, TakeIndex, FindIndex,
             FindEntry, Move, EndDequeue, ThreadExit, TableStep
    <3> QED BY <2>1, <3>1, <3>2, <3>3, <3>4 DEF ThreadStep
  <2>2. CASE Destroy \/ UNCHANGED vars  BY <2>2 DEF Destroy, vars
  <2> QED BY <2>1, <2>2 DEF Next
<1> QED BY <1>1, <1>2, <1>3, <1>4, <1>5

\* In no call of the free list before and after.
LEMMA LabelQuiet ==
    ASSUME NEW t \in Threads, LabelAt(t), at[t] = "out", at'[t] = at[t], getting'[t] = getting[t],
           FreeShape, Inserting(t)' => step'[t] = "out" /\ mine'[t] # 0
    PROVE  LabelAt(t)'
BY DEF LabelAt, FreeShape

\* The labels of a call and of the free list go together at every step.
LEMMA LabelNext ==
    ASSUME TableInv, QueueTypes, ClaimInv, FreeShape, LabelInv, [Next]_vars
    PROVE  LabelInv'
<1>t. TableTypes  BY DEF TableInv
<1>1. CASE Destroy \/ UNCHANGED vars
  <2>1. UNCHANGED <<my, at, getting, step, mine>>  BY <1>1 DEF Destroy, vars, freeVars, tableVars
  <2> QED BY <2>1 DEF LabelInv, LabelAt, Inserting
<1>2. ASSUME NEW t \in Threads, ThreadStep(t)  PROVE LabelInv'
  <2>1. ASSUME NEW u \in Threads \ {t}  PROVE LabelAt(u)'
    <3>1. Apart(u)  BY <1>2, OthersApart
    <3>2. LabelAt(u)  BY DEF LabelInv
    <3> QED BY <3>1, <3>2 DEF Apart, FreeApart, CallApart, TableApart, LabelAt, Inserting
  <2>2. LabelAt(t)'
    <3>0. LabelAt(t) /\ getting[t] \in BOOLEAN  BY DEF LabelInv, FreeShape
    <3>1. ASSUME UNCHANGED freeVars, my[t].pc \notin {"get", "add"} \/ at[t] = "out",
                 Inserting(t)' => step'[t] = "out" /\ mine'[t] # 0
          PROVE  LabelAt(t)'
      <4>1. at[t] = "out"  BY <3>0, <3>1 DEF LabelAt
      <4>2. at'[t] = at[t] /\ getting'[t] = getting[t]  BY <3>1 DEF freeVars
      <4> QED BY <3>0, <3>1, <4>1, <4>2, LabelQuiet
    <3>2. CASE CallEnqueue(t)
      <4>1. UNCHANGED freeVars /\ my[t].pc = "out" /\ Go(t, "lookup")  BY <3>2 DEF CallEnqueue
      <4>2. my'[t].pc = "lookup"  BY <4>1, GoOK
      <4> QED BY <3>1, <4>1, <4>2 DEF Inserting
    <3>3. CASE FailEnqueue(t) \/ PutFirst(t) \/ Put(t)
      <4>1. UNCHANGED freeVars /\ my[t].pc \in {"lookup", "put"} /\ Set(t, Idle)
        BY <3>3 DEF FailEnqueue, PutFirst, Put, Finish
      <4>2. my'[t].pc = "out"  BY <4>1, SetOK, IdleOK DEF Idle
      <4> QED BY <3>1, <4>1, <4>2 DEF Inserting
    <3>4. CASE InsertEntry(t)
      <4>1. /\ UNCHANGED freeVars /\ UNCHANGED tableVars /\ my[t].pc = "lookup" /\ step[t] = "out" /\ mine[t] # 0
        BY <3>4 DEF InsertEntry, StartsBlock, Table!NoProducer
      <4> QED BY <3>1, <4>1 DEF tableVars
    <3>5. CASE TakeFromPool(t)
      <4>1. /\ my[t].pc = "pool" /\ UNCHANGED tableVars /\ at[t] = "out" /\ getting[t] = FALSE
            /\ mine[t] # 0 /\ step[t] = "out"
        BY <3>0, <3>5 DEF TakeFromPool, LabelAt, Inserting
      <4>2. CASE UNCHANGED freeVars  BY <3>1, <4>1, <4>2 DEF tableVars
      <4>3. CASE Free!CallGet(t) /\ Go(t, "get")
        <5>1. my'[t].pc = "get"  BY <4>3, GoOK
        <5>2. at'[t] = "head" /\ getting'[t] = TRUE
          BY <4>3 DEF Free!CallGet, Free!Jump, FreeShape
        <5> QED BY <4>1, <5>1, <5>2 DEF LabelAt, Inserting, tableVars
      <4> QED BY <3>5, <4>2, <4>3 DEF TakeFromPool
    <3>6. CASE TakeBlock(t)
      <4>1. /\ my[t].pc = "get" /\ at[t] = "out" /\ UNCHANGED freeVars /\ UNCHANGED tableVars
            /\ mine[t] # 0 /\ step[t] = "out"
        BY <3>0, <3>6 DEF TakeBlock, LabelAt, Inserting
      <4> QED BY <3>1, <4>1 DEF tableVars
    <3>7. CASE CallDequeue(t)
      <4>1. UNCHANGED freeVars /\ my[t].pc = "out"  BY <3>7 DEF CallDequeue
      <4>2. my'[t].pc = "score"  BY <1>t, <3>7, CallDequeueHas DEF CallDequeueEffect
      <4> QED BY <3>1, <4>1, <4>2 DEF Inserting
    <3>8. CASE Unlink(t)
      <4>1. my[t].pc = "unlink" /\ at[t] = "out" /\ getting[t] = FALSE
        BY <3>0, <3>8 DEF Unlink, LabelAt
      <4>2. my'[t].pc \in Walking \cup {"out"}  BY <3>8, PcAfter DEF DequeueStep, Taking
      <4>3. CASE UNCHANGED freeVars
        <5>1. ~Inserting(t)'  BY <4>2 DEF Inserting, Walking
        <5> QED BY <3>1, <4>1, <4>3, <5>1
      <4>4. CASE Free!CallAdd(t, my[t].block) /\ Go(t, "add")
        <5>1. my'[t].pc = "add"
          <6>1. my'[t] = [my[t] EXCEPT !.pc = "add"]  BY <4>4 DEF Go, QueueTypes
          <6>2. CallOK(my[t])  BY DEF QueueTypes
          <6> QED BY <6>1, <6>2 DEF CallOK
        <5>2. at'[t] = "add" /\ getting'[t] = getting[t]
          BY <4>4 DEF Free!CallAdd, Free!Jump, FreeShape
        <5> QED BY <4>1, <5>1, <5>2 DEF LabelAt, Inserting, AddLabels
      <4> QED BY <3>8, <4>3, <4>4 DEF Unlink
    <3>9. CASE Score(t) \/ LoadOver(t) \/ TestOptimistic(t) \/ Claim(t) \/ Check(t)
            \/ Excess(t) \/ TakeIndex(t) \/ FindIndex(t) \/ FindEntry(t) \/ Move(t) \/ EndDequeue(t)
      <4>1. UNCHANGED freeVars
        BY <3>9 DEF Score, LoadOver, TestOptimistic, Claim, Check, Excess, TakeIndex, FindIndex,
             FindEntry, Move, EndDequeue
      <4>2. my[t].pc \notin {"get", "add"} \/ at[t] = "out"
        BY <3>9 DEF Score, LoadOver, TestOptimistic, Claim, Check, Excess, TakeIndex, FindIndex,
             FindEntry, Move, EndDequeue
      <4>3. my'[t].pc \in Walking \cup {"out"}  BY <3>9, PcAfter DEF DequeueStep, Taking
      <4>4. ~Inserting(t)'  BY <4>3 DEF Inserting, Walking
      <4> QED BY <3>1, <4>1, <4>2, <4>4
    <3>10. CASE ThreadExit(t)
      <4>1. UNCHANGED freeVars /\ my' = my /\ my[t].pc = "out"  BY <3>10 DEF ThreadExit
      <4> QED BY <3>1, <4>1 DEF Inserting
    <3>11. CASE TableStep(t)
      <4>1. UNCHANGED freeVars /\ my' = my  BY <3>11 DEF TableStep
      <4>2. step[t] # "out"
        BY <3>11 DEF TableStep, Table!Step, Table!Search, Table!Count, Table!TakeFlag, Table!Resize,
                Table!ClearFlag, Table!FailResize, Table!Wait, Table!Recycle, Table!EnterNew,
                Table!Remove, Table!Retire
      <4>3. ~Inserting(t)  BY <3>0, <4>2 DEF LabelAt
      <4> QED BY <3>0, <4>1, <4>3 DEF LabelAt, Inserting, freeVars
    <3>12. CASE FreeStep(t)
      <4>1. FreeMoves(t) /\ my' = my /\ UNCHANGED tableVars  BY <3>12, FreeStepMoves DEF FreeStep
      <4>2. at[t] \in FreeLabels /\ at'[t] \in FreeLabels /\ getting'[t] \in BOOLEAN
        BY <4>1 DEF FreeMoves, FreeShape
      <4>3. at[t] # "out" /\ my'[t] = my[t] /\ step'[t] = step[t] /\ mine'[t] = mine[t]
        BY <4>1 DEF FreeMoves, tableVars
      <4>4. my[t].pc \in {"get", "add"} /\ (getting[t] <=> my[t].pc = "get")
        BY <3>0, <4>3 DEF LabelAt
      <4>5. CASE my[t].pc = "get"
        <5>1. at[t] # "add" /\ getting[t] = TRUE  BY <3>0, <4>4, <4>5 DEF LabelAt
        <5>2. at'[t] # "add" /\ (at'[t] # "out" => getting'[t] = TRUE) /\ (at'[t] = "out" => getting'[t] = FALSE)
          BY <4>1, <4>2, <5>1 DEF FreeMoves
        <5> QED BY <3>0, <4>2, <4>3, <4>5, <5>2 DEF LabelAt, Inserting
      <4>6. CASE my[t].pc = "add"
        <5>1. at[t] \in AddLabels /\ getting[t] = FALSE  BY <3>0, <4>3, <4>4, <4>6 DEF LabelAt
        <5>2. at'[t] \in AddLabels \cup {"out"} /\ getting'[t] = FALSE
          BY <4>1, <4>2, <5>1 DEF FreeMoves
        <5> QED BY <3>0, <4>2, <4>3, <4>6, <5>2 DEF LabelAt, Inserting
      <4> QED BY <4>4, <4>5, <4>6
    <3> QED BY <1>2, <3>2, <3>3, <3>4, <3>5, <3>6, <3>7, <3>8, <3>9, <3>10, <3>11, <3>12 DEF ThreadStep
  <2> QED BY <2>1, <2>2 DEF LabelInv
<1> QED BY <1>1, <1>2 DEF Next

-----------------------------------------------------------------------------
(* The block index of each sub-queue while threads enqueue and dequeue.    *)

\* The tail i is at the start of the last block that was begun, or behind it.
Starts(i, m) == i = (m - 1) * BlockSize
Within(i, m) == (m - 1) * BlockSize < i /\ i <= m * BlockSize

Inserter(p, t) == Inserting(t) /\ mine[t] = p
IndexAt(p, m, num, off) ==
    LET s == sub[p] IN
    /\ Indexed(s.entries, s.headers, m, num, off)
    /\ \A t \in Threads : Inserter(p, t) =>
         Begun(s.entries, s.headers, m, num, my[t].entry) /\ Starts(s.tailIndex, m)
    /\ (\A t \in Threads : ~Inserter(p, t)) => Within(s.tailIndex, m)

\* Every sub-queue has an index, whatever the numbers of its entries are.
IndexInv == \A p \in Producers : \E m, num, off : IndexAt(p, m, num, off)

\* An entry that has a block, and what stays of an index when it changes.
LiveIn(E, e, k, b) == e \in 1..Len(E) /\ E[e].key = k /\ E[e].value = b /\ b # Null
LiveAt(p, e, k, b) == LiveIn(sub[p].entries, e, k, b)
SameLive(E, F) == \A e, k, b : LiveIn(F, e, k, b) <=> LiveIn(E, e, k, b)
Grown(E, H, F, G) ==
    /\ 1..Len(E) \subseteq 1..Len(F)
    /\ \A e \in 1..Len(E) : E[e].key # NoKey => F[e].key # NoKey
    /\ 1..Len(H) \subseteq 1..Len(G)
    /\ \A j \in 1..Len(H) : G[j].index = H[j].index
SubGrows(p) == Grown(sub[p].entries, sub[p].headers, sub'[p].entries, sub'[p].headers)
SubLive(p) == SameLive(sub[p].entries, sub'[p].entries)

SubKept(p) == /\ sub'[p].entries = sub[p].entries /\ sub'[p].headers = sub[p].headers
              /\ sub'[p].tailIndex = sub[p].tailIndex /\ sub'[p].tailBlock = sub[p].tailBlock
InsertKept(u) == /\ Inserting(u)' <=> Inserting(u)
                 /\ Inserting(u) => my'[u].entry = my[u].entry /\ mine'[u] = mine[u]

LEMMA ApartInsert == ASSUME NEW u, Apart(u)  PROVE InsertKept(u)
BY DEF Apart, CallApart, TableApart, InsertKept, Inserting

LEMMA GrownSame == ASSUME NEW E, NEW H  PROVE Grown(E, H, E, H) /\ SameLive(E, E)
BY DEF Grown, SameLive

LEMMA IndexKept ==
    ASSUME NEW p, NEW m, NEW num, NEW off, IndexAt(p, m, num, off), SubKept(p),
           \A u \in Threads : Inserter(p, u)' \/ Inserter(p, u) => InsertKept(u)
    PROVE  IndexAt(p, m, num, off)' /\ SubGrows(p) /\ SubLive(p)
<1>1. \A u \in Threads : /\ Inserter(p, u)' => Inserter(p, u) /\ my'[u].entry = my[u].entry
                         /\ Inserter(p, u) => Inserter(p, u)'
  BY DEF InsertKept, Inserter
<1>2. IndexAt(p, m, num, off)'  BY <1>1 DEF IndexAt, SubKept
<1>3. SubGrows(p) /\ SubLive(p)  BY GrownSame DEF SubGrows, SubLive, SubKept
<1> QED BY <1>2, <1>3

\* The numbers of the elements of the block that was begun last.
LEMMA TailArith ==
    ASSUME NEW m \in Int, NEW i \in Nat
    PROVE  /\ Within(i, m) /\ i % BlockSize = 0 => i = m * BlockSize
           /\ Starts(i, m) => Within(i + 1, m) /\ Within(i, m - 1) /\ i % BlockSize = 0
           /\ Within(i, m) /\ i % BlockSize # 0 => Within(i + 1, m)
           /\ i = m * BlockSize => Starts(i, m + 1)
<1> DEFINE B == BlockSize
           x == (m - 1) * B
           y == m * B
           w == (m - 1 - 1) * B
<1>0. B \in Nat /\ B >= 2  BY QueueAssumption
<1>7. \E q, r \in Int : i = q * B + r /\ i % B = r /\ 0 <= r /\ r < B
  <2>1. i \in Int /\ B \in Nat \ {0}  BY <1>0
  <2>2. PICK q \in Int, r \in 0..(B-1) : q = i \div B /\ r = i % B /\ i = q * B + r
    BY <2>1, DivMod
  <2>3. r \in Int /\ 0 <= r /\ r < B  BY <1>0, <2>2
  <2> QED BY <2>2, <2>3
<1>1. x \in Int /\ y \in Int /\ y = x + B /\ w \in Int /\ w = x - B
  <2>1. m - 1 \in Int /\ (m - 1) - 1 \in Int  OBVIOUS
  <2>2. (m - 1) * B = m * B - B /\ m * B \in Int  BY Multiples
  <2>3. ((m - 1) - 1) * B = (m - 1) * B - B  BY <2>1, Multiples
  <2> QED BY <1>0, <2>2, <2>3
<1>2. Within(i, m) /\ i % B = 0 => i = y
  <2> SUFFICES ASSUME Within(i, m), i % B = 0  PROVE i = y  OBVIOUS
  <2>1. \E q, r \in Int : i = q * B + r /\ i % B = r /\ 0 <= r /\ r < B  BY <1>0, <1>7
  <2>2. PICK q \in Int : i = q * B  BY <1>0, <2>1
  <2>3. q * B <= m * B /\ (m - 1) * B < q * B  BY <2>2 DEF Within
  <2>4. ~(m < q) /\ ~(q < m)
    <3>1. ~(m < q)
      <4>1. m < q => m * B + B <= q * B  BY Multiples
      <4>2. q * B \in Int  BY Multiples
      <4> QED BY <1>0, <1>1, <2>3, <4>1, <4>2
    <3>2. ~(q < m)
      <4>1. q < m => q * B + B <= m * B  BY Multiples
      <4>2. q * B \in Int  BY Multiples
      <4> QED BY <1>0, <1>1, <2>3, <4>1, <4>2
    <3> QED BY <3>1, <3>2
  <2>5. q = m  BY <2>4
  <2> QED BY <2>2, <2>5
<1>3. Starts(i, m) => Within(i + 1, m) /\ Within(i, m - 1)
  <2>1. (Starts(i, m) <=> i = x) /\ (Within(i + 1, m) <=> x < i + 1 /\ i + 1 <= y)
        /\ (Within(i, m - 1) <=> w < i /\ i <= x)
    BY DEF Starts, Within
  <2> HIDE DEF x, y, w, B
  <2> QED BY <1>0, <1>1, <2>1
<1>4. Starts(i, m) => i % B = 0
  <2>1. (m - 1) * B \in Int /\ m - 1 \in Int  BY <1>1
  <2>2. \A q \in Int : q * B = i => i % B = 0
    <3> SUFFICES ASSUME NEW q \in Int, q * B = i  PROVE i % B = 0  OBVIOUS
    <3>1. PICK d, r \in Int : i = d * B + r /\ i % B = r /\ 0 <= r /\ r < B  BY <1>0, <1>7
    <3>2. (q - d) * B = r
      <4>1. (q - d) * B = q * B - d * B /\ d * B \in Int  BY Multiples
      <4> QED BY <3>1, <4>1
    <3>3. ~(q < d) /\ ~(d < q)
      <4>1. q < d => q * B + B <= d * B  BY Multiples
      <4>2. d < q => d * B + B <= q * B  BY Multiples
      <4>3. d * B \in Int /\ q * B \in Int  BY Multiples
      <4> QED BY <1>0, <3>1, <4>1, <4>2, <4>3
    <3>4. q = d  BY <3>3
    <3>5. d * B = i /\ d * B \in Int  BY <3>4, Multiples
    <3>6. i = d * B + r  BY <3>1
    <3> HIDE DEF B
    <3>7. r = 0  BY <3>5, <3>6
    <3> QED BY <3>1, <3>7
  <2> QED BY <2>1, <2>2 DEF Starts
<1>5. Within(i, m) /\ i % B # 0 => Within(i + 1, m)
  <2>1. m * B = i => i % B = 0
    <3>1. Starts(i, m + 1) <=> i = ((m + 1) - 1) * B  BY DEF Starts
    <3>2. (m + 1) - 1 = m  OBVIOUS
    <3> SUFFICES ASSUME m * B = i  PROVE i % B = 0  OBVIOUS
    <3>3. PICK d, r \in Int : i = d * B + r /\ i % B = r /\ 0 <= r /\ r < B  BY <1>0, <1>7
    <3>4. ~(m < d) /\ ~(d < m)
      <4>1. m < d => m * B + B <= d * B  BY Multiples
      <4>2. d < m => d * B + B <= m * B  BY Multiples
      <4>3. d * B \in Int /\ m * B \in Int  BY Multiples
      <4> QED BY <1>0, <3>3, <4>1, <4>2, <4>3
    <3>5. m = d  BY <3>4
    <3>6. d * B = i /\ d * B \in Int  BY <3>5, Multiples
    <3>7. i = d * B + r  BY <3>3
    <3> HIDE DEF B
    <3>8. r = 0  BY <3>6, <3>7
    <3> QED BY <3>3, <3>8
  <2>2. (Within(i + 1, m) <=> x < i + 1 /\ i + 1 <= y) /\ (Within(i, m) <=> x < i /\ i <= y)
    BY DEF Within
  <2>3. i % B # 0 => i # y  BY <2>1
  <2> HIDE DEF x, y
  <2> QED BY <1>1, <2>2, <2>3
<1>6. i = m * B => Starts(i, m + 1)
  <2>1. (m + 1) - 1 = m  OBVIOUS
  <2> QED BY <2>1 DEF Starts
<1> QED BY <1>2, <1>3, <1>4, <1>5, <1>6

\* Who inserts: nobody before and t afterwards, or the other way round.
LEMMA NoOther ==
    ASSUME TableInv, NEW t \in Threads, mine[t] # 0, NEW u \in Threads \ {t}
    PROVE  ~Inserter(mine[t], u)
BY DEF TableInv, MineInv, OneWriter, Inserter, Table!NoProducer

LEMMA NoOtherAfter ==
    ASSUME TableInv, NEW t \in Threads, NEW p, p = mine[t], p # 0, NEW u \in Threads \ {t}, InsertKept(u)
    PROVE  ~Inserter(p, u)'
<1>1. ~Inserter(p, u)  BY NoOther
<1> QED BY <1>1 DEF Inserter, InsertKept

\* insert_block_index_entry.
LEMMA BeginsIndex ==
    ASSUME NEW p, NEW m, NEW num, NEW off, IndexAt(p, m, num, off),
           NEW s, s = sub[p], NEW h, h = Header(p), NEW e, e = h.index[NextSlot(h)],
           s.entries[e].value = Null, s.tailIndex \in Nat, Within(s.tailIndex, m),
           s.tailIndex % BlockSize = 0,
           sub'[p].entries = KeySet(s.entries, e, s.tailIndex),
           sub'[p].headers = TailSet(s.headers, NextSlot(h)),
           sub'[p].tailIndex = s.tailIndex,
           NEW t \in Threads, Inserter(p, t)', my'[t].entry = e,
           \A u \in Threads \ {t} : ~Inserter(p, u)'
    PROVE  /\ \E new : IndexAt(p, m + 1, new, off)'
           /\ SubGrows(p) /\ SubLive(p)
<1> DEFINE E == s.entries
           H == s.headers
           i == s.tailIndex
           F == KeySet(E, e, i)
           G == TailSet(H, NextSlot(h))
           new == [num EXCEPT ![e] = m]
<1>1. Indexed(E, H, m, num, off) /\ h = H[Len(H)]  BY DEF IndexAt, Header
<1>2. m \in Int /\ m + 1 \in Int
  <2>1. Numbered(E, m, num)  BY <1>1 DEF Indexed
  <2> HIDE DEF E, H
  <2>2. m \in Int  BY <2>1, NumberedShape
  <2> QED BY <2>2
<1>3. i = m * BlockSize /\ Starts(i, m + 1)  BY <1>2, TailArith
<1>4. /\ Indexed(F, G, m + 1, new, off) /\ Begun(F, G, m + 1, new, e)
      /\ e \in 1..Len(E) /\ i \in Nat
  <2> HIDE DEF E, H, i
  <2>1. e = H[Len(H)].index[NextSlot(H[Len(H)])] /\ E[e].value = Null  BY <1>1 DEF E
  <2>2. h = H[Len(H)] /\ Indexed(E, H, m, num, off) /\ i = m * BlockSize  BY <1>1, <1>3
  <2> HIDE DEF F, G, new
  <2>3. LET new0 == [num EXCEPT ![e] = m]
            F0 == KeySet(E, e, i)
            G0 == TailSet(H, NextSlot(H[Len(H)]))
        IN  /\ Indexed(F0, G0, m + 1, new0, off) /\ Begun(F0, G0, m + 1, new0, e)
            /\ e \in 1..Len(E) /\ i \in Nat
    BY <2>1, <2>2, IndexedBegins
  <2> QED BY <2>2, <2>3 DEF F, G, new
<1>5. E \in Seq(Entry)  BY <1>1, NumberedShape DEF Indexed
<1>6. H \in Seq(AHeader) /\ Len(H) >= 1 /\ NextSlot(h) \in Nat
  <2>1. Headed(H, Len(E), m, num, off)  BY <1>1 DEF Indexed
  <2>2. NextSlot(h) \in 0..(Len(E)-1)  BY <1>1, TailNum
  <2> QED BY <2>1, <2>2 DEF Headed
<1>7. E[e].value = Null /\ sub'[p].entries = F /\ sub'[p].headers = G /\ sub'[p].tailIndex = i
      /\ sub[p].entries = E /\ sub[p].headers = H
  OBVIOUS
<1> HIDE DEF E, H, i, F, G, new
<1>8. /\ Len(F) = Len(E) /\ F[e].key = i /\ F[e].value = Null
      /\ \A f \in 1..Len(E) : f # e => F[f] = E[f]
  BY <1>4, <1>5, <1>7, KeyEdit DEF F
<1>9. Len(G) = Len(H) /\ \A j \in 1..Len(H) : G[j].index = H[j].index
  <2> DEFINE x == NextSlot(h)
  <2>1. x \in Nat /\ G = TailSet(H, x)  BY <1>6 DEF G
  <2> HIDE DEF x, G
  <2> QED BY <1>6, <2>1, TailEditIndexes
<1>10. i # NoKey
  <2>1. m * BlockSize # NoKey
    <3>1. ASSUME m * BlockSize = 1  PROVE FALSE
      <4>1. BlockSize \in Nat /\ BlockSize >= 2  BY QueueAssumption
      <4>2. 0 * BlockSize = 0  BY <4>1
      <4>3. 0 < m => 0 * BlockSize + BlockSize <= m * BlockSize  BY <1>2, Multiples
      <4>4. m < 0 => m * BlockSize + BlockSize <= 0 * BlockSize  BY <1>2, Multiples
      <4>5. m = 0 => m * BlockSize = 0  BY <4>2
      <4> QED BY <1>2, <3>1, <4>1, <4>2, <4>3, <4>4, <4>5
    <3> QED BY <3>1 DEF NoKey
  <2> QED BY <1>3, <2>1
<1>11. SameLive(E, F)  BY <1>4, <1>7, <1>8 DEF SameLive, LiveIn
<1>12. Grown(E, H, F, G)  BY <1>8, <1>9, <1>10 DEF Grown
<1>13. IndexAt(p, m + 1, new, off)'
  <2>1. \A u \in Threads : Inserter(p, u)' => my'[u].entry = e  OBVIOUS
  <2>2. ~ \A u \in Threads : ~Inserter(p, u)'  OBVIOUS
  <2> QED BY <1>3, <1>4, <1>7, <2>1, <2>2 DEF IndexAt, new, F, G
<1> QED BY <1>7, <1>11, <1>12, <1>13 DEF SubGrows, SubLive

\* new_block_index.
LEMMA DoublesIndex ==
    ASSUME NEW p, NEW m, NEW num, NEW off, IndexAt(p, m, num, off),
           NEW h, h = Header(p), sub[p].entries[h.index[NextSlot(h)]].value # Null,
           NEW n, n = Len(sub[p].entries),
           sub'[p].entries = sub[p].entries \o Unused(n),
           sub'[p].headers = Append(sub[p].headers, Bigger(h, n)),
           sub'[p].tailIndex = sub[p].tailIndex, Within(sub[p].tailIndex, m),
           \A u \in Threads : ~Inserter(p, u)'
    PROVE  /\ \E new, ofs : IndexAt(p, m, new, ofs)'
           /\ SubGrows(p) /\ SubLive(p)
<1> DEFINE E == sub[p].entries
           H == sub[p].headers
           F == E \o Unused(n)
           G == Append(H, Bigger(h, n))
<1>1. Indexed(E, H, m, num, off) /\ h = H[Len(H)]  BY DEF IndexAt, Header
<1>2. PICK new, ofs : Indexed(F, G, m, new, ofs)
  <2>1. n = Len(E) /\ E[H[Len(H)].index[NextSlot(H[Len(H)])]].value # Null  BY <1>1
  <2> HIDE DEF E, H
  <2> QED BY <1>1, <2>1, IndexedDoubles
<1>3. E \in Seq(Entry) /\ n \in Nat  BY <1>1, NumberedShape DEF Indexed
<1>4. /\ F \in Seq(Entry) /\ Len(F) = 2 * n
      /\ \A f \in 1..n : F[f] = E[f]
      /\ \A f \in (n+1)..(2*n) : F[f].key = NoKey /\ F[f].value = Null
  <2>1. n = Len(E)  OBVIOUS
  <2> HIDE DEF E
  <2> QED BY <1>3, <2>1, UnusedEntries
<1>5. H \in Seq(AHeader) /\ Len(H) >= 1 /\ Len(H) \in Nat
  <2> HIDE DEF E, H
  <2>1. H \in Seq(AHeader) /\ Len(H) >= 1  BY <1>1 DEF Indexed, Headed
  <2> QED BY <2>1
<1>6. Len(G) = Len(H) + 1 /\ \A j \in 1..Len(H) : G[j] = H[j]
  <2> DEFINE g == Bigger(h, n)
  <2> HIDE DEF g
  <2> QED BY <1>5
<1>7. sub'[p].entries = F /\ sub'[p].headers = G /\ sub[p].entries = E /\ sub[p].headers = H /\ n = Len(E)
  OBVIOUS
<1> HIDE DEF E, H, F, G
<1>8. SameLive(E, F)
  <2> SUFFICES ASSUME NEW e, NEW k, NEW b  PROVE LiveIn(F, e, k, b) <=> LiveIn(E, e, k, b)
    BY DEF SameLive
  <2>1. e \in 1..Len(F) => e \in 1..n \/ e \in (n+1)..(2*n)  BY <1>3, <1>4
  <2>2. e \in 1..n => e \in 1..Len(F)  BY <1>3, <1>4
  <2>3. LiveIn(F, e, k, b) => LiveIn(E, e, k, b)  BY <1>4, <1>7, <2>1 DEF LiveIn
  <2>4. LiveIn(E, e, k, b) => LiveIn(F, e, k, b)  BY <1>4, <1>7, <2>2 DEF LiveIn
  <2> QED BY <2>3, <2>4
<1>9. Grown(E, H, F, G)
  <2>1. 1..Len(E) \subseteq 1..Len(F) /\ 1..Len(H) \subseteq 1..Len(G)  BY <1>3, <1>4, <1>5, <1>6, <1>7
  <2> QED BY <1>4, <1>6, <1>7, <2>1 DEF Grown
<1>10. IndexAt(p, m, new, ofs)'  BY <1>2, <1>7 DEF IndexAt
<1> QED BY <1>7, <1>8, <1>9, <1>10 DEF SubGrows, SubLive

\* rewind_block_index_tail.
LEMMA GivesBackIndex ==
    ASSUME NEW p, NEW m, NEW num, NEW off, IndexAt(p, m, num, off),
           NEW t \in Threads, Inserter(p, t), NEW e, e = my[t].entry, sub[p].tailIndex \in Nat,
           NEW h, h = Header(p),
           NEW x, x = (h.tail + Size(h.index) - 1) % Size(h.index),
           sub'[p].entries = ValueSet(sub[p].entries, e, Null),
           sub'[p].headers = TailSet(sub[p].headers, x),
           sub'[p].tailIndex = sub[p].tailIndex,
           \A u \in Threads : ~Inserter(p, u)'
    PROVE  /\ \E new : IndexAt(p, m - 1, new, off)'
           /\ SubGrows(p) /\ SubLive(p)
<1> DEFINE E == sub[p].entries
           H == sub[p].headers
           F == ValueSet(E, e, Null)
           G == TailSet(H, x)
<1>1. Indexed(E, H, m, num, off) /\ h = H[Len(H)]  BY DEF IndexAt, Header
<1>2. m \in Int /\ E \in Seq(Entry)  BY <1>1, NumberedShape DEF Indexed
<1>3. Begun(E, H, m, num, e) /\ Starts(sub[p].tailIndex, m)  BY DEF IndexAt
<1>4. Within(sub[p].tailIndex, m - 1)  BY <1>2, <1>3, TailArith
<1>5. Size(h.index) = Len(E) /\ h.tail \in 0..(Len(E)-1) /\ Len(E) \in Nat
  <2> HIDE DEF E, H
  <2> QED BY <1>1, TailNum
<1>6. x = (H[Len(H)].tail + Len(E) - 1) % Len(E)  BY <1>1, <1>5
<1>7. e \in 1..Len(E) /\ E[e].value = Null  BY <1>3 DEF Begun
<1>8. PICK new : Indexed(F, G, m - 1, new, off)
  <2> HIDE DEF E, H
  <2> QED BY <1>1, <1>3, <1>6, IndexedGivesBack
<1>9. H \in Seq(AHeader) /\ Len(H) >= 1  BY <1>1 DEF Indexed, Headed
<1>10. x \in Nat
  <2> DEFINE n == Len(E)
             y == h.tail + n - 1
  <2>1. n \in Nat \ {0}  BY <1>5
  <2>2. y \in Int  BY <1>5
  <2>3. x = y % n  BY <1>5
  <2> HIDE DEF y, n
  <2> QED BY <2>1, <2>2, <2>3
<1>11. sub'[p].entries = F /\ sub'[p].headers = G /\ sub[p].entries = E /\ sub[p].headers = H
  OBVIOUS
<1> HIDE DEF E, H, F, G
<1>12. /\ Len(F) = Len(E) /\ F[e].key = E[e].key /\ F[e].value = Null
       /\ \A f \in 1..Len(E) : f # e => F[f] = E[f]
  <2>1. Null \in Blocks \cup {Null}  OBVIOUS
  <2> QED BY <1>2, <1>7, <2>1, ValueEdit DEF F
<1>13. Len(G) = Len(H) /\ \A j \in 1..Len(H) : G[j].index = H[j].index
  <2>1. G = TailSet(H, x)  BY DEF G
  <2>2. H \in Seq(AHeader) /\ Len(H) >= 1 /\ x \in Nat  BY <1>9, <1>10
  <2> HIDE DEF G
  <2> QED BY <2>1, <2>2, TailEditIndexes
<1>14. SameLive(E, F)  BY <1>7, <1>12 DEF SameLive, LiveIn
<1>15. Grown(E, H, F, G)  BY <1>12, <1>13 DEF Grown
<1>16. IndexAt(p, m - 1, new, off)'  BY <1>4, <1>8, <1>11 DEF IndexAt
<1> QED BY <1>11, <1>14, <1>15, <1>16 DEF SubGrows, SubLive

\* The block's first element is published.
LEMMA PutsFirstIndex ==
    ASSUME NEW p, NEW m, NEW num, NEW off, IndexAt(p, m, num, off),
           NEW t \in Threads, Inserter(p, t), NEW e, e = my[t].entry, sub[p].tailIndex \in Nat,
           NEW b \in Blocks,
           sub'[p].entries = ValueSet(sub[p].entries, e, b),
           sub'[p].headers = sub[p].headers,
           sub'[p].tailIndex = sub[p].tailIndex + 1,
           \A u \in Threads : ~Inserter(p, u)'
    PROVE  /\ IndexAt(p, m, num, off)'
           /\ SubGrows(p)
           /\ e \in 1..Len(sub[p].entries) /\ sub[p].entries[e].key = sub[p].tailIndex
           /\ sub[p].entries[e].value = Null
           /\ \A f, k, c : LiveAt(p, f, k, c)' <=>
                LiveAt(p, f, k, c) \/ (f = e /\ k = sub[p].tailIndex /\ c = b)
           /\ sub[p].tailIndex % BlockSize = 0
<1> DEFINE E == sub[p].entries
           H == sub[p].headers
           i == sub[p].tailIndex
           F == ValueSet(E, e, b)
<1>1. Indexed(E, H, m, num, off)  BY DEF IndexAt
<1>2. m \in Int /\ E \in Seq(Entry)  BY <1>1, NumberedShape DEF Indexed
<1>3. Begun(E, H, m, num, e) /\ Starts(i, m)  BY DEF IndexAt
<1>4. Within(i + 1, m) /\ i % BlockSize = 0  BY <1>2, <1>3, TailArith
<1>5. e \in 1..Len(E) /\ E[e].value = Null /\ E[e].key = i  BY <1>3 DEF Begun, Starts
<1>6. num[e] = m - 1  BY <1>1, <1>3, BegunNum
<1>7. E[e].key = num[e] * BlockSize  BY <1>3, <1>5, <1>6 DEF Starts
<1>8. Indexed(F, H, m, num, off)
  <2> HIDE DEF E, H
  <2>1. b \in Blocks \cup {Null}  OBVIOUS
  <2> QED BY <1>1, <1>5, <1>7, <2>1, IndexedValue
<1>9. sub'[p].entries = F /\ sub'[p].headers = H /\ sub[p].entries = E /\ sub[p].headers = H
      /\ sub'[p].tailIndex = i + 1 /\ sub[p].tailIndex = i
  OBVIOUS
<1> HIDE DEF E, H, F, i
<1>10. /\ Len(F) = Len(E) /\ F[e].key = E[e].key /\ F[e].value = b
       /\ \A f \in 1..Len(E) : f # e => F[f] = E[f]
  <2>1. b \in Blocks \cup {Null}  OBVIOUS
  <2> QED BY <1>2, <1>5, <2>1, ValueEdit DEF F
<1>11. Grown(E, H, F, H)  BY <1>10 DEF Grown
<1>12. b # Null
  <2>1. Null \notin Blocks  BY QueueAssumption DEF Blocks, Pool, Heap
  <2> QED BY <2>1
<1>13. \A f, k, c : LiveIn(F, f, k, c) <=> LiveIn(E, f, k, c) \/ (f = e /\ k = i /\ c = b)
  BY <1>5, <1>10, <1>12 DEF LiveIn
<1>14. \A f, k, c : LiveAt(p, f, k, c)' <=> LiveAt(p, f, k, c) \/ (f = e /\ k = i /\ c = b)
  BY <1>9, <1>13 DEF LiveAt
<1>15. IndexAt(p, m, num, off)'  BY <1>4, <1>8, <1>9 DEF IndexAt
<1> QED BY <1>4, <1>5, <1>9, <1>11, <1>14, <1>15 DEF SubGrows

\* The emptied block leaves its entry.
LEMMA UnlinksIndex ==
    ASSUME NEW p, NEW m, NEW num, NEW off, IndexAt(p, m, num, off),
           NEW e \in 1..Len(sub[p].entries),
           sub'[p].entries = ValueSet(sub[p].entries, e, Null),
           sub'[p].headers = sub[p].headers,
           sub'[p].tailIndex = sub[p].tailIndex,
           \A u \in Threads : Inserter(p, u)' \/ Inserter(p, u) => InsertKept(u)
    PROVE  /\ IndexAt(p, m, num, off)'
           /\ SubGrows(p)
           /\ \A f, k, c : LiveAt(p, f, k, c)' <=> LiveAt(p, f, k, c) /\ f # e
<1> DEFINE E == sub[p].entries
           H == sub[p].headers
           F == ValueSet(E, e, Null)
<1>1. Indexed(E, H, m, num, off)  BY DEF IndexAt
<1>2. E \in Seq(Entry) /\ e \in 1..Len(E)  BY <1>1, NumberedShape DEF Indexed
<1>3. Indexed(F, H, m, num, off)
  <2> HIDE DEF E, H
  <2>1. Null \in Blocks \cup {Null}  OBVIOUS
  <2> QED BY <1>1, <1>2, <2>1, IndexedValue
<1>4. \A u \in Threads : /\ Inserter(p, u)' => Inserter(p, u) /\ my'[u].entry = my[u].entry
                         /\ Inserter(p, u) => Inserter(p, u)'
  BY DEF InsertKept, Inserter
<1>5. ASSUME NEW u \in Threads, Inserter(p, u)
      PROVE  Begun(F, H, m, num, my[u].entry) /\ Starts(sub[p].tailIndex, m)
  <2>1. Begun(E, H, m, num, my[u].entry) /\ Starts(sub[p].tailIndex, m)  BY <1>5 DEF IndexAt
  <2> HIDE DEF E, H
  <2> QED BY <1>2, <2>1, BegunValue
<1>6. (\A u \in Threads : ~Inserter(p, u)) => Within(sub[p].tailIndex, m)  BY DEF IndexAt
<1>7. sub'[p].entries = F /\ sub'[p].headers = H /\ sub[p].entries = E /\ sub[p].headers = H
      /\ sub'[p].tailIndex = sub[p].tailIndex
  OBVIOUS
<1> HIDE DEF E, H, F
<1>8. IndexAt(p, m, num, off)'  BY <1>3, <1>4, <1>5, <1>6, <1>7 DEF IndexAt
<1>9. /\ Len(F) = Len(E) /\ F[e].key = E[e].key /\ F[e].value = Null
      /\ \A f \in 1..Len(E) : f # e => F[f] = E[f]
  <2>1. Null \in Blocks \cup {Null}  OBVIOUS
  <2> QED BY <1>2, <2>1, ValueEdit DEF F
<1>10. Grown(E, H, F, H)  BY <1>9 DEF Grown
<1>11. \A f, k, c : LiveIn(F, f, k, c) <=> LiveIn(E, f, k, c) /\ f # e
  BY <1>9 DEF LiveIn
<1>12. \A f, k, c : LiveAt(p, f, k, c)' <=> LiveAt(p, f, k, c) /\ f # e
  BY <1>7, <1>11 DEF LiveAt
<1> QED BY <1>7, <1>8, <1>10, <1>12 DEF SubGrows

\* What is put and what is unlinked.
PutBlocks == \A t \in Threads : my[t].pc = "put" => my[t].block \in Blocks
Unlinks == \A t \in Threads : my[t].pc = "unlink" =>
             \E k : LiveAt(my[t].p, my[t].entry, k, my[t].block)

\* The fields of a sub-queue after an edit.
LEMMA SubShape ==
    ASSUME NEW s, SubOK(s)
    PROVE  s = [tailIndex |-> s.tailIndex, headIndex |-> s.headIndex, optimistic |-> s.optimistic,
                overcommit |-> s.overcommit, tailBlock |-> s.tailBlock, entries |-> s.entries,
                headers |-> s.headers]
BY DEF SubOK

LEMMA SubEdit ==
    ASSUME QueueTypes, NEW p, NEW s, sub' = [sub EXCEPT ![p] = s]
    PROVE  /\ p \in Producers => sub'[p] = s
           /\ \A q \in Producers : q # p => sub'[q] = sub[q]
BY DEF QueueTypes

LEMMA SubSame == ASSUME NEW p, sub'[p] = sub[p]  PROVE SubKept(p) /\ sub'[p].headIndex = sub[p].headIndex
BY DEF SubKept

\* Steps that edit no block index and leave the tails.
EditsIndex(t) == InsertEntry(t) \/ TakeBlock(t) \/ PutFirst(t) \/ Put(t) \/ Unlink(t)
LEMMA QuietIndex ==
    ASSUME TableInv, QueueTypes, ClaimInv, LabelInv, NEW t \in Threads, ThreadStep(t), ~EditsIndex(t)
    PROVE  /\ \A p \in Producers : SubKept(p)
           /\ InsertKept(t)
<1>t. TableTypes  BY DEF TableInv
<1>0. CallOK(my[t]) /\ LabelAt(t)  BY DEF QueueTypes, LabelInv
<1>1. CASE CallEnqueue(t)
  <2>1. sub' = sub /\ my[t].pc = "out" /\ Go(t, "lookup")  BY <1>1 DEF CallEnqueue
  <2>2. my'[t].pc = "lookup"  BY <2>1, GoOK
  <2> QED BY <2>1, <2>2, SubSame DEF InsertKept, Inserting
<1>2. CASE FailEnqueue(t)
  <2>1. sub' = sub /\ my[t].pc = "lookup" /\ Set(t, Idle)  BY <1>2 DEF FailEnqueue, Finish
  <2>2. my'[t].pc = "out"  BY <2>1, SetOK, IdleOK DEF Idle
  <2> QED BY <2>1, <2>2, SubSame DEF InsertKept, Inserting
<1>3. CASE TakeFromPool(t)
  <2> DEFINE r == [my[t] EXCEPT !.pc = "put", !.block = poolIndex + 1]
             g == [my[t] EXCEPT !.pc = "get"]
  <2>1. sub' = sub /\ my[t].pc = "pool" /\ mine' = mine  BY <1>3 DEF TakeFromPool, tableVars
  <2>2. (my' = [my EXCEPT ![t] = r]) \/ (my' = [my EXCEPT ![t] = g])  BY <1>3 DEF TakeFromPool, Set, Go
  <2>3. my'[t] \in {r, g}  BY <2>2 DEF QueueTypes
  <2>4. r.pc = "put" /\ r.entry = my[t].entry /\ g.pc = "get" /\ g.entry = my[t].entry
    <3> DEFINE c == my[t]
    <3>1. CallOK(c)  BY <1>0
    <3> HIDE DEF c
    <3>2. c = [pc |-> c.pc, p |-> c.p, i |-> c.i, over |-> c.over, tail |-> c.tail,
                best |-> c.best, size |-> c.size, found |-> c.found, entry |-> c.entry,
                block |-> c.block, header |-> c.header, alone |-> c.alone, had |-> c.had]
      BY <3>1, CallShape
    <3>3. /\ [c EXCEPT !.pc = "put", !.block = poolIndex + 1].pc = "put"
          /\ [c EXCEPT !.pc = "put", !.block = poolIndex + 1].entry = c.entry
          /\ [c EXCEPT !.pc = "get"].pc = "get" /\ [c EXCEPT !.pc = "get"].entry = c.entry
      BY <3>2
    <3> QED BY <3>3 DEF c
  <2> HIDE DEF r, g
  <2> QED BY <2>1, <2>3, <2>4, SubSame DEF InsertKept, Inserting
<1>4. CASE CallDequeue(t)
  <2>1. sub' = sub /\ my[t].pc = "out" /\ my'[t].pc = "score"
    BY <1>t, <1>4, CallDequeueHas DEF CallDequeueEffect
  <2> QED BY <2>1, SubSame DEF InsertKept, Inserting
<1>5. CASE DequeueStep(t) /\ ~Unlink(t)
  <2>1. my'[t].pc \in Walking \cup {"out"}  BY <1>5, PcAfter
  <2>2. my[t].pc \in Walking
    BY <1>5 DEF DequeueStep, Taking, Score, LoadOver, TestOptimistic, Claim, Check, Excess, TakeIndex,
                FindIndex, FindEntry, Move, EndDequeue, Walking
  <2>3. InsertKept(t)  BY <2>1, <2>2 DEF InsertKept, Inserting, Walking
  <2>4. \A p \in Producers : SubKept(p)
    <3> DEFINE p == my[t].p
    <3>0. p \in Producers  BY <1>t, <2>2, WalkerAt
    <3>1. CASE sub' = sub  BY <3>1, SubSame
    <3>2. ASSUME NEW s, sub' = [sub EXCEPT ![p] = s], s.entries = sub[p].entries,
                 s.headers = sub[p].headers, s.tailIndex = sub[p].tailIndex,
                 s.tailBlock = sub[p].tailBlock
          PROVE  \A q \in Producers : SubKept(q)
      <4>1. sub'[p] = s /\ \A q \in Producers : q # p => sub'[q] = sub[q]  BY <3>0, <3>2, SubEdit
      <4>2. SubKept(p)  BY <3>2, <4>1 DEF SubKept
      <4> QED BY <4>1, <4>2, SubSame
    <3>3. SubOK(sub[p])  BY <3>0 DEF QueueTypes
    <3>4. CASE Claim(t)
      <4> DEFINE s == [sub[p] EXCEPT !.optimistic = sub[p].optimistic + 1]
      <4>1. sub' = [sub EXCEPT ![p] = s]  BY <3>4 DEF Claim
      <4>2. /\ s.entries = sub[p].entries /\ s.headers = sub[p].headers
            /\ s.tailIndex = sub[p].tailIndex /\ s.tailBlock = sub[p].tailBlock
        BY <3>3, SubShape
      <4> HIDE DEF s
      <4> QED BY <3>2, <4>1, <4>2
    <3>5. CASE Excess(t)
      <4> DEFINE s == [sub[p] EXCEPT !.overcommit = sub[p].overcommit + 1]
      <4>1. sub' = [sub EXCEPT ![p] = s]  BY <3>5 DEF Excess
      <4>2. /\ s.entries = sub[p].entries /\ s.headers = sub[p].headers
            /\ s.tailIndex = sub[p].tailIndex /\ s.tailBlock = sub[p].tailBlock
        BY <3>3, SubShape
      <4> HIDE DEF s
      <4> QED BY <3>2, <4>1, <4>2
    <3>6. CASE TakeIndex(t)
      <4> DEFINE s == [sub[p] EXCEPT !.headIndex = sub[p].headIndex + 1]
      <4>1. sub' = [sub EXCEPT ![p] = s]  BY <3>6 DEF TakeIndex
      <4>2. /\ s.entries = sub[p].entries /\ s.headers = sub[p].headers
            /\ s.tailIndex = sub[p].tailIndex /\ s.tailBlock = sub[p].tailBlock
        BY <3>3, SubShape
      <4> HIDE DEF s
      <4> QED BY <3>2, <4>1, <4>2
    <3>7. sub' = sub \/ Claim(t) \/ Excess(t) \/ TakeIndex(t)
      BY <1>5 DEF DequeueStep, Taking, Score, LoadOver, TestOptimistic, Check,
                FindIndex, FindEntry, Move, EndDequeue
    <3> QED BY <3>1, <3>4, <3>5, <3>6, <3>7
  <2> QED BY <2>3, <2>4
<1>6. CASE ThreadExit(t)
  <2>1. sub' = sub /\ my' = my /\ my[t].pc = "out"  BY <1>6 DEF ThreadExit
  <2> QED BY <2>1, SubSame DEF InsertKept, Inserting
<1>7. CASE TableStep(t)
  <2>1. sub' = sub /\ my' = my  BY <1>7 DEF TableStep
  <2>2. step[t] # "out"
    BY <1>7 DEF TableStep, Table!Step, Table!Search, Table!Count, Table!TakeFlag, Table!Resize,
            Table!ClearFlag, Table!FailResize, Table!Wait, Table!Recycle, Table!EnterNew,
            Table!Remove, Table!Retire
  <2>3. ~Inserting(t)  BY <1>0, <2>2 DEF LabelAt
  <2> QED BY <2>1, <2>3, SubSame DEF InsertKept, Inserting
<1>8. CASE FreeStep(t)
  <2>1. sub' = sub /\ my' = my /\ mine' = mine  BY <1>8 DEF FreeStep, tableVars
  <2> QED BY <2>1, SubSame DEF InsertKept, Inserting
<1> QED BY <1>1, <1>2, <1>3, <1>4, <1>5, <1>6, <1>7, <1>8 DEF ThreadStep, EditsIndex, DequeueStep, Taking

\* What a step does to the blocks that the indexes name.
OnlyPuts(t) ==
    /\ \A q \in Producers : q # mine[t] => SubLive(q)
    /\ \A f, k, c : LiveIn(sub'[mine[t]].entries, f, k, c) <=>
         LiveAt(mine[t], f, k, c)
           \/ (f = my[t].entry /\ k = sub[mine[t]].tailIndex /\ c = my[t].block)
OnlyUnlinks(t) ==
    /\ \A q \in Producers : q # my[t].p => SubLive(q)
    /\ \A f, k, c : LiveIn(sub'[my[t].p].entries, f, k, c) <=>
         LiveAt(my[t].p, f, k, c) /\ f # my[t].entry
IndexStep(t) ==
    /\ IndexInv'
    /\ \A p \in Producers : SubGrows(p)
    /\ PutFirst(t) => OnlyPuts(t)
    /\ Unlink(t) => OnlyUnlinks(t)
    /\ ~PutFirst(t) /\ ~Unlink(t) => \A p \in Producers : SubLive(p)

\* A sub-queue that is not edited keeps its index.
LEMMA KeptIndex ==
    ASSUME IndexInv, NEW q \in Producers, SubKept(q),
           \A u \in Threads : Inserter(q, u)' \/ Inserter(q, u) => InsertKept(u)
    PROVE  (\E m, num, off : IndexAt(q, m, num, off))' /\ SubGrows(q) /\ SubLive(q)
<1>1. PICK m, num, off : IndexAt(q, m, num, off)  BY DEF IndexInv
<1>2. IndexAt(q, m, num, off)' /\ SubGrows(q) /\ SubLive(q)  BY <1>1, IndexKept
<1> QED BY <1>2

\* A step of t that changes the index of one sub-queue, its own.
LEMMA OneIndex ==
    ASSUME IndexInv, NEW t \in Threads, NEW p, p = mine[t], mine' = mine, ~InsertKept(t) \/ InsertKept(t),
           \A u \in Threads \ {t} : InsertKept(u),
           NEW q \in Producers, q # p, SubKept(q)
    PROVE  (\E m, num, off : IndexAt(q, m, num, off))' /\ SubGrows(q) /\ SubLive(q)
<1>1. \A u \in Threads : Inserter(q, u)' \/ Inserter(q, u) => InsertKept(u)
  BY DEF Inserter
<1> QED BY <1>1, KeptIndex

\* The edits that the steps of an enqueue and of an unlinking make.
LEMMA WithEntryFields ==
    ASSUME NEW s, SubOK(s), NEW e, NEW i, NEW r, r = WithEntry(s, e, i)
    PROVE  /\ r.entries = KeySet(s.entries, e, i)
           /\ r.headers = TailSet(s.headers, NextSlot(s.headers[Len(s.headers)]))
           /\ r.tailIndex = s.tailIndex /\ r.tailBlock = s.tailBlock
BY SubShape DEF WithEntry, KeySet, TailSet

LastOf(s, h, n) == h = s.headers[Len(s.headers)] /\ n = Len(s.entries) /\ n = Size(h.index)
DoubledTo(r, s, h, n) ==
    /\ r.entries = s.entries \o Unused(n)
    /\ r.headers = Append(s.headers, Bigger(h, n))
    /\ r.tailIndex = s.tailIndex /\ r.tailBlock = s.tailBlock
LEMMA DoubledFields ==
    ASSUME NEW s, SubOK(s), NEW h, NEW n, LastOf(s, h, n)
    PROVE  DoubledTo(Doubled(s), s, h, n)
<1> DEFINE H == s.headers
           E == s.entries
           x == E \o [e \in 1..Size(h.index) |-> [key |-> NoKey, value |-> Null]]
           y == Append(H, [tail |-> Size(h.index) - 1,
                   index |-> [i \in 0..(2*Size(h.index)-1) |->
                                IF i < Size(h.index) THEN h.index[(h.tail + 1 + i) % Size(h.index)]
                                ELSE Len(E) + 1 + i - Size(h.index)]])
<1>1. Doubled(s) = [s EXCEPT !.entries = x, !.headers = y]  BY DEF Doubled, LastOf
<1>2. x = E \o Unused(n)  BY DEF Unused, LastOf
<1>3. y = Append(H, Bigger(h, n))  BY DEF Bigger, LastOf
<1> HIDE DEF x, y
<1> DEFINE r == Doubled(s)
<1>4. r.entries = x /\ r.headers = y /\ r.tailIndex = s.tailIndex /\ r.tailBlock = s.tailBlock
  BY <1>1, SubShape
<1> HIDE DEF r
<1> QED BY <1>2, <1>3, <1>4 DEF DoubledTo, r

LEMMA RewoundFields ==
    ASSUME NEW s, SubOK(s), NEW e, NEW r, r = Rewound(s, e), NEW h, h = s.headers[Len(s.headers)],
           NEW x, x = (h.tail + Size(h.index) - 1) % Size(h.index)
    PROVE  /\ r.entries = ValueSet(s.entries, e, Null)
           /\ r.headers = TailSet(s.headers, x)
           /\ r.tailIndex = s.tailIndex /\ r.tailBlock = s.tailBlock
BY SubShape DEF Rewound, ValueSet, TailSet

NamedIn(s, e, b) == [s EXCEPT !.entries[e].value = b]
LEMMA NamedFields ==
    ASSUME NEW s, SubOK(s), NEW e, NEW b, NEW r, r = NamedIn(s, e, b)
    PROVE  /\ r.entries = ValueSet(s.entries, e, b) /\ r.headers = s.headers
           /\ r.tailIndex = s.tailIndex /\ r.tailBlock = s.tailBlock /\ r.headIndex = s.headIndex
BY SubShape DEF ValueSet, NamedIn

LEMMA PutFields ==
    ASSUME NEW s, SubOK(s), NEW r, r = [s EXCEPT !.tailIndex = s.tailIndex + 1]
    PROVE  /\ r.entries = s.entries /\ r.headers = s.headers
           /\ r.tailIndex = s.tailIndex + 1 /\ r.tailBlock = s.tailBlock /\ r.headIndex = s.headIndex
BY SubShape

FirstIn(s, e, b) == [s EXCEPT !.entries[e].value = b, !.tailBlock = b, !.tailIndex = s.tailIndex + 1]
LEMMA PutFirstFields ==
    ASSUME NEW s, SubOK(s), NEW e, NEW b, NEW r, r = FirstIn(s, e, b)
    PROVE  /\ r.entries = ValueSet(s.entries, e, b) /\ r.headers = s.headers
           /\ r.tailIndex = s.tailIndex + 1 /\ r.tailBlock = b /\ r.headIndex = s.headIndex
BY SubShape DEF ValueSet, FirstIn

\* A block's first number is not NoKey.
LEMMA KeyNoKey == ASSUME NEW k \in Int  PROVE k * BlockSize # NoKey
<1>1. ASSUME k * BlockSize = 1  PROVE FALSE
  <2>1. BlockSize \in Nat /\ BlockSize >= 2  BY QueueAssumption
  <2>2. 0 * BlockSize = 0  BY <2>1
  <2>3. 0 < k => 0 * BlockSize + BlockSize <= k * BlockSize  BY Multiples
  <2>4. k < 0 => k * BlockSize + BlockSize <= 0 * BlockSize  BY Multiples
  <2>5. k = 0 => k * BlockSize = 0  BY <2>2
  <2> QED BY <1>1, <2>1, <2>2, <2>3, <2>4, <2>5
<1> QED BY <1>1 DEF NoKey

\* An entry that has no key has no block.
LEMMA UnusedLacks ==
    ASSUME NEW E, NEW H, NEW m, NEW num, NEW off, Indexed(E, H, m, num, off),
           NEW e \in 1..Len(E), E[e].key = NoKey
    PROVE  E[e].value = Null
<1>1. Numbered(E, m, num)  BY DEF Indexed
<1>2. KeyOK(E[e], num[e], m, Len(E)) /\ num[e] \in Int  BY <1>1, NumberedShape
<1>3. num[e] * BlockSize # NoKey  BY <1>2, KeyNoKey
<1> QED BY <1>2, <1>3 DEF KeyOK

\* One sub-queue's index is as it should be after a step of its own thread, and
\* nothing changes in the others: that is all of IndexInv'.
LEMMA IndexAll ==
    ASSUME IndexInv, NEW t \in Threads, NEW p \in Producers, p = mine[t], mine' = mine,
           \A u \in Threads \ {t} : InsertKept(u),
           \A q \in Producers : q # p => SubKept(q),
           (\E m, num, off : IndexAt(p, m, num, off))', SubGrows(p)
    PROVE  /\ IndexInv'
           /\ \A q \in Producers : SubGrows(q)
           /\ \A q \in Producers : q # p => SubLive(q)
<1>1. \A q \in Producers : q # p => (\E m, num, off : IndexAt(q, m, num, off))' /\ SubGrows(q) /\ SubLive(q)
  BY OneIndex
<1> QED BY <1>1 DEF IndexInv

LEMMA OwnSub ==
    ASSUME TableInv, QueueTypes, NEW t \in Threads, mine[t] # 0
    PROVE  mine[t] \in Producers /\ SubOK(sub[mine[t]])
BY QueueAssumption DEF TableInv, TableTypes, QueueTypes

\* insert_block_index_entry takes the next entry, if need be in an index that it
\* has doubled.
LEMMA InsertIndex ==
    ASSUME TableInv, QueueTypes, ClaimInv, FreeShape, LabelInv, IndexInv, NEW t \in Threads, InsertEntry(t)
    PROVE  IndexStep(t)
<1>1. PICK p : p = mine[t]  OBVIOUS
<1>2. /\ my[t].pc = "lookup" /\ p # 0 /\ mine' = mine /\ sub[p].tailIndex % BlockSize = 0
      /\ ThreadStep(t)
  BY <1>1 DEF InsertEntry, StartsBlock, Table!NoProducer, tableVars, ThreadStep
<1>3. p \in Producers /\ SubOK(sub[p]) /\ sub[p].tailIndex \in Nat  BY <1>1, <1>2, OwnSub, SubFields
<1>4. \A u \in Threads \ {t} : InsertKept(u)
  BY <1>2, OthersApart, ApartInsert
<1>5. \A u \in Threads \ {t} : ~Inserter(p, u) /\ ~Inserter(p, u)'
  BY <1>1, <1>2, <1>4, NoOther, NoOtherAfter
<1>6. ~Inserter(p, t)  BY <1>2 DEF Inserter, Inserting
<1>7. PICK m, num, off : IndexAt(p, m, num, off)  BY <1>3 DEF IndexInv
<1>8. Indexed(sub[p].entries, sub[p].headers, m, num, off) /\ Within(sub[p].tailIndex, m)
  BY <1>5, <1>6, <1>7 DEF IndexAt
<1>9. PICK h : h = Header(p)  OBVIOUS
<1>10. PICK e : e = h.index[NextSlot(h)]  OBVIOUS
<1>11. PICK n : n = Len(sub[p].entries)  OBVIOUS
<1>12. n = Size(h.index) /\ h = sub[p].headers[Len(sub[p].headers)]
  BY <1>8, <1>9, <1>11, TailNum DEF Header
<1>13. NextSlot(h) \in 0..(n-1) /\ e \in 1..n
  <2> DEFINE E == sub[p].entries
             H == sub[p].headers
             g == H[Len(H)]
  <2>1. Indexed(E, H, m, num, off) /\ n = Len(E) /\ h = g  BY <1>8, <1>11, <1>12
  <2> HIDE DEF E, H, g
  <2>2. LET k == Len(E)
            f == H[Len(H)]
        IN  f.index \in [0..(k-1) -> 1..k] /\ NextSlot(f) \in 0..(k-1)
    BY <2>1, TailNum
  <2>3. h.index \in [0..(n-1) -> 1..n] /\ NextSlot(h) \in 0..(n-1)  BY <2>1, <2>2 DEF g
  <2> QED BY <1>10, <2>3
<1>14. ~PutFirst(t) /\ ~Unlink(t)  BY <1>2 DEF PutFirst, Unlink
<1>15. CASE /\ sub[p].entries[e].key = NoKey \/ sub[p].entries[e].value = Null
            /\ sub' = [sub EXCEPT ![p] = WithEntry(@, e, sub[p].tailIndex)]
            /\ Set(t, [Idle EXCEPT !.pc = "pool", !.entry = e])
  <2>1. PICK s : s = WithEntry(sub[p], e, sub[p].tailIndex)  OBVIOUS
  <2>2. sub' = [sub EXCEPT ![p] = s]  BY <1>15, <2>1
  <2>3. sub'[p] = s /\ \A q \in Producers : q # p => sub'[q] = sub[q]  BY <1>3, <2>2, SubEdit
  <2>4. /\ sub'[p].entries = KeySet(sub[p].entries, e, sub[p].tailIndex)
        /\ sub'[p].headers = TailSet(sub[p].headers, NextSlot(h))
        /\ sub'[p].tailIndex = sub[p].tailIndex
    BY <1>3, <1>12, <2>1, <2>3, WithEntryFields
  <2>5. sub[p].entries[e].value = Null
    <3>1. sub[p].entries[e].key = NoKey => sub[p].entries[e].value = Null
      BY <1>8, <1>11, <1>13, UnusedLacks
    <3> QED BY <1>15, <3>1
  <2>6. my'[t].pc = "pool" /\ my'[t].entry = e
    <3> DEFINE r == [Idle EXCEPT !.pc = "pool", !.entry = e]
    <3>1. my' = [my EXCEPT ![t] = r]  BY <1>15 DEF Set
    <3>2. r.pc = "pool" /\ r.entry = e  BY DEF Idle
    <3> HIDE DEF r
    <3>3. my'[t] = r  BY <3>1, MyAt
    <3> QED BY <3>2, <3>3
  <2>7. Inserter(p, t)'  BY <1>1, <1>2, <2>6 DEF Inserter, Inserting
  <2>8. (\E new : IndexAt(p, m + 1, new, off)') /\ SubGrows(p) /\ SubLive(p)
    <3>1. PICK s0 : s0 = sub[p]  OBVIOUS
    <3> QED BY <1>2, <1>3, <1>5, <1>7, <1>8, <1>9, <1>10, <2>4, <2>5, <2>6, <2>7, <3>1, BeginsIndex
  <2>9. (\E x, new, ofs : IndexAt(p, x, new, ofs))'  BY <2>8
  <2>10. \A q \in Producers : q # p => SubKept(q)  BY <2>3, SubSame
  <2>11. IndexInv' /\ \A q \in Producers : SubGrows(q) /\ SubLive(q)
    BY <1>1, <1>2, <1>3, <1>4, <2>8, <2>9, <2>10, IndexAll
  <2> QED BY <1>14, <2>11 DEF IndexStep
<1>16. CASE /\ ~(sub[p].entries[e].key = NoKey \/ sub[p].entries[e].value = Null)
            /\ sub' = [sub EXCEPT ![p] = Doubled(@)] /\ UNCHANGED my
  <2>1. PICK s : s = Doubled(sub[p])  OBVIOUS
  <2>2. sub' = [sub EXCEPT ![p] = s]  BY <1>16, <2>1
  <2>3. sub'[p] = s /\ \A q \in Producers : q # p => sub'[q] = sub[q]  BY <1>3, <2>2, SubEdit
  <2>4. /\ sub'[p].entries = sub[p].entries \o Unused(n)
        /\ sub'[p].headers = Append(sub[p].headers, Bigger(h, n))
        /\ sub'[p].tailIndex = sub[p].tailIndex
    <3>1. PICK g : g = sub[p] /\ SubOK(g)  BY <1>3
    <3>2. g.headers = sub[p].headers /\ g.entries = sub[p].entries /\ g.tailIndex = sub[p].tailIndex
      BY <3>1
    <3>3. LastOf(g, h, n)  BY <1>11, <1>12, <3>1 DEF LastOf
    <3>4. DoubledTo(Doubled(g), g, h, n)  BY <3>1, <3>3, DoubledFields
    <3> QED BY <2>1, <2>3, <3>1, <3>2, <3>4 DEF DoubledTo
  <2>5. \A u \in Threads : ~Inserter(p, u)'
    <3>1. ~Inserter(p, t)'  BY <1>2, <1>16 DEF Inserter, Inserting
    <3> QED BY <1>5, <3>1
  <2>6. sub[p].entries[h.index[NextSlot(h)]].value # Null  BY <1>10, <1>16
  <2>7. (\E new, ofs : IndexAt(p, m, new, ofs)') /\ SubGrows(p) /\ SubLive(p)
    BY <1>7, <1>8, <1>9, <1>11, <2>4, <2>5, <2>6, DoublesIndex
  <2>9. (\E x, new, ofs : IndexAt(p, x, new, ofs))'  BY <2>7
  <2>10. \A q \in Producers : q # p => SubKept(q)  BY <2>3, SubSame
  <2>11. IndexInv' /\ \A q \in Producers : SubGrows(q) /\ SubLive(q)
    BY <1>1, <1>2, <1>3, <1>4, <2>7, <2>9, <2>10, IndexAll
  <2> QED BY <1>14, <2>11 DEF IndexStep
<1>17. CASE Finish(t) /\ UNCHANGED sub
  <2>1. my'[t].pc = "out"  BY <1>17, SetOK, IdleOK DEF Finish, Idle
  <2>2. InsertKept(t)  BY <1>2, <2>1 DEF InsertKept, Inserting
  <2>3. \A q \in Producers : SubKept(q)  BY <1>17, SubSame
  <2>4. \A u \in Threads : InsertKept(u)  BY <1>4, <2>2
  <2>5. \A q \in Producers : (\E x, new, ofs : IndexAt(q, x, new, ofs))' /\ SubGrows(q) /\ SubLive(q)
    BY <2>3, <2>4, KeptIndex
  <2>6. IndexInv'  BY <2>5 DEF IndexInv
  <2> QED BY <1>14, <2>5, <2>6 DEF IndexStep
<1>18. \/ /\ sub[p].entries[e].key = NoKey \/ sub[p].entries[e].value = Null
          /\ sub' = [sub EXCEPT ![p] = WithEntry(@, e, sub[p].tailIndex)]
          /\ Set(t, [Idle EXCEPT !.pc = "pool", !.entry = e])
       \/ /\ ~(sub[p].entries[e].key = NoKey \/ sub[p].entries[e].value = Null)
          /\ sub' = [sub EXCEPT ![p] = Doubled(@)] /\ UNCHANGED my
       \/ Finish(t) /\ UNCHANGED sub
  BY <1>1, <1>9, <1>10 DEF InsertEntry
<1> QED BY <1>15, <1>16, <1>17, <1>18

LEMMA SameIndex ==
    ASSUME IndexInv, NEW t \in Threads, \A u \in Threads : InsertKept(u),
           \A p \in Producers : SubKept(p), ~PutFirst(t), ~Unlink(t)
    PROVE  IndexStep(t)
<1>1. \A q \in Producers : (\E x, new, ofs : IndexAt(q, x, new, ofs))' /\ SubGrows(q) /\ SubLive(q)
  BY KeptIndex
<1>2. IndexInv'  BY <1>1 DEF IndexInv
<1> QED BY <1>1, <1>2 DEF IndexStep

\* rewind_block_index_tail gives the entry back when no block could be had.
LEMMA TakeBlockIndex ==
    ASSUME TableInv, QueueTypes, ClaimInv, FreeShape, LabelInv, IndexInv, NEW t \in Threads, TakeBlock(t)
    PROVE  IndexStep(t)
<1>1. PICK p : p = mine[t]  OBVIOUS
<1>2. /\ my[t].pc = "get" /\ mine' = mine /\ ThreadStep(t) /\ p # 0
  <2>1. Inserting(t)  BY DEF TakeBlock, Inserting
  <2> QED BY <1>1, <2>1 DEF TakeBlock, tableVars, ThreadStep, LabelInv, LabelAt
<1>3. p \in Producers /\ SubOK(sub[p]) /\ sub[p].tailIndex \in Nat  BY <1>1, <1>2, OwnSub, SubFields
<1>4. \A u \in Threads \ {t} : InsertKept(u)
  BY <1>2, OthersApart, ApartInsert
<1>5. \A u \in Threads \ {t} : ~Inserter(p, u) /\ ~Inserter(p, u)'
  BY <1>1, <1>2, <1>4, NoOther, NoOtherAfter
<1>6. Inserter(p, t)  BY <1>1, <1>2 DEF Inserter, Inserting
<1>7. PICK m, num, off : IndexAt(p, m, num, off)  BY <1>3 DEF IndexInv
<1>8. ~PutFirst(t) /\ ~Unlink(t)  BY <1>2 DEF PutFirst, Unlink
<1>9. ASSUME UNCHANGED sub, NEW b, Set(t, [my[t] EXCEPT !.pc = "put", !.block = b])
      PROVE  IndexStep(t)
  <2> DEFINE c == my[t]
             r == [c EXCEPT !.pc = "put", !.block = b]
  <2>1. my' = [my EXCEPT ![t] = r]  BY <1>9 DEF Set
  <2>2. CallOK(c)  BY DEF QueueTypes
  <2>3. my'[t] = r  BY <2>1, MyAt
  <2> HIDE DEF c
  <2>4. r.pc = "put" /\ r.entry = c.entry
    <3>1. c = [pc |-> c.pc, p |-> c.p, i |-> c.i, over |-> c.over, tail |-> c.tail,
                best |-> c.best, size |-> c.size, found |-> c.found, entry |-> c.entry,
                block |-> c.block, header |-> c.header, alone |-> c.alone, had |-> c.had]
      BY <2>2, CallShape
    <3> QED BY <3>1
  <2> HIDE DEF r
  <2>5. InsertKept(t)  BY <1>2, <2>3, <2>4 DEF InsertKept, Inserting, c
  <2>6. \A u \in Threads : InsertKept(u)  BY <1>4, <2>5
  <2>7. \A q \in Producers : SubKept(q)  BY <1>9, SubSame
  <2> QED BY <1>8, <2>6, <2>7, SameIndex
<1>10. CASE sub' = [sub EXCEPT ![mine[t]] = Rewound(@, my[t].entry)] /\ Finish(t)
  <2>1. PICK e : e = my[t].entry  OBVIOUS
  <2>2. PICK s : s = Rewound(sub[p], e)  OBVIOUS
  <2>3. sub' = [sub EXCEPT ![p] = s]  BY <1>1, <1>10, <2>1, <2>2
  <2>4. sub'[p] = s /\ \A q \in Producers : q # p => sub'[q] = sub[q]  BY <1>3, <2>3, SubEdit
  <2>5. PICK h : h = Header(p)  OBVIOUS
  <2>6. PICK x : x = (h.tail + Size(h.index) - 1) % Size(h.index)  OBVIOUS
  <2>7. /\ sub'[p].entries = ValueSet(sub[p].entries, e, Null)
        /\ sub'[p].headers = TailSet(sub[p].headers, x)
        /\ sub'[p].tailIndex = sub[p].tailIndex
    BY <1>3, <2>2, <2>4, <2>5, <2>6, RewoundFields DEF Header
  <2>8. my'[t].pc = "out"  BY <1>10, SetOK, IdleOK DEF Finish, Idle
  <2>9. \A u \in Threads : ~Inserter(p, u)'
    <3>1. ~Inserter(p, t)'  BY <2>8 DEF Inserter, Inserting
    <3> QED BY <1>5, <3>1
  <2>10. (\E new : IndexAt(p, m - 1, new, off)') /\ SubGrows(p) /\ SubLive(p)
    BY <1>3, <1>6, <1>7, <2>1, <2>5, <2>6, <2>7, <2>9, GivesBackIndex
  <2>11. (\E y, new, ofs : IndexAt(p, y, new, ofs))'  BY <2>10
  <2>12. \A q \in Producers : q # p => SubKept(q)  BY <2>4, SubSame
  <2>13. IndexInv' /\ \A q \in Producers : SubGrows(q) /\ SubLive(q)
    BY <1>1, <1>2, <1>3, <1>4, <2>10, <2>11, <2>12, IndexAll
  <2> QED BY <1>8, <2>13 DEF IndexStep
<1>11. \/ UNCHANGED sub /\ \E b : Set(t, [my[t] EXCEPT !.pc = "put", !.block = b])
       \/ sub' = [sub EXCEPT ![mine[t]] = Rewound(@, my[t].entry)] /\ Finish(t)
  BY DEF TakeBlock
<1> QED BY <1>9, <1>10, <1>11

\* The entry gets its block with the first element.
LEMMA PutFirstIndex ==
    ASSUME TableInv, QueueTypes, ClaimInv, FreeShape, LabelInv, PutBlocks, IndexInv,
           NEW t \in Threads, PutFirst(t)
    PROVE  /\ IndexStep(t)
           /\ LET p == mine[t]  e == my[t].entry IN
              /\ e \in 1..Len(sub[p].entries) /\ sub[p].entries[e].key = sub[p].tailIndex
              /\ sub[p].entries[e].value = Null /\ sub[p].tailIndex % BlockSize = 0
<1>1. PICK p, b, e : p = mine[t] /\ b = my[t].block /\ e = my[t].entry  OBVIOUS
<1>2. /\ my[t].pc = "put" /\ mine' = mine /\ ThreadStep(t) /\ p # 0 /\ b \in Blocks
  <2>1. Inserting(t)  BY DEF PutFirst, Inserting
  <2> QED BY <1>1, <2>1 DEF PutFirst, tableVars, ThreadStep, LabelInv, LabelAt, PutBlocks
<1>3. p \in Producers /\ SubOK(sub[p]) /\ sub[p].tailIndex \in Nat  BY <1>1, <1>2, OwnSub, SubFields
<1>4. \A u \in Threads \ {t} : InsertKept(u)
  BY <1>2, OthersApart, ApartInsert
<1>5. \A u \in Threads \ {t} : ~Inserter(p, u) /\ ~Inserter(p, u)'
  BY <1>1, <1>2, <1>4, NoOther, NoOtherAfter
<1>6. Inserter(p, t)  BY <1>1, <1>2 DEF Inserter, Inserting
<1>7. PICK m, num, off : IndexAt(p, m, num, off)  BY <1>3 DEF IndexInv
<1>8. ~Unlink(t) /\ PutFirst(t)  BY <1>2 DEF Unlink
<1>9. PICK s : s = FirstIn(sub[p], e, b)  OBVIOUS
<1>10. sub' = [sub EXCEPT ![p] = s]  BY <1>1, <1>9 DEF PutFirst, FirstIn
<1>11. sub'[p] = s /\ \A q \in Producers : q # p => sub'[q] = sub[q]  BY <1>3, <1>10, SubEdit
<1>12. /\ sub'[p].entries = ValueSet(sub[p].entries, e, b)
       /\ sub'[p].headers = sub[p].headers
       /\ sub'[p].tailIndex = sub[p].tailIndex + 1
  BY <1>3, <1>9, <1>11, PutFirstFields
<1>13. my'[t].pc = "out"
  <2>1. Set(t, Idle)  BY DEF PutFirst, Finish
  <2> QED BY <2>1, SetOK, IdleOK DEF Idle
<1>14. \A u \in Threads : ~Inserter(p, u)'
  <2>1. ~Inserter(p, t)'  BY <1>13 DEF Inserter, Inserting
  <2> QED BY <1>5, <2>1
<1>15. /\ IndexAt(p, m, num, off)' /\ SubGrows(p)
       /\ e \in 1..Len(sub[p].entries) /\ sub[p].entries[e].key = sub[p].tailIndex
       /\ sub[p].entries[e].value = Null /\ sub[p].tailIndex % BlockSize = 0
       /\ \A f, k, c : LiveAt(p, f, k, c)' <=>
                LiveAt(p, f, k, c) \/ (f = e /\ k = sub[p].tailIndex /\ c = b)
  <2>1. IndexAt(p, m, num, off) /\ Inserter(p, t) /\ e = my[t].entry /\ b \in Blocks
    BY <1>1, <1>2, <1>6, <1>7
  <2>2. sub[p].tailIndex \in Nat  BY <1>3
  <2> QED BY <1>12, <1>14, <2>1, <2>2, PutsFirstIndex
<1>16. (\E y, new, ofs : IndexAt(p, y, new, ofs))'  BY <1>15
<1>17. \A q \in Producers : q # p => SubKept(q)  BY <1>11, SubSame
<1>18. IndexInv' /\ (\A q \in Producers : SubGrows(q)) /\ \A q \in Producers : q # p => SubLive(q)
  BY <1>1, <1>2, <1>3, <1>4, <1>15, <1>16, <1>17, IndexAll
<1>19. OnlyPuts(t)
  <2>1. \A f, k, c : LiveIn(sub'[p].entries, f, k, c) <=>
                LiveAt(p, f, k, c) \/ (f = e /\ k = sub[p].tailIndex /\ c = b)
    BY <1>15 DEF LiveAt
  <2> QED BY <1>1, <1>18, <2>1 DEF OnlyPuts
<1> QED BY <1>1, <1>8, <1>15, <1>18, <1>19 DEF IndexStep

\* Other elements and the unlinking of an empty block leave the numbers alone.
LEMMA PutIndex ==
    ASSUME TableInv, QueueTypes, ClaimInv, FreeShape, LabelInv, IndexInv, NEW t \in Threads, Put(t)
    PROVE  IndexStep(t)
<1>1. PICK p : p = mine[t]  OBVIOUS
<1>2. /\ my[t].pc = "lookup" /\ mine' = mine /\ ThreadStep(t) /\ p # 0
      /\ sub[p].tailIndex % BlockSize # 0
  BY <1>1 DEF Put, tableVars, ThreadStep, Table!NoProducer
<1>3. p \in Producers /\ SubOK(sub[p]) /\ sub[p].tailIndex \in Nat  BY <1>1, <1>2, OwnSub, SubFields
<1>4. \A u \in Threads \ {t} : InsertKept(u)
  BY <1>2, OthersApart, ApartInsert
<1>5. \A u \in Threads \ {t} : ~Inserter(p, u) /\ ~Inserter(p, u)'
  BY <1>1, <1>2, <1>4, NoOther, NoOtherAfter
<1>6. ~Inserter(p, t)  BY <1>2 DEF Inserter, Inserting
<1>7. PICK m, num, off : IndexAt(p, m, num, off)  BY <1>3 DEF IndexInv
<1>8. ~PutFirst(t) /\ ~Unlink(t)  BY <1>2 DEF PutFirst, Unlink
<1>9. PICK s : s = [sub[p] EXCEPT !.tailIndex = sub[p].tailIndex + 1]
  OBVIOUS
<1>10. sub' = [sub EXCEPT ![p] = s]  BY <1>1, <1>9 DEF Put
<1>11. sub'[p] = s /\ \A q \in Producers : q # p => sub'[q] = sub[q]  BY <1>3, <1>10, SubEdit
<1>12. /\ sub'[p].entries = sub[p].entries
       /\ sub'[p].headers = sub[p].headers
       /\ sub'[p].tailIndex = sub[p].tailIndex + 1
  BY <1>3, <1>9, <1>11, PutFields
<1>13. my'[t].pc = "out"  BY SetOK, IdleOK DEF Put, Finish, Idle
<1>14. \A u \in Threads : ~Inserter(p, u)'
  <2>1. ~Inserter(p, t)'  BY <1>13 DEF Inserter, Inserting
  <2> QED BY <1>5, <2>1
<1>15. Indexed(sub[p].entries, sub[p].headers, m, num, off) /\ Within(sub[p].tailIndex, m)
  BY <1>5, <1>6, <1>7 DEF IndexAt
<1>16. IndexAt(p, m, num, off)'
  <2>1. m \in Int  BY <1>15, NumberedShape DEF Indexed
  <2>2. Within(sub[p].tailIndex + 1, m)  BY <1>2, <1>3, <1>15, <2>1, TailArith
  <2> QED BY <1>12, <1>14, <1>15, <2>2 DEF IndexAt
<1>17. SubGrows(p) /\ SubLive(p)  BY <1>12, GrownSame DEF SubGrows, SubLive
<1>18. (\E y, new, ofs : IndexAt(p, y, new, ofs))'  BY <1>16
<1>19. \A q \in Producers : q # p => SubKept(q)  BY <1>11, SubSame
<1>20. IndexInv' /\ \A q \in Producers : SubGrows(q) /\ SubLive(q)
  BY <1>1, <1>2, <1>3, <1>4, <1>17, <1>18, <1>19, IndexAll
<1> QED BY <1>8, <1>20 DEF IndexStep

LEMMA UnlinkIndex ==
    ASSUME TableInv, QueueTypes, ClaimInv, FreeShape, LabelInv, Unlinks, IndexInv,
           NEW t \in Threads, Unlink(t)
    PROVE  IndexStep(t)
<1>1. PICK p, e : p = my[t].p /\ e = my[t].entry  OBVIOUS
<1>2. /\ my[t].pc = "unlink" /\ mine' = mine /\ ThreadStep(t)
  BY <1>1 DEF Unlink, tableVars, ThreadStep
<1>3. p \in Producers /\ SubOK(sub[p]) /\ sub[p].tailIndex \in Nat
  <2>1. my[t].pc \in Walking /\ TableTypes  BY <1>2 DEF Walking, TableInv
  <2>2. p \in Producers  BY <1>1, <2>1, WalkerAt
  <2> QED BY <2>2, SubFields DEF QueueTypes
<1>4. \A u \in Threads \ {t} : InsertKept(u)
  BY <1>2, OthersApart, ApartInsert
<1>5. InsertKept(t)
  <2>1. my'[t].pc \in Walking \cup {"out"}  BY PcAfter DEF DequeueStep, Taking
  <2> QED BY <1>2, <2>1 DEF InsertKept, Inserting, Walking
<1>6. \A u \in Threads : InsertKept(u)  BY <1>4, <1>5
<1>7. PICK m, num, off : IndexAt(p, m, num, off)  BY <1>3 DEF IndexInv
<1>8. ~PutFirst(t) /\ Unlink(t)  BY <1>2 DEF PutFirst
<1>9. PICK s : s = NamedIn(sub[p], e, Null)  OBVIOUS
<1>10. sub' = [sub EXCEPT ![p] = s]  BY <1>1, <1>9 DEF Unlink, NamedIn
<1>11. sub'[p] = s /\ \A q \in Producers : q # p => sub'[q] = sub[q]  BY <1>3, <1>10, SubEdit
<1>12. /\ sub'[p].entries = ValueSet(sub[p].entries, e, Null)
       /\ sub'[p].headers = sub[p].headers
       /\ sub'[p].tailIndex = sub[p].tailIndex
  BY <1>3, <1>9, <1>11, NamedFields
<1>13. e \in 1..Len(sub[p].entries)
  BY <1>1, <1>2 DEF Unlinks, LiveAt, LiveIn
<1>14. /\ IndexAt(p, m, num, off)' /\ SubGrows(p)
       /\ \A f, k, c : LiveAt(p, f, k, c)' <=> LiveAt(p, f, k, c) /\ f # e
  BY <1>6, <1>7, <1>12, <1>13, UnlinksIndex
<1>15. \A q \in Producers : q # p => SubKept(q)  BY <1>11, SubSame
<1>16. \A q \in Producers : q # p => (\E x, new, ofs : IndexAt(q, x, new, ofs))' /\ SubGrows(q) /\ SubLive(q)
  BY <1>6, <1>15, KeptIndex
<1>17. (\E y, new, ofs : IndexAt(p, y, new, ofs))'  BY <1>14
<1>18. IndexInv'  BY <1>16, <1>17 DEF IndexInv
<1>19. OnlyUnlinks(t)
  <2>1. \A f, k, c : LiveIn(sub'[p].entries, f, k, c) <=> LiveAt(p, f, k, c) /\ f # e
    BY <1>14 DEF LiveAt
  <2> QED BY <1>1, <1>16, <2>1 DEF OnlyUnlinks
<1> QED BY <1>8, <1>14, <1>16, <1>18, <1>19 DEF IndexStep

\* Every step of a thread.
LEMMA IndexSteps ==
    ASSUME TableInv, QueueTypes, ClaimInv, FreeShape, LabelInv, PutBlocks, Unlinks, IndexInv,
           NEW t \in Threads, ThreadStep(t)
    PROVE  IndexStep(t)
<1>1. CASE EditsIndex(t)
  BY <1>1, InsertIndex, TakeBlockIndex, PutFirstIndex, PutIndex, UnlinkIndex DEF EditsIndex
<1>2. CASE ~EditsIndex(t)
  <2>1. \A p \in Producers : SubKept(p)  BY <1>2, QuietIndex
  <2>2. InsertKept(t)  BY <1>2, QuietIndex
  <2>3. \A u \in Threads \ {t} : InsertKept(u)  BY OthersApart, ApartInsert
  <2>4. \A u \in Threads : InsertKept(u)  BY <2>2, <2>3
  <2>5. ~PutFirst(t) /\ ~Unlink(t)  BY <1>2 DEF EditsIndex
  <2> QED BY <2>1, <2>4, <2>5, SameIndex
<1> QED BY <1>1, <1>2

\* The index layer is inductive.
LEMMA IndexNext ==
    ASSUME TableInv, QueueTypes, ClaimInv, FreeShape, LabelInv, PutBlocks, Unlinks, IndexInv,
           [Next]_vars
    PROVE  IndexInv'
<1>1. CASE \E t \in Threads : ThreadStep(t)
  BY <1>1, IndexSteps DEF IndexStep
<1>2. CASE Destroy \/ UNCHANGED vars
  <2>1. UNCHANGED <<sub, my, mine>>  BY <1>2 DEF Destroy, vars, tableVars
  <2>2. \A p \in Producers : SubKept(p)  BY <2>1, SubSame
  <2>3. \A u \in Threads : InsertKept(u)  BY <2>1 DEF InsertKept, Inserting
  <2>4. \A q \in Producers : (\E x, new, ofs : IndexAt(q, x, new, ofs))'
    BY <2>2, <2>3, KeptIndex
  <2> QED BY <2>4 DEF IndexInv
<1> QED BY <1>1, <1>2 DEF Next

-----------------------------------------------------------------------------
(* The block indexes at first.                                             *)

FirstHeader(x) == [tail |-> x, index |-> [i \in 0..(IndexSize-1) |-> i + 1]]

\* The indexes of the initial states: an unused one, and one that was used before.
LEMMA FreshHeaded ==
    ASSUME NEW n, n = IndexSize, NEW m, NEW num, \A e \in 1..n : Cong(num[e], e - 1 - n, n),
           NEW x \in 0..(n-1), Cong(m, x + 1 - n, n)
    PROVE  Headed(<<FirstHeader(x)>>, n, m, num, [j \in 1..1 |-> -n])
<1> DEFINE h == FirstHeader(x)
           H == <<h>>
           f == [i \in 0..(n-1) |-> i + 1]
           off == [j \in 1..1 |-> -n]
<1>1. n \in Nat \ {0} /\ n \in Int  BY QueueAssumption
<1>2. h.tail = x /\ h.index = f /\ h = [tail |-> x, index |-> f]  BY DEF FirstHeader
<1>3. f \in [0..(n-1) -> 1..n] /\ f \in [0..(n-1) -> Nat] /\ \A a \in 0..(n-1) : f[a] = a + 1
  BY <1>1
<1> HIDE DEF f, h
<1>4. h \in AHeader
  <2>1. f \in AnIndex  BY <1>1, <1>3 DEF AnIndex
  <2> QED BY <1>1, <1>2, <2>1 DEF AHeader
<1>5. H \in Seq(AHeader) /\ Len(H) = 1 /\ H[1] = h  BY <1>4
<1>6. off \in [1..1 -> Int] /\ off[1] = -n  BY <1>1
<1> HIDE DEF H, off
<1>7. \A e \in 1..n : \E a \in 0..(n-1) : f[a] = e
  <2> SUFFICES ASSUME NEW e \in 1..n  PROVE \E a \in 0..(n-1) : f[a] = e  OBVIOUS
  <2>1. e - 1 \in 0..(n-1) /\ (e - 1) + 1 = e  BY <1>1
  <2>2. f[e-1] = (e - 1) + 1  BY <1>3, <2>1
  <2> QED BY <2>1, <2>2
<1>8. Newest(h, n, m, -n)
  <2>1. x + 1 + (-n) = x + 1 - n  BY <1>1
  <2> QED BY <1>2, <1>3, <1>7, <2>1 DEF Newest
<1>9. Fits(h, n, num, -n)
  <2>1. n = 1 * n /\ 1 \in Nat \ {0}  BY <1>1
  <2>2. ASSUME NEW a \in 0..(n-1)  PROVE Cong(num[f[a]], a + (-n), n)
    <3>1. f[a] = a + 1 /\ a + 1 \in 1..n  BY <1>1, <1>3
    <3>2. (a + 1) - 1 - n = a + (-n)  BY <1>1
    <3>3. Cong(num[a+1], (a + 1) - 1 - n, n)  BY <3>1
    <3> QED BY <3>1, <3>2, <3>3
  <2> QED BY <1>1, <1>2, <1>3, <2>1, <2>2 DEF Fits
<1>10. Headed(H, n, m, num, off)  BY <1>5, <1>6, <1>8, <1>9 DEF Headed
<1> QED BY <1>10 DEF H, h, off

FreshEntries == [e \in 1..IndexSize |-> [key |-> NoKey, value |-> Null]]
LEMMA FreshUnused ==
    /\ FreshEntries \in Seq(Entry) /\ Len(FreshEntries) = IndexSize
    /\ \A e \in 1..IndexSize : FreshEntries[e].key = NoKey /\ FreshEntries[e].value = Null
<1> DEFINE x == [key |-> NoKey, value |-> Null]
<1>1. x \in Entry /\ x.key = NoKey /\ x.value = Null  BY DEF Entry, NoKey
<1>2. FreshEntries = [e \in 1..IndexSize |-> x]  BY DEF FreshEntries
<1> HIDE DEF x
<1>3. IndexSize \in Nat  BY QueueAssumption
<1>4. FreshEntries \in [1..IndexSize -> Entry]  BY <1>1, <1>2
<1>5. FreshEntries \in Seq(Entry) /\ Len(FreshEntries) = IndexSize  BY <1>3, <1>4
<1> QED BY <1>1, <1>2, <1>5

LEMMA FreshIndexed ==
    \E num, off : Indexed(FreshEntries, <<FirstHeader(IndexSize - 1)>>, 0, num, off)
<1> DEFINE n == IndexSize
           num == [e \in 1..n |-> e - 1 - n]
           E == FreshEntries
<1>1. n \in Nat \ {0} /\ n \in Int /\ n >= 2  BY QueueAssumption
<1>2. num \in [1..n -> Int] /\ \A e \in 1..n : num[e] = e - 1 - n /\ num[e] \in Int  BY <1>1
<1>3. E \in Seq(Entry) /\ Len(E) = n /\ \A e \in 1..n : E[e].key = NoKey /\ E[e].value = Null
  BY FreshUnused
<1> HIDE DEF num, E, n
<1>4. \A e \in 1..n : num[e] \in (0-n)..(0-1)  BY <1>1, <1>2
<1>5. \A e, f \in 1..n : num[e] = num[f] => e = f  BY <1>1, <1>2
<1>6. Numbered(E, 0, num)  BY <1>1, <1>2, <1>3, <1>4, <1>5 DEF Numbered, KeyOK
<1>7. \A e \in 1..n : Cong(num[e], e - 1 - n, n)
  <2> SUFFICES ASSUME NEW e \in 1..n  PROVE Cong(num[e], e - 1 - n, n)  OBVIOUS
  <2>1. e - 1 - n \in Int  BY <1>1
  <2>2. Cong(e - 1 - n, e - 1 - n, n)  BY <1>1, <2>1, CongOne
  <2> QED BY <1>2, <2>2
<1>8. n - 1 \in 0..(n-1) /\ (n - 1) + 1 - n = 0 /\ 0 \in Int  BY <1>1
<1>9. Cong(0, (n - 1) + 1 - n, n)  BY <1>1, <1>8, CongOne
<1>10. Headed(<<FirstHeader(n - 1)>>, n, 0, num, [j \in 1..1 |-> -n])
  BY <1>7, <1>8, <1>9, FreshHeaded DEF n
<1> QED BY <1>3, <1>6, <1>10 DEF Indexed, n, E

LEMMA UsedIndexed ==
    \E num, off : Indexed(KeySet(FreshEntries, 1, 0), <<FirstHeader(0)>>, 1, num, off)
<1> DEFINE n == IndexSize
           num == [e \in 1..n |-> IF e = 1 THEN 0 ELSE e - 1 - n]
           E == KeySet(FreshEntries, 1, 0)
<1>1. n \in Nat \ {0} /\ n \in Int /\ n >= 2  BY QueueAssumption
<1>2. num \in [1..n -> Int] /\ \A e \in 1..n : num[e] = (IF e = 1 THEN 0 ELSE e - 1 - n) /\ num[e] \in Int
  BY <1>1
<1>3. E \in Seq(Entry) /\ Len(E) = n /\ E[1].key = 0 /\ E[1].value = Null
      /\ \A e \in 1..n : e # 1 => E[e].key = NoKey /\ E[e].value = Null
  <2>1. 1 \in 1..n /\ 0 \in Nat  BY <1>1
  <2> QED BY <2>1, FreshUnused, KeyEdit
<1> HIDE DEF num, E, n
<1>4. \A e \in 1..n : num[e] \in (1-n)..(1-1)  BY <1>1, <1>2
<1>5. \A e, f \in 1..n : num[e] = num[f] => e = f  BY <1>1, <1>2
<1>6. \A e \in 1..n : num[e] = 0 => e = 1  BY <1>1, <1>2
<1>7. BlockSize \in Nat /\ 0 * BlockSize = 0  BY QueueAssumption
<1>8. \A e \in 1..n : KeyOK(E[e], num[e], 1, n)  BY <1>2, <1>3, <1>7 DEF KeyOK
<1>9. \A e \in 1..n : num[e] = 1 - 1 /\ 1 >= 1 => E[e].key # NoKey  BY <1>3, <1>6 DEF NoKey
<1>10. Numbered(E, 1, num)  BY <1>1, <1>2, <1>3, <1>4, <1>5, <1>8, <1>9 DEF Numbered
<1>11. \A e \in 1..n : Cong(num[e], e - 1 - n, n)
  <2> SUFFICES ASSUME NEW e \in 1..n  PROVE Cong(num[e], e - 1 - n, n)  OBVIOUS
  <2>1. e - 1 - n \in Int /\ -n \in Int /\ 0 \in Int /\ 0 - n \in Int /\ 0 - n = -n  BY <1>1
  <2>2. Cong(e - 1 - n, e - 1 - n, n)  BY <1>1, <2>1, CongOne
  <2>3. Cong(0 - n, 0, n)  BY <1>1, CongOne
  <2>4. Cong(0, 0 - n, n)  BY <1>1, <2>1, <2>3, CongSym
  <2>5. e = 1 => e - 1 - n = 0 - n  BY <1>1
  <2> QED BY <1>2, <2>2, <2>4, <2>5
<1>12. Cong(1, 0 + 1 - n, n)
  <2>1. 0 + 1 - n = 1 - n /\ 1 - n \in Int /\ 1 \in Int  BY <1>1
  <2>2. Cong(1 - n, 1, n)  BY <1>1, CongOne
  <2> QED BY <1>1, <2>1, <2>2, CongSym
<1>13. 0 \in 0..(n-1)  BY <1>1
<1>14. Headed(<<FirstHeader(0)>>, n, 1, num, [j \in 1..1 |-> -n])
  BY <1>11, <1>12, <1>13, FreshHeaded DEF n
<1> QED BY <1>3, <1>10, <1>14 DEF Indexed, n, E

\* A sub-queue at first: new, or a block was filled and emptied.
UsedSub(p) == [NewSub EXCEPT !.tailIndex = BlockSize, !.headIndex = BlockSize,
                             !.optimistic = BlockSize, !.tailBlock = p,
                             !.entries[1].key = 0, !.headers[1].tail = 0]
LEMMA NewFields == /\ NewSub.entries = FreshEntries
                   /\ NewSub.headers = <<FirstHeader(IndexSize - 1)>>
                   /\ NewSub.tailIndex = 0 /\ NewSub.headIndex = 0 /\ NewSub.tailBlock = Null
BY DEF NewSub, FreshEntries, FirstHeader

LEMMA UsedFields ==
    ASSUME NEW p
    PROVE  /\ UsedSub(p).entries = KeySet(FreshEntries, 1, 0)
           /\ UsedSub(p).headers = <<FirstHeader(0)>>
           /\ UsedSub(p).tailIndex = BlockSize /\ UsedSub(p).headIndex = BlockSize
           /\ UsedSub(p).tailBlock = p
<1> DEFINE E == FreshEntries
           f == [i \in 0..(IndexSize-1) |-> i + 1]
           H == <<[tail |-> IndexSize - 1, index |-> f]>>
<1>1. NewSub = [tailIndex |-> 0, headIndex |-> 0, optimistic |-> 0, overcommit |-> 0,
                tailBlock |-> Null, entries |-> E, headers |-> H]
  BY DEF NewSub, FreshEntries
<1> HIDE DEF E, H
<1>2. /\ UsedSub(p).entries = [E EXCEPT ![1].key = 0] /\ UsedSub(p).headers = [H EXCEPT ![1].tail = 0]
      /\ UsedSub(p).tailIndex = BlockSize /\ UsedSub(p).headIndex = BlockSize
      /\ UsedSub(p).tailBlock = p
  BY <1>1 DEF UsedSub
<1>3. [H EXCEPT ![1].tail = 0] = <<[tail |-> 0, index |-> f]>>
  <2> DEFINE a == [tail |-> IndexSize - 1, index |-> f]
             b == [tail |-> 0, index |-> f]
  <2>2. H = <<a>>  BY DEF H
  <2> HIDE DEF f
  <2>1. [a EXCEPT !.tail = 0] = b  OBVIOUS
  <2> HIDE DEF a, b
  <2>3. H[1] = a /\ [H EXCEPT ![1].tail = 0] = [H EXCEPT ![1] = [a EXCEPT !.tail = 0]]  BY <2>2
  <2>4. [<<a>> EXCEPT ![1] = b] = <<b>>
    <3>1. <<a>> \in Seq({a, b}) /\ Len(<<a>>) = 1  OBVIOUS
    <3>2. [<<a>> EXCEPT ![1] = b] \in Seq({a, b}) /\ Len([<<a>> EXCEPT ![1] = b]) = 1
          /\ [<<a>> EXCEPT ![1] = b][1] = b
      BY <3>1
    <3> QED BY <3>2
  <2> QED BY <2>1, <2>2, <2>3, <2>4 DEF b
<1> QED BY <1>2, <1>3 DEF KeySet, E, FirstHeader

LEMMA InitSub ==
    ASSUME Init
    PROVE  \/ sub = [p \in Producers |-> NewSub] /\ InitNew
           \/ sub = [p \in Producers |-> UsedSub(p)] /\ InitUsed
BY DEF Init, InitNew, InitUsed, UsedSub

LEMMA IndexInit == ASSUME Init  PROVE IndexInv
<1>1. \A t \in Threads : ~Inserting(t)  BY DEF Init, Idle, Inserting
<1>2. \A p : \A t \in Threads : ~Inserter(p, t)  BY <1>1 DEF Inserter
<1> SUFFICES ASSUME NEW p \in Producers  PROVE \E m, num, off : IndexAt(p, m, num, off)
  BY DEF IndexInv
<1>b. BlockSize \in Nat /\ BlockSize >= 2  BY QueueAssumption
<1>3. CASE sub[p] = NewSub
  <2>1. PICK num, off : Indexed(FreshEntries, <<FirstHeader(IndexSize - 1)>>, 0, num, off)
    BY FreshIndexed
  <2>2. Within(0, 0)
    <3>1. (0 - 1) * BlockSize = -BlockSize /\ 0 * BlockSize = 0  BY <1>b
    <3> QED BY <1>b, <3>1 DEF Within
  <2>3. sub[p].entries = FreshEntries /\ sub[p].headers = <<FirstHeader(IndexSize - 1)>>
        /\ sub[p].tailIndex = 0
    BY <1>3, NewFields
  <2>4. IndexAt(p, 0, num, off)  BY <1>2, <2>1, <2>2, <2>3 DEF IndexAt
  <2> QED BY <2>4
<1>4. CASE sub[p] = UsedSub(p)
  <2>1. PICK num, off : Indexed(KeySet(FreshEntries, 1, 0), <<FirstHeader(0)>>, 1, num, off)
    BY UsedIndexed
  <2>2. Within(BlockSize, 1)
    <3>1. (1 - 1) * BlockSize = 0 /\ 1 * BlockSize = BlockSize  BY <1>b
    <3> QED BY <1>b, <3>1 DEF Within
  <2>3. sub[p].entries = KeySet(FreshEntries, 1, 0) /\ sub[p].headers = <<FirstHeader(0)>>
        /\ sub[p].tailIndex = BlockSize
    BY <1>4, UsedFields
  <2>4. IndexAt(p, 1, num, off)  BY <1>2, <2>1, <2>2, <2>3 DEF IndexAt
  <2> QED BY <2>4
<1> QED BY <1>3, <1>4, InitSub
=============================================================================
