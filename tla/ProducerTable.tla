--------------------------- MODULE ProducerTable ---------------------------
(***************************************************************************)
(* How moodycamel::ConcurrentQueue (concurrent_queue.h, vendored) finds    *)
(* the sub-queue of a thread that enqueues without a token: hash tables    *)
(* from thread identifiers to implicit producers, chained from the newest  *)
(* to the first, grown under a flag; the list of all producers; and the    *)
(* callback of an exiting thread, which makes its producer available to    *)
(* the next new thread.                                                    *)
(*                                                                         *)
(* A thread's entries are read and written by that thread only, so a       *)
(* search is one step; the tables, the counter, the flag and the producers *)
(* are shared, and every access to them is a step.  A thread enters itself *)
(* in one step, too: the walk to a free slot, the exchange of its key, the *)
(* value, which nobody else reads, and the counter, which is too high at   *)
(* worst until it has been taken back.                                     *)
(***************************************************************************)
EXTENDS Naturals, Sequences, FiniteSets

CONSTANTS Threads,      \* the thread identifiers; a new thread may get an old one
          Hash,         \* hash_thread_id
          InitialSizes, \* values of INITIAL_IMPLICIT_PRODUCER_HASH_SIZE
          MaxProducers, \* bound: ImplicitProducer allocations that succeed
          MaxTables     \* bound: hash table allocations that succeed

Invalid == "invalid_thread_id"
Reusable == "invalid_thread_id2"
NoProducer == 0
Producers == 1..MaxProducers   \* in the order of their allocation

VARIABLES tables,     \* the hash tables, the first one first
          hashCount,  \* implicitProducerHashCount
          resizing,   \* implicitProducerHashResizeInProgress
          created,    \* producers on the list; its tail is the last of them
          inactive,   \* ProducerBase::inactive
          step,       \* where each thread is in get_or_add or in its exit
          main,       \* the local variable mainHash; hash while it exits
          newCount,   \* the local variable newCount
          mine        \* the local variable producer: the result

shared == <<tables, hashCount, resizing, created, inactive>>
tableVars == <<shared, step, main, newCount, mine>>

Empty(n) == [i \in 0..(n-1) |-> [key |-> Invalid, value |-> NoProducer]]

Init == /\ tables \in {<<Empty(n)>> : n \in InitialSizes}
        /\ hashCount = 0
        /\ resizing = FALSE
        /\ created = 0
        /\ inactive = [p \in Producers |-> FALSE]
        /\ step = [t \in Threads |-> "out"]
        /\ main = [t \in Threads |-> 0]
        /\ newCount = [t \in Threads |-> 0]
        /\ mine = [t \in Threads |-> NoProducer]

GoOn(t, label) == step' = [step EXCEPT ![t] = label]
Result(t, p) == GoOn(t, "out") /\ mine' = [mine EXCEPT ![t] = p]

-----------------------------------------------------------------------------
(* Probing.                                                                *)

Capacity(h) == Cardinality(DOMAIN tables[h])

\* The slots of table h in the order in which thread t visits them.
Slot(h, t, k) == (Hash[t] + k) % Capacity(h)

\* The first slot of table h, from t's own on, whose key is one of keys; the
\* capacity of h when a walk around the table meets none.
Probe(h, t, keys) ==
    LET hits == {k \in 0..(Capacity(h) - 1) : tables[h][Slot(h, t, k)].key \in keys}
    IN  IF hits = {} THEN Capacity(h)
        ELSE Slot(h, t, CHOOSE k \in hits : \A j \in hits : k <= j)

\* A search of h ends at t's key or at a slot that was never used.
FoundIn(h, t) == LET i == Probe(h, t, {t, Invalid}) IN
                 /\ i # Capacity(h)
                 /\ tables[h][i].key = t

\* The tables, from the one t loaded to the first, in which t's key is found.
Places(t) == {h \in 1..main[t] : FoundIn(h, t)}

\* t writes itself and p in the first slot that is free.
Enter(h, t, p) ==
    LET i == Probe(h, t, {Invalid, Reusable}) IN
    /\ i # Capacity(h)
    /\ tables' = [tables EXCEPT ![h][i] = [key |-> t, value |-> p]]

-----------------------------------------------------------------------------
(* get_or_add_implicit_producer()                                          *)

Call(t) == /\ step[t] = "out"
           /\ main' = [main EXCEPT ![t] = Len(tables)]
           /\ GoOn(t, "search")
           /\ UNCHANGED <<shared, newCount, mine>>

\* An entry found behind the main table is entered there too.  A table with no
\* slot that was never used would keep the search going round.
Search(t) ==
    /\ step[t] = "search"
    /\ \A h \in 1..main[t] : Probe(h, t, {t, Invalid}) # Capacity(h)
    /\ \/ /\ Places(t) # {}
          /\ LET h == CHOOSE g \in Places(t) : \A f \in Places(t) : f <= g
                 p == tables[h][Probe(h, t, {t, Invalid})].value
             IN  /\ Result(t, p)
                 /\ IF h = main[t] THEN UNCHANGED tables ELSE Enter(main[t], t, p)
       \/ /\ Places(t) = {}
          /\ GoOn(t, "count")
          /\ UNCHANGED <<tables, mine>>
    /\ UNCHANGED <<hashCount, resizing, created, inactive, main, newCount>>

Count(t) ==
    /\ step[t] = "count"
    /\ hashCount' = hashCount + 1
    /\ newCount' = [newCount EXCEPT ![t] = hashCount + 1]
    /\ GoOn(t, "flag")
    /\ UNCHANGED <<tables, resizing, created, inactive, main, mine>>

HalfFull(t, h) == newCount[t] >= Capacity(h) \div 2

\* Below three quarters the thread enters itself in h; else it loads the table
\* again, to wait for the thread that resizes.
RoomIn(t, h) == newCount[t] < Capacity(h) \div 2 + Capacity(h) \div 4
Proceed(t, h) == GoOn(t, IF RoomIn(t, h) THEN "recycle" ELSE "wait")

\* test_and_set is only called when the table is half full.
TakeFlag(t) ==
    /\ step[t] = "flag"
    /\ \/ /\ HalfFull(t, main[t]) /\ ~resizing
          /\ resizing' = TRUE
          /\ GoOn(t, "resize")
       \/ /\ ~(HalfFull(t, main[t]) /\ ~resizing)
          /\ Proceed(t, main[t])
          /\ UNCHANGED resizing
    /\ UNCHANGED <<tables, hashCount, created, inactive, main, newCount, mine>>

Wait(t) ==
    /\ step[t] = "wait"
    /\ main' = [main EXCEPT ![t] = Len(tables)]
    /\ GoOn(t, "flag")
    /\ UNCHANGED <<shared, newCount, mine>>

\* The capacity doubles until the count is below half of it.
Doubled(n, c) == LET D[m \in Nat] == IF c >= m \div 2 THEN D[2 * m] ELSE m IN D[2 * n]

\* With the flag: the newest table, and a bigger one behind it if it is still
\* half full; there may be no memory for that.
Resize(t) ==
    /\ step[t] = "resize"
    /\ LET h == Len(tables) IN
       \/ /\ ~HalfFull(t, h)
          /\ main' = [main EXCEPT ![t] = h]
          /\ GoOn(t, "unflag")
          /\ UNCHANGED tables
       \/ /\ HalfFull(t, h) /\ h < MaxTables
          /\ tables' = Append(tables, Empty(Doubled(Capacity(h), newCount[t])))
          /\ main' = [main EXCEPT ![t] = h + 1]
          /\ GoOn(t, "unflag")
       \/ /\ HalfFull(t, h)
          /\ main' = [main EXCEPT ![t] = h]
          /\ GoOn(t, "fail")
          /\ UNCHANGED tables
    /\ UNCHANGED <<hashCount, resizing, created, inactive, newCount, mine>>

ClearFlag(t) ==
    /\ step[t] = "unflag"
    /\ resizing' = FALSE
    /\ Proceed(t, main[t])
    /\ UNCHANGED <<tables, hashCount, created, inactive, main, newCount, mine>>

\* No memory for the table: the count and the flag go back.
FailResize(t) ==
    /\ step[t] = "fail"
    /\ hashCount' = hashCount - 1
    /\ resizing' = FALSE
    /\ Result(t, NoProducer)
    /\ UNCHANGED <<tables, created, inactive, main, newCount>>

\* recycle_or_create_producer: a walk over the list takes a producer that is
\* inactive when it passes; a producer that becomes inactive behind it is
\* missed, and then, or if there is none, one is created and added, if memory
\* allows it.
Recycle(t) ==
    /\ step[t] = "recycle"
    /\ \/ \E p \in 1..created :
             /\ inactive[p]
             /\ inactive' = [inactive EXCEPT ![p] = FALSE]
             /\ mine' = [mine EXCEPT ![t] = p]
             /\ GoOn(t, "enter")
             /\ UNCHANGED <<created, hashCount>>
       \/ /\ created < MaxProducers
          /\ created' = created + 1
          /\ mine' = [mine EXCEPT ![t] = created + 1]
          /\ GoOn(t, "enter")
          /\ UNCHANGED <<inactive, hashCount>>
       \/ /\ hashCount' = hashCount - 1
          /\ Result(t, NoProducer)
          /\ UNCHANGED <<inactive, created>>
    /\ UNCHANGED <<tables, resizing, main, newCount>>

\* A slot that an exited thread left is counted already.
EnterNew(t) ==
    /\ step[t] = "enter"
    /\ Enter(main[t], t, mine[t])
    /\ hashCount' = IF tables[main[t]][Probe(main[t], t, {Invalid, Reusable})].key = Reusable
                    THEN hashCount - 1 ELSE hashCount
    /\ GoOn(t, "out")
    /\ UNCHANGED <<resizing, created, inactive, main, newCount, mine>>

-----------------------------------------------------------------------------
(* implicit_producer_thread_exited, which ThreadExitNotifier's destructor  *)
(* calls under a mutex for the producer the thread subscribed.             *)

\* The thread has a producer and is in no call of the queue.
Exit(t) ==
    /\ step[t] = "out"
    /\ mine[t] # NoProducer
    /\ \A u \in Threads : step[u] \notin {"remove", "retire"}
    /\ main' = [main EXCEPT ![t] = Len(tables)]
    /\ GoOn(t, "remove")
    /\ UNCHANGED <<shared, newCount, mine>>

\* Mutant: only the newest table forgets the thread.
RemoveNewest(t) ==
    /\ step[t] = "remove"
    /\ LET h == main[t]  i == Probe(h, t, {t, Invalid}) IN
       IF FoundIn(h, t) THEN tables' = [tables EXCEPT ![h][i].key = Reusable]
                        ELSE UNCHANGED tables
    /\ GoOn(t, "retire")
    /\ UNCHANGED <<hashCount, resizing, created, inactive, main, newCount, mine>>

\* One table per step: its key becomes invalid_thread_id2.
Remove(t) ==
    /\ step[t] = "remove"
    /\ LET h == main[t]  i == Probe(h, t, {t, Invalid}) IN
       IF FoundIn(h, t) THEN tables' = [tables EXCEPT ![h][i].key = Reusable]
                        ELSE UNCHANGED tables
    /\ main' = [main EXCEPT ![t] = @ - 1]
    /\ GoOn(t, IF main[t] = 1 THEN "retire" ELSE "remove")
    /\ UNCHANGED <<hashCount, resizing, created, inactive, newCount, mine>>

Retire(t) ==
    /\ step[t] = "retire"
    /\ inactive' = [inactive EXCEPT ![mine[t]] = TRUE]
    /\ Result(t, NoProducer)
    /\ UNCHANGED <<tables, hashCount, resizing, created, main, newCount>>

Step(t) == \/ Search(t) \/ Count(t) \/ TakeFlag(t) \/ Resize(t) \/ ClearFlag(t)
           \/ FailResize(t) \/ Wait(t) \/ Recycle(t) \/ EnterNew(t)
           \/ Remove(t) \/ Retire(t)
=============================================================================
