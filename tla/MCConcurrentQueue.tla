------------------------- MODULE MCConcurrentQueue -------------------------
(* Instances of ConcurrentQueue for TLC.                                   *)
EXTENDS ConcurrentQueue, TLC

CONSTANTS t1, t2, t3

Does(enqueues, dequeues, exits) ==
    [enqueues |-> enqueues, dequeues |-> dequeues, exits |-> exits]

\* t1 and t2 hash to the same slot.
SomeHash == (t1 :> 0) @@ (t2 :> 0) @@ (t3 :> 1)

Plan(new, pool, size, of1, of2, of3) ==
    [new |-> new, pool |-> pool, size |-> size,
     of |-> (t1 :> of1) @@ (t2 :> of2) @@ (t3 :> of3)]

SomePlans ==
    { \* three dequeuers and fewer elements
      Plan(FALSE, 2, 8, Does(2, 1, 0), Does(0, 1, 0), Does(0, 1, 0)),
      \* the block index wraps around and grows while two dequeue
      Plan(FALSE, 2, 8, Does(7, 0, 0), Does(0, 3, 0), Does(0, 0, 0)),
      \* a block is popped, used, emptied and pushed while others pop
      Plan(FALSE, 2, 8, Does(1, 0, 0), Does(2, 2, 0), Does(1, 0, 0)),
      \* two blocks are emptied at once
      Plan(FALSE, 2, 8, Does(4, 2, 0), Does(0, 2, 0), Does(0, 0, 0)),
      \* new threads, and tables that grow
      Plan(TRUE, 3, 2, Does(1, 0, 0), Does(1, 0, 0), Does(1, 0, 0)),
      \* a thread ends, and another gets its identifier or its producer
      Plan(TRUE, 3, 2, Does(2, 0, 1), Does(1, 0, 1), Does(0, 0, 0)) }
=============================================================================
