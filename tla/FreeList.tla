------------------------------ MODULE FreeList ------------------------------
(***************************************************************************)
(* moodycamel::ConcurrentQueue<>::FreeList (concurrent_queue.h, vendored): *)
(* a stack of unused blocks, pushed and popped with compare-exchange.  A   *)
(* node's reference count keeps a popped node from being pushed again      *)
(* while another thread is about to read its next pointer; a push that     *)
(* finds readers leaves the node to the last of them.                      *)
(*                                                                         *)
(* freeListRefs is one 32-bit word: refs counts its low 31 bits and should *)
(* is its top bit, SHOULD_BE_ON_FREELIST; both change in the same step.    *)
(* Every access to shared memory is a step; the steps are sequentially     *)
(* consistent.                                                             *)
(***************************************************************************)
EXTENDS Naturals, FiniteSets

CONSTANTS Threads,
          Nodes,     \* the blocks of the initial pool
          Null       \* no block

VARIABLES freeListHead,  \* freeListHead
          refs, should,  \* freeListRefs of each node
          next,          \* freeListNext of each node
          at,            \* where each thread is in try_get or add
          head,          \* the local variable head
          node,          \* prevHead in try_get, the argument of add
          nxt,           \* the local variable next
          seen,          \* the local variable refs: <<count, top bit>>
          getting        \* whether add was called by try_get

list == <<freeListHead, refs, should, next>>
locals == <<at, head, node, nxt, seen, getting>>
flVars == <<list, locals>>

LocalsInit ==
        /\ at = [t \in Threads |-> "out"]
        /\ head = [t \in Threads |-> Null]
        /\ node = [t \in Threads |-> Null]
        /\ nxt = [t \in Threads |-> Null]
        /\ seen = [t \in Threads |-> <<0, FALSE>>]
        /\ getting = [t \in Threads |-> FALSE]

Init == /\ freeListHead = Null
        /\ refs = [n \in Nodes |-> 0]
        /\ should = [n \in Nodes |-> FALSE]
        /\ next = [n \in Nodes |-> Null]
        /\ LocalsInit

Jump(t, label) == at' = [at EXCEPT ![t] = label]

\* The thread leaves with r as its result; its locals are gone.
Return(t, r) == /\ Jump(t, "out")
                /\ node' = [node EXCEPT ![t] = r]
                /\ head' = [head EXCEPT ![t] = Null]
                /\ nxt' = [nxt EXCEPT ![t] = Null]
                /\ seen' = [seen EXCEPT ![t] = <<0, FALSE>>]
                /\ getting' = [getting EXCEPT ![t] = FALSE]

-----------------------------------------------------------------------------
(* try_get()                                                               *)

CallGet(t) == /\ at[t] = "out"
              /\ Jump(t, "head")
              /\ getting' = [getting EXCEPT ![t] = TRUE]
              /\ UNCHANGED <<list, head, node, nxt, seen>>

LoadHead(t) ==
    /\ at[t] = "head"
    /\ \/ /\ freeListHead = Null
          /\ Return(t, Null)
       \/ /\ freeListHead # Null
          /\ head' = [head EXCEPT ![t] = freeListHead]
          /\ Jump(t, "refs")
          /\ UNCHANGED <<node, nxt, seen, getting>>
    /\ UNCHANGED list

\* prevHead = head; refs = head->freeListRefs
LoadRefs(t) ==
    /\ at[t] = "refs"
    /\ LET n == head[t] IN
       /\ node' = [node EXCEPT ![t] = n]
       /\ seen' = [seen EXCEPT ![t] = <<refs[n], should[n]>>]
       /\ Jump(t, IF refs[n] = 0 THEN "head" ELSE "hold")
    /\ UNCHANGED <<list, head, nxt, getting>>

\* compare_exchange_strong(refs, refs + 1)
Hold(t) ==
    /\ at[t] = "hold"
    /\ LET n == node[t] IN
       \/ /\ seen[t] = <<refs[n], should[n]>>
          /\ refs' = [refs EXCEPT ![n] = @ + 1]
          /\ Jump(t, "next")
       \/ /\ seen[t] # <<refs[n], should[n]>>
          /\ Jump(t, "head")
          /\ UNCHANGED refs
    /\ UNCHANGED <<freeListHead, should, next, head, node, nxt, seen, getting>>

LoadNext(t) ==
    /\ at[t] = "next"
    /\ nxt' = [nxt EXCEPT ![t] = next[node[t]]]
    /\ Jump(t, "pop")
    /\ UNCHANGED <<list, head, node, seen, getting>>

\* The pop; when it fails head is the value it found.
Pop(t) ==
    /\ at[t] = "pop"
    /\ \/ /\ freeListHead = node[t]
          /\ freeListHead' = nxt[t]
          /\ Jump(t, "release")
          /\ UNCHANGED head
       \/ /\ freeListHead # node[t]
          /\ head' = [head EXCEPT ![t] = freeListHead]
          /\ Jump(t, "drop")
          /\ UNCHANGED freeListHead
    /\ UNCHANGED <<refs, should, next, node, nxt, seen, getting>>

\* fetch_sub(2): the thread's reference and the list's.
Release(t) ==
    /\ at[t] = "release"
    /\ refs' = [refs EXCEPT ![node[t]] = @ - 2]
    /\ Return(t, node[t])
    /\ UNCHANGED <<freeListHead, should, next>>

\* Back to the test of the while, with the head the failed pop found.
Again(t) == IF head[t] = Null THEN Return(t, Null)
            ELSE Jump(t, "refs") /\ UNCHANGED <<head, node, nxt, seen, getting>>

\* fetch_sub(1); the last reader of a node that waits to be added adds it.
Drop(t) ==
    /\ at[t] = "drop"
    /\ LET n == node[t] IN
       /\ refs' = [refs EXCEPT ![n] = @ - 1]
       /\ \/ /\ refs[n] = 1 /\ should[n]
             /\ Jump(t, "load")
             /\ UNCHANGED <<head, node, nxt, seen, getting>>
          \/ /\ ~(refs[n] = 1 /\ should[n])
             /\ Again(t)
    /\ UNCHANGED <<freeListHead, should, next>>

-----------------------------------------------------------------------------
(* add(node) and add_knowing_refcount_is_zero(node), which try_get calls   *)
(* too; there nxt is its local head.                                       *)

CallAdd(t, n) == /\ at[t] = "out"
                 /\ Jump(t, "add")
                 /\ node' = [node EXCEPT ![t] = n]
                 /\ UNCHANGED <<list, head, nxt, seen, getting>>

\* Mutant: the node is pushed although a reader still holds it.
AddAtOnce(t) ==
    /\ at[t] = "add"
    /\ should' = [should EXCEPT ![node[t]] = TRUE]
    /\ Jump(t, "load")
    /\ UNCHANGED <<freeListHead, refs, next, head, node, nxt, seen, getting>>

\* fetch_add(SHOULD_BE_ON_FREELIST)
Add(t) ==
    /\ at[t] = "add"
    /\ should' = [should EXCEPT ![node[t]] = TRUE]
    /\ \/ /\ refs[node[t]] = 0
          /\ Jump(t, "load")
          /\ UNCHANGED <<head, node, nxt, seen, getting>>
       \/ /\ refs[node[t]] # 0
          /\ Return(t, Null)
    /\ UNCHANGED <<freeListHead, refs, next>>

LoadTop(t) ==
    /\ at[t] = "load"
    /\ nxt' = [nxt EXCEPT ![t] = freeListHead]
    /\ Jump(t, "link")
    /\ UNCHANGED <<list, head, node, seen, getting>>

Link(t) ==
    /\ at[t] = "link"
    /\ next' = [next EXCEPT ![node[t]] = nxt[t]]
    /\ Jump(t, "count")
    /\ UNCHANGED <<freeListHead, refs, should, head, node, nxt, seen, getting>>

\* freeListRefs.store(1): the list's reference; the top bit goes.
CountOne(t) ==
    /\ at[t] = "count"
    /\ refs' = [refs EXCEPT ![node[t]] = 1]
    /\ should' = [should EXCEPT ![node[t]] = FALSE]
    /\ Jump(t, "push")
    /\ UNCHANGED <<freeListHead, next, head, node, nxt, seen, getting>>

\* The end of add_knowing_refcount_is_zero, in try_get or in add.
AddReturns(t) == IF getting[t] THEN Again(t) ELSE Return(t, Null)

Push(t) ==
    /\ at[t] = "push"
    /\ \/ /\ freeListHead = nxt[t]
          /\ freeListHead' = node[t]
          /\ AddReturns(t)
       \/ /\ freeListHead # nxt[t]
          /\ nxt' = [nxt EXCEPT ![t] = freeListHead]
          /\ Jump(t, "undo")
          /\ UNCHANGED <<freeListHead, head, node, seen, getting>>
    /\ UNCHANGED <<refs, should, next>>

\* fetch_add(SHOULD_BE_ON_FREELIST - 1): the list's reference goes again.
Undo(t) ==
    /\ at[t] = "undo"
    /\ LET n == node[t] IN
       /\ refs' = [refs EXCEPT ![n] = @ - 1]
       /\ should' = [should EXCEPT ![n] = TRUE]
       /\ \/ /\ refs[n] = 1
             /\ Jump(t, "link")
             /\ UNCHANGED <<head, node, nxt, seen, getting>>
          \/ /\ refs[n] # 1
             /\ AddReturns(t)
    /\ UNCHANGED <<freeListHead, next>>

Step(t) == \/ LoadHead(t) \/ LoadRefs(t) \/ Hold(t) \/ LoadNext(t) \/ Pop(t)
           \/ Release(t) \/ Drop(t) \/ Add(t) \/ LoadTop(t) \/ Link(t)
           \/ CountOne(t) \/ Push(t) \/ Undo(t)

-----------------------------------------------------------------------------

FreeListTypes ==
    /\ freeListHead \in Nodes \cup {Null}
    /\ refs \in [Nodes -> Nat]
    /\ should \in [Nodes -> BOOLEAN]
    /\ next \in [Nodes -> Nodes \cup {Null}]
    /\ at \in [Threads -> {"out", "head", "refs", "hold", "next", "pop",
                           "release", "drop", "add", "load", "link", "count",
                           "push", "undo"}]
    /\ head \in [Threads -> Nodes \cup {Null}]
    /\ nxt \in [Threads -> Nodes \cup {Null}]
    /\ getting \in [Threads -> BOOLEAN]

\* The nodes that a walk along next finds from the head.
Listed ==
    LET Walk[k \in Nat] ==
          IF k = 0 THEN {freeListHead}
          ELSE Walk[k-1] \cup {next[n] : n \in Walk[k-1] \ {Null}}
    IN  Walk[Cardinality(Nodes)] \ {Null}

\* A node that a thread is about to push, alone responsible for it.
Pushing(t, n) == node[t] = n /\ at[t] \in {"add", "load", "link", "count", "push", "undo"}
\* A node whose pop t has won and whose references it still has to give back.
Popping(t, n) == node[t] = n /\ at[t] = "release"
\* A node that t will push for the thread that left it to its last reader.
Inheriting(n) == should[n] /\ \E t \in Threads : node[t] = n /\ at[t] \in {"next", "pop", "drop"}
=============================================================================
