--------------------------- MODULE ListenersProofs ---------------------------
(***************************************************************************)
(* Proofs about Listeners for every set of threads and of callbacks, and   *)
(* any number of calls of Emit and Clear: who was added is listed, an      *)
(* emission reaches all it owes, and who was removed in time stays silent. *)
(***************************************************************************)
EXTENDS Listeners, NaturalsInduction, WellFoundedInduction, TLAPS

AddOps == [call : {"add"}, at : {"load", "swap"}, fun : Funs,
           holds : Funs \cup {Nobody}, seen : Nat, made : Seq(Items)]
RemoveOps == [call : {"remove"}, at : {"load", "swap"}, fun : Funs,
              seen : Nat, made : Seq(Items)]
EmitOps == [call : {"emit"}, items : Seq(Items), due : SUBSET Funs,
            gone : SUBSET Funs, heard : SUBSET Funs]

\* A call is told by its field.
LEMMA OpsSplit ==
    ASSUME NEW o \in Ops
    PROVE  /\ o.call \in {"idle", "add", "remove", "emit"}
           /\ o.call = "idle" => o = Idle
           /\ o.call = "add" => o \in AddOps
           /\ o.call = "remove" => o \in RemoveOps
           /\ o.call = "emit" => o \in EmitOps
BY DEF Ops, AddOps, RemoveOps, EmitOps, Idle

LEMMA OpsJoin == /\ Idle \in Ops /\ AddOps \subseteq Ops /\ RemoveOps \subseteq Ops
                 /\ EmitOps \subseteq Ops
BY DEF Ops, AddOps, RemoveOps, EmitOps

\* What a copy without one place holds: the other places, in order.
LEMMA WithoutOne ==
    ASSUME NEW items \in Seq(Items), NEW p \in 1..Len(items)
    PROVE  /\ Without(items, p) \in Seq(Items)
           /\ Len(Without(items, p)) = Len(items) - 1
           /\ \A i \in 1..Len(items) - 1 :
                 Without(items, p)[i] = IF i < p THEN items[i] ELSE items[i + 1]
<1>1. Len(items) - 1 \in Nat
  OBVIOUS
<1>2. \A i \in 1..Len(items) - 1 : (IF i < p THEN items[i] ELSE items[i + 1]) \in Items
  OBVIOUS
<1> QED
  BY <1>1, <1>2 DEF Without

LEMMA TypesInit == Init => TypeOK
<1> SUFFICES ASSUME Init PROVE TypeOK
  OBVIOUS
<1>1. <<>> \in Seq(Items)
  OBVIOUS
<1>2. list \in [version : Nat, items : Seq(Items)] /\ nextId \in Nat
  BY <1>1 DEF Init
<1>3. op \in [Threads -> Ops]
  BY OpsJoin DEF Init
<1> QED
  BY <1>2, <1>3 DEF Init, TypeOK

(***************************************************************************)
(* The types of the list and of the calls in progress.                     *)
(***************************************************************************)
THEOREM ListenersTypes == Spec => []TypeOK
<1>1. Init => TypeOK
  BY TypesInit
<1>2. TypeOK /\ [Next]_vars => TypeOK'
  <2> SUFFICES ASSUME TypeOK, [Next]_vars PROVE TypeOK'
    OBVIOUS
  <2>1. ASSUME NEW t \in Threads, Calls(t) PROVE TypeOK'
    <3>1. CASE Clear(t)
      BY <3>1 DEF Clear, TypeOK
    <3>2. CASE EmitBegin(t)
      <4>1. [call |-> "emit", items |-> list.items, due |-> InState("added"),
             gone |-> InState("removed"), heard |-> {}] \in Ops
        BY OpsJoin DEF EmitOps, TypeOK, InState
      <4> QED
        BY <3>2, <4>1 DEF EmitBegin, Become, TypeOK
    <3>3. ASSUME NEW f \in Funs, AddBegin(t, f) PROVE TypeOK'
      <4>1. [call |-> "add", at |-> "load", fun |-> f, holds |-> f, seen |-> 0,
             made |-> <<>>] \in Ops
        BY OpsJoin, <<>> \in Seq(Items) DEF AddOps
      <4> QED
        BY <3>3, <4>1 DEF AddBegin, Become, Mark, TypeOK
    <3>4. ASSUME NEW f \in Funs, RemoveBegin(t, f) PROVE TypeOK'
      <4>1. [call |-> "remove", at |-> "load", fun |-> f, seen |-> 0,
             made |-> <<>>] \in Ops
        BY OpsJoin, <<>> \in Seq(Items) DEF RemoveOps
      <4> QED
        BY <3>4, <4>1 DEF RemoveBegin, Become, Mark, TypeOK
    <3> QED
      BY <2>1, <3>1, <3>2, <3>3, <3>4 DEF Calls
  <2>2. ASSUME NEW t \in Threads, Works(t) PROVE TypeOK'
    <3>0. op[t] \in Ops /\ list.items \in Seq(Items) /\ list.version \in Nat
      BY DEF TypeOK
    <3>a. ASSUME op[t].call \in {"add", "remove"}, Exchange(t)
          PROVE  list' \in [version : Nat, items : Seq(Items)] /\ op' \in [Threads -> Ops]
                 /\ disorder' \in BOOLEAN
      <4>1. op[t].made \in Seq(Items)
        BY <3>0, <3>a, OpsSplit DEF AddOps, RemoveOps
      <4>2. disorder' \in BOOLEAN
        BY <3>a DEF Exchange, OutOfOrder
      <4> QED
        BY <3>0, <3>a, <4>1, <4>2, OpsJoin DEF Exchange, Become, TypeOK
    <3>b. ASSUME op[t].call \in {"add", "remove"}, ExchangeFails(t)
          PROVE  op' \in [Threads -> Ops]
      <4>1. [op[t] EXCEPT !.at = "load"] \in Ops
        BY <3>0, <3>b, OpsSplit, OpsJoin DEF AddOps, RemoveOps
      <4> QED
        BY <3>b, <4>1 DEF ExchangeFails, TypeOK
    <3>1. CASE AddBuild(t)
      <4>1. op[t] \in AddOps
        BY <3>0, <3>1, OpsSplit DEF AddBuild
      <4>2. [id |-> ids[op[t].fun], fun |-> op[t].holds] \in Items
        BY <4>1 DEF AddOps, TypeOK, Items
      <4> DEFINE new == Append(list.items, [id |-> ids[op[t].fun], fun |-> op[t].holds])
      <4>3. new \in Seq(Items)
        BY <3>0, <4>2
      <4> HIDE DEF new
      <4>4. [op[t] EXCEPT !.at = "swap", !.seen = list.version, !.holds = Nobody,
                          !.made = new] \in AddOps
        BY <3>0, <4>1, <4>3 DEF AddOps
      <4> QED
        BY <3>1, <4>4, OpsJoin DEF AddBuild, Become, TypeOK, new
    <3>2. CASE AddSwap(t)
      BY <3>2, <3>a DEF AddSwap, Mark, TypeOK
    <3>3. CASE AddRetry(t)
      <4>1. op[t].fun \in Funs
        BY <3>0, <3>3, OpsSplit DEF AddRetry, AddOps
      <4> QED
        BY <3>3, <3>b, <4>1 DEF AddRetry, ExchangeFails, TypeOK
    <3>4. CASE RemoveMisses(t)
      BY <3>4, OpsJoin DEF RemoveMisses, Become, Mark, TypeOK
    <3>5. CASE RemoveBuild(t)
      <4>1. op[t] \in RemoveOps
        BY <3>0, <3>5, OpsSplit DEF RemoveBuild
      <4> DEFINE p == Bound(list.items, ids[op[t].fun])
      <4>2. Without(list.items, p) \in Seq(Items)
        BY <3>0, <3>5, WithoutOne DEF RemoveBuild, Found
      <4>3. [op[t] EXCEPT !.at = "swap", !.seen = list.version,
                !.made = Without(list.items, p)] \in RemoveOps
        BY <3>0, <4>1, <4>2 DEF RemoveOps
      <4> QED
        BY <3>5, <4>3, OpsJoin DEF RemoveBuild, Become, TypeOK
    <3>6. CASE RemoveSwap(t)
      BY <3>6, <3>a DEF RemoveSwap, Mark, TypeOK
    <3>7. CASE RemoveRetry(t)
      BY <3>7, <3>b DEF RemoveRetry, ExchangeFails, TypeOK
    <3>8. CASE EmitCall(t)
      <4>1. op[t] \in EmitOps
        BY <3>0, <3>8, OpsSplit DEF EmitCall
      <4>2. Head(op[t].items) \in Items /\ Tail(op[t].items) \in Seq(Items)
        BY <3>8, <4>1 DEF EmitCall, EmitOps
      <4>3. Head(op[t].items).fun \in Funs
        BY <3>8, <4>2 DEF EmitCall, Items
      <4>4. [op[t] EXCEPT !.items = Tail(@),
                !.heard = @ \cup {Head(op[t].items).fun}] \in EmitOps
        BY <4>1, <4>2, <4>3 DEF EmitOps
      <4> QED
        BY <3>8, <4>4, OpsJoin DEF EmitCall, Become, TypeOK
    <3>9. CASE EmitThrows(t)
      BY <3>9, OpsJoin DEF EmitThrows, Become, TypeOK
    <3>10. CASE EmitEnd(t)
      BY <3>10, OpsJoin DEF EmitEnd, Become, TypeOK
    <3> QED
      BY <2>2, <3>1, <3>2, <3>3, <3>4, <3>5, <3>6, <3>7, <3>8, <3>9, <3>10 DEF Works
  <2>3. CASE UNCHANGED vars
    BY <2>3 DEF vars, TypeOK
  <2> QED
    BY <2>1, <2>2, <2>3 DEF Next
<1> QED
  BY <1>1, <1>2, PTL DEF Spec

-----------------------------------------------------------------------------
(* Every callback keeps its place *)

\* Ids are drawn once, from below nextId.
IdsInv ==
    \A f \in Funs : state[f] # "new" =>
        /\ ids[f] < nextId
        /\ \A g \in Funs : state[g] # "new" /\ ids[g] = ids[f] => g = f

\* The item is that of f: it has its id, and f itself or, after a retry, nobody.
Of(item, f) == /\ item.id = ids[f]
               /\ item.fun = f \/ (f \in retried /\ item.fun = Nobody)

Entered(f) == state[f] \in {"added", "removing", "removed"}

\* The list has one item at most of each callback that was entered, and those
\* of the callbacks that are added.
ListInv ==
    /\ \A i, j \in 1..Len(list.items) : list.items[i].id = list.items[j].id => i = j
    /\ \A i \in 1..Len(list.items) :
          \E f \in Funs : Entered(f) /\ Of(list.items[i], f)
    /\ \A f \in Funs : state[f] = "added" =>
          \E i \in 1..Len(list.items) : Of(list.items[i], f)

\* A call that is about to exchange the pointer, and may succeed, has made its
\* copy of the present list.
MadeFromPresent(t) ==
    op[t].at = "swap" /\ op[t].seen = list.version =>
        IF op[t].call = "add"
        THEN \E item \in Items : Of(item, op[t].fun)
                                 /\ op[t].made = Append(list.items, item)
        ELSE \E p \in 1..Len(list.items) : list.items[p].id = ids[op[t].fun]
                                           /\ op[t].made = Without(list.items, p)

Busy(t) == op[t].call \in {"add", "remove"}

\* The callback of a call is marked as the call's, and what it holds is up to date.
CallOK(t) ==
    /\ state[op[t].fun] = IF op[t].call = "add" THEN "adding" ELSE "removing"
    /\ op[t].call = "add" /\ op[t].at = "load" =>
          \/ op[t].holds = op[t].fun
          \/ op[t].fun \in retried /\ op[t].holds = Nobody
    /\ op[t].call = "add" /\ op[t].at = "swap" => op[t].holds = Nobody
    /\ op[t].seen <= list.version /\ MadeFromPresent(t)

CallInv == \A t \in Threads : Busy(t) => CallOK(t)

ApartInv == \A t, u \in Threads : Busy(t) /\ Busy(u) /\ op[t].fun = op[u].fun => t = u

\* An Emit has called, or has still before it, each callback that is due, or is
\* going to meet an empty function.
EmitInv ==
    \A t \in Threads : op[t].call = "emit" =>
        \A f \in op[t].due :
            \/ f \in op[t].heard
            \/ \E i \in 1..Len(op[t].items) : op[t].items[i].fun \in {f, Nobody}

Inv == TypeOK /\ IdsInv /\ ListInv /\ CallInv /\ ApartInv /\ EmitInv

\* What is known of a call's callback.
LEMMA BusyFun ==
    ASSUME TypeOK, NEW t \in Threads, Busy(t)
    PROVE  /\ op[t].fun \in Funs /\ op[t].at \in {"load", "swap"} /\ op[t].seen \in Nat
           /\ op[t].made \in Seq(Items)
BY OpsSplit DEF TypeOK, Busy, AddOps, RemoveOps

\* A step that leaves the list, the ids in use and the callbacks that were
\* entered keeps ListInv.
LEMMA ListKept ==
    ASSUME Inv, list' = list, retried \subseteq retried',
           \A f \in Funs : state[f] # "new" => ids'[f] = ids[f],
           \A f \in Funs : /\ Entered(f) => Entered(f)'
                           /\ state'[f] = "added" => state[f] = "added"
    PROVE  ListInv'
<1>1. \A i \in 1..Len(list.items) :
         \E f \in Funs : Entered(f)' /\ Of(list.items[i], f)'
  <2> SUFFICES ASSUME NEW i \in 1..Len(list.items)
               PROVE  \E f \in Funs : Entered(f)' /\ Of(list.items[i], f)'
    OBVIOUS
  <2>1. PICK f \in Funs : Entered(f) /\ Of(list.items[i], f)
    BY DEF Inv, ListInv
  <2>2. ids'[f] = ids[f] /\ Entered(f)'
    BY <2>1 DEF Entered
  <2> QED
    BY <2>1, <2>2 DEF Of
<1>2. \A f \in Funs : state'[f] = "added" =>
         \E i \in 1..Len(list.items) : Of(list.items[i], f)'
  <2> SUFFICES ASSUME NEW f \in Funs, state'[f] = "added"
               PROVE  \E i \in 1..Len(list.items) : Of(list.items[i], f)'
    OBVIOUS
  <2>1. PICK i \in 1..Len(list.items) : Of(list.items[i], f)
    BY DEF Inv, ListInv
  <2>2. state[f] # "new" /\ ids'[f] = ids[f]
    OBVIOUS
  <2> QED
    BY <2>1, <2>2 DEF Of
<1> QED
  BY <1>1, <1>2 DEF Inv, ListInv

\* A call that a step of another thread leaves alone: if the list was exchanged
\* its own exchange is bound to fail.
LEMMA CallKept ==
    ASSUME Inv, NEW u \in Threads, Busy(u), op'[u] = op[u],
           \/ list' = list
           \/ list'.version = list.version + 1,
           retried \subseteq retried', ids'[op[u].fun] = ids[op[u].fun],
           state'[op[u].fun] = state[op[u].fun]
    PROVE  CallOK(u)'
<1>1. list.version \in Nat /\ op[u].seen \in Nat
  BY BusyFun DEF Inv, TypeOK
<1>2. op[u].seen <= list.version /\ MadeFromPresent(u)
  BY DEF Inv, CallInv, CallOK
<1>3. CASE list' = list
  <2>1. \A item : Of(item, op[u].fun) => Of(item, op[u].fun)'
    BY DEF Of
  <2> QED
    BY <1>2, <1>3, <2>1 DEF Inv, CallInv, CallOK, MadeFromPresent
<1>4. CASE list'.version = list.version + 1
  <2>1. op[u].seen <= list'.version /\ op[u].seen # list'.version
    BY <1>1, <1>2, <1>4
  <2> QED
    BY <2>1 DEF Inv, CallInv, CallOK, MadeFromPresent
<1> QED
  BY <1>3, <1>4

\* A step that leaves the calls that are busy alone, all but t's, which is busy
\* no more.
LEMMA ApartKept ==
    ASSUME Inv, NEW t \in Threads,
           \A u \in Threads \ {t} : op'[u] = op[u],
           ~Busy(t)' \/ (Busy(t) /\ Busy(t)' /\ op'[t].fun = op[t].fun)
    PROVE  ApartInv'
BY DEF Inv, ApartInv, Busy

\* The same for EmitInv, with t's call not that of an Emit.
LEMMA EmitKept ==
    ASSUME Inv, NEW t \in Threads,
           \A u \in Threads \ {t} : op'[u] = op[u],
           op'[t] # op[t] => op'[t].call # "emit"
    PROVE  EmitInv'
BY DEF Inv, EmitInv

(***************************************************************************)
(* The exchange of AddListener and Add.                                    *)
(***************************************************************************)
LEMMA AddSwapKeeps ==
    ASSUME Inv, NEW t \in Threads, AddSwap(t), TypeOK'
    PROVE  Inv'
<1> DEFINE f == op[t].fun
<1>1. /\ op[t].call = "add" /\ op[t].at = "swap" /\ op[t].seen = list.version
      /\ list' = [version |-> list.version + 1, items |-> op[t].made]
      /\ op' = [op EXCEPT ![t] = Idle] /\ state' = [state EXCEPT ![f] = "added"]
      /\ ids' = ids /\ nextId' = nextId /\ retried' = retried
  BY DEF AddSwap, Exchange, Become, Mark
<1>2. f \in Funs /\ state[f] = "adding" /\ Busy(t)
  BY <1>1, BusyFun DEF Inv, CallInv, CallOK, Busy
<1>3. PICK item \in Items : Of(item, f) /\ op[t].made = Append(list.items, item)
  BY <1>1, <1>2 DEF Inv, CallInv, CallOK, MadeFromPresent
<1>4. list.items \in Seq(Items) /\ list.version \in Nat
      /\ state \in [Funs -> {"new", "adding", "added", "removing", "removed"}]
      /\ op \in [Threads -> Ops]
  BY DEF Inv, TypeOK
<1> HIDE DEF f
<1> DEFINE n == Len(list.items)
<1>5. /\ Len(list'.items) = n + 1 /\ n \in Nat /\ list'.items[n + 1] = item
      /\ \A i \in 1..n : list'.items[i] = list.items[i]
  BY <1>1, <1>3, <1>4
<1>6. \A g \in Funs : state'[g] = IF g = f THEN "added" ELSE state[g]
  BY <1>1, <1>2, <1>4
<1>7. IdsInv'
  BY <1>1, <1>2, <1>6 DEF Inv, IdsInv
<1>8. ListInv'
  <2>1. \A i \in 1..n : list.items[i].id # ids[f]
    <3> SUFFICES ASSUME NEW i \in 1..n, list.items[i].id = ids[f] PROVE FALSE
      OBVIOUS
    <3>1. PICK g \in Funs : Entered(g) /\ Of(list.items[i], g)
      BY DEF Inv, ListInv
    <3>2. g = f
      BY <1>2, <3>1 DEF Inv, IdsInv, Entered, Of
    <3> QED
      BY <1>2, <3>1, <3>2 DEF Entered
  <2>2. \A i, j \in 1..n + 1 : list'.items[i].id = list'.items[j].id => i = j
    <3>1. \A i \in 1..n : list'.items[i].id # list'.items[n + 1].id
      BY <1>3, <1>5, <2>1 DEF Of
    <3>2. \A i, j \in 1..n : list'.items[i].id = list'.items[j].id => i = j
      BY <1>5 DEF Inv, ListInv
    <3>3. \A i \in 1..n + 1 : i \in 1..n \/ i = n + 1
      BY <1>5
    <3> QED
      BY <3>1, <3>2, <3>3
  <2>3. \A i \in 1..n + 1 : \E g \in Funs : Entered(g)' /\ Of(list.items[i], g)'
    <3> SUFFICES ASSUME NEW i \in 1..n + 1
                 PROVE  \E g \in Funs : Entered(g)' /\ Of(list.items[i], g)'
      OBVIOUS
    <3>1. CASE i = n + 1
      BY <1>1, <1>2, <1>3, <1>5, <1>6, <3>1 DEF Entered, Of
    <3>2. CASE i \in 1..n
      <4>1. PICK g \in Funs : Entered(g) /\ Of(list.items[i], g)
        BY <3>2 DEF Inv, ListInv
      <4> QED
        BY <1>1, <1>5, <1>6, <3>2, <4>1 DEF Entered, Of
    <3> QED
      BY <1>5, <3>1, <3>2
  <2>4. \A g \in Funs : state'[g] = "added" =>
           \E i \in 1..n + 1 : Of(list.items[i], g)'
    <3> SUFFICES ASSUME NEW g \in Funs, state'[g] = "added"
                 PROVE  \E i \in 1..n + 1 : Of(list.items[i], g)'
      OBVIOUS
    <3>1. CASE g = f
      BY SMTT(15), <1>1, <1>3, <1>5, <3>1 DEF Of
    <3>2. CASE g # f
      <4>1. PICK i \in 1..n : Of(list.items[i], g)
        BY <1>6, <3>2 DEF Inv, ListInv
      <4>2. Of(list.items[i], g)' /\ i \in 1..n + 1
        BY <1>1, <1>5, <4>1 DEF Of
      <4> QED
        BY <4>2
    <3> QED
      BY <3>1, <3>2
  <2> QED
    BY <1>5, <2>2, <2>3, <2>4 DEF ListInv
<1>9. CallInv' /\ ApartInv' /\ EmitInv'
  <2>1. op'[t] = Idle /\ ~Busy(t)' /\ \A u \in Threads \ {t} : op'[u] = op[u]
    BY <1>1, <1>4 DEF Busy, Idle
  <2>2. ASSUME NEW u \in Threads, Busy(u)'
        PROVE  u # t /\ op'[u] = op[u] /\ Busy(u) /\ state'[op[u].fun] = state[op[u].fun]
    <3>1. u # t /\ op'[u] = op[u] /\ Busy(u)
      BY <2>1, <2>2 DEF Busy
    <3> QED
      BY <1>2, <1>6, <3>1, BusyFun DEF Inv, ApartInv, f
  <2>3. CallInv'
    BY <1>1, <2>2, CallKept DEF CallInv
  <2> QED
    BY <2>1, <2>3, ApartKept, EmitKept DEF Idle
<1> QED
  BY <1>7, <1>8, <1>9 DEF Inv

(***************************************************************************)
(* The exchange of RemoveListener.                                         *)
(***************************************************************************)
LEMMA RemoveSwapKeeps ==
    ASSUME Inv, NEW t \in Threads, RemoveSwap(t), TypeOK'
    PROVE  Inv'
<1> DEFINE f == op[t].fun
<1>1. /\ op[t].call = "remove" /\ op[t].at = "swap" /\ op[t].seen = list.version
      /\ list' = [version |-> list.version + 1, items |-> op[t].made]
      /\ op' = [op EXCEPT ![t] = Idle] /\ state' = [state EXCEPT ![f] = "removed"]
      /\ ids' = ids /\ nextId' = nextId /\ retried' = retried
  BY DEF RemoveSwap, Exchange, Become, Mark
<1>2. f \in Funs /\ state[f] = "removing" /\ Busy(t)
  BY <1>1, BusyFun DEF Inv, CallInv, CallOK, Busy
<1> DEFINE n == Len(list.items)
<1>3. PICK p \in 1..n : list.items[p].id = ids[f] /\ op[t].made = Without(list.items, p)
  BY <1>1, <1>2 DEF Inv, CallInv, CallOK, MadeFromPresent
<1>4. list.items \in Seq(Items) /\ list.version \in Nat
      /\ state \in [Funs -> {"new", "adding", "added", "removing", "removed"}]
      /\ op \in [Threads -> Ops]
  BY DEF Inv, TypeOK
<1>5. /\ list'.items = Without(list.items, p)
      /\ Len(list'.items) = n - 1 /\ n \in Nat
      /\ \A i \in 1..n - 1 : list'.items[i] = IF i < p THEN list.items[i]
                                                       ELSE list.items[i + 1]
  <2>1. list'.items = Without(list.items, p)
    BY <1>1, <1>3
  <2>2. /\ Len(Without(list.items, p)) = n - 1
        /\ \A i \in 1..n - 1 : Without(list.items, p)[i] = IF i < p THEN list.items[i]
                                                            ELSE list.items[i + 1]
    BY <1>3, <1>4, WithoutOne
  <2> QED
    BY <1>4, <2>1, <2>2
<1> HIDE DEF f, n
<1>6. \A g \in Funs : state'[g] = IF g = f THEN "removed" ELSE state[g]
  BY <1>1, <1>2, <1>4
<1>7. IdsInv'
  BY <1>1, <1>2, <1>6 DEF Inv, IdsInv
<1>8. ListInv'
  <2> DEFINE from(i) == IF i < p THEN i ELSE i + 1
  <2>1. \A i \in 1..n - 1 : from(i) \in 1..n /\ list'.items[i] = list.items[from(i)]
    BY <1>3, <1>5
  <2>2. \A i, j \in 1..n - 1 : from(i) = from(j) => i = j
    BY <1>3, <1>5
  <2> HIDE DEF from
  <2>3. \A i, j \in 1..n : list.items[i].id = list.items[j].id => i = j
    BY DEF Inv, ListInv, n
  <2>4. \A i, j \in 1..n - 1 : list'.items[i].id = list'.items[j].id => i = j
    BY <2>1, <2>2, <2>3
  <2>5. \A i \in 1..n - 1 : \E g \in Funs : Entered(g)' /\ Of(list.items[i], g)'
    <3> SUFFICES ASSUME NEW i \in 1..n - 1
                 PROVE  \E g \in Funs : Entered(g)' /\ Of(list.items[i], g)'
      OBVIOUS
    <3>1. PICK g \in Funs : Entered(g) /\ Of(list.items[from(i)], g)
      BY <2>1 DEF Inv, ListInv, n
    <3> QED
      BY <1>1, <1>6, <2>1, <3>1 DEF Entered, Of
  <2>6. \A g \in Funs : state'[g] = "added" =>
           \E i \in 1..n - 1 : Of(list.items[i], g)'
    <3> SUFFICES ASSUME NEW g \in Funs, state'[g] = "added"
                 PROVE  \E i \in 1..n - 1 : Of(list.items[i], g)'
      OBVIOUS
    <3>1. g # f /\ state[g] = "added"
      BY <1>6
    <3>2. PICK k \in 1..n : Of(list.items[k], g)
      BY <3>1 DEF Inv, ListInv, n
    <3>3. k # p
      BY <1>2, <1>3, <3>1, <3>2 DEF Inv, IdsInv, Of
    <3> DEFINE i == IF k < p THEN k ELSE k - 1
    <3>4. i \in 1..n - 1 /\ from(i) = k
      BY <1>3, <1>5, <3>2, <3>3 DEF from
    <3> HIDE DEF i
    <3>5. Of(list.items[i], g)'
      BY <1>1, <2>1, <3>2, <3>4 DEF Of
    <3> QED
      BY <3>4, <3>5
  <2> QED
    BY <1>5, <2>4, <2>5, <2>6 DEF ListInv
<1>9. CallInv' /\ ApartInv' /\ EmitInv'
  <2>1. op'[t] = Idle /\ ~Busy(t)' /\ \A u \in Threads \ {t} : op'[u] = op[u]
    BY <1>1, <1>4 DEF Busy, Idle
  <2>2. ASSUME NEW u \in Threads, Busy(u)'
        PROVE  u # t /\ op'[u] = op[u] /\ Busy(u) /\ state'[op[u].fun] = state[op[u].fun]
    <3>1. u # t /\ op'[u] = op[u] /\ Busy(u)
      BY <2>1, <2>2 DEF Busy
    <3> QED
      BY <1>2, <1>6, <3>1, BusyFun DEF Inv, ApartInv, f
  <2>3. CallInv'
    BY <1>1, <2>2, CallKept DEF CallInv
  <2> QED
    BY <2>1, <2>3, ApartKept, EmitKept DEF Idle
<1> QED
  BY <1>7, <1>8, <1>9 DEF Inv

(***************************************************************************)
(* The beginnings of AddListener and Add, and of RemoveListener.           *)
(***************************************************************************)
LEMMA AddBeginKeeps ==
    ASSUME Inv, NEW t \in Threads, NEW f \in Funs, AddBegin(t, f), TypeOK'
    PROVE  Inv'
<1> DEFINE o == [call |-> "add", at |-> "load", fun |-> f, holds |-> f,
                 seen |-> 0, made |-> <<>>]
<1>1. /\ op[t] = Idle /\ state[f] = "new" /\ op' = [op EXCEPT ![t] = o]
      /\ state' = [state EXCEPT ![f] = "adding"] /\ ids' = [ids EXCEPT ![f] = nextId]
      /\ nextId' = nextId + 1 /\ list' = list /\ retried' = retried
  BY DEF AddBegin, Become, Mark
<1>2. /\ state \in [Funs -> {"new", "adding", "added", "removing", "removed"}]
      /\ op \in [Threads -> Ops] /\ ids \in [Funs -> Nat] /\ nextId \in Nat
      /\ list.version \in Nat
  BY DEF Inv, TypeOK
<1>3. /\ op'[t] = o /\ ids'[f] = nextId /\ state'[f] = "adding"
      /\ \A u \in Threads \ {t} : op'[u] = op[u]
      /\ \A g \in Funs \ {f} : ids'[g] = ids[g] /\ state'[g] = state[g]
  BY <1>1, <1>2
<1>4. IdsInv'
  BY <1>1, <1>2, <1>3 DEF Inv, IdsInv
<1>5. ListInv'
  BY <1>1, <1>3, ListKept DEF Entered
<1>6. \A u \in Threads \ {t} : Busy(u)' =>
         /\ op'[u] = op[u] /\ Busy(u) /\ op[u].fun \in Funs \ {f}
  BY <1>1, <1>3, BusyFun DEF Inv, CallInv, CallOK, Busy
<1>7. CallInv'
  <2> SUFFICES ASSUME NEW u \in Threads, Busy(u)'
               PROVE  CallOK(u)'
    BY DEF CallInv
  <2>1. CASE u = t
    BY <1>1, <1>2, <1>3, <2>1 DEF CallOK, MadeFromPresent
  <2>2. CASE u # t
    BY <1>1, <1>3, <1>6, <2>2, CallKept
  <2> QED
    BY <2>1, <2>2
<1>8. ApartInv'
  BY <1>3, <1>6 DEF Inv, ApartInv
<1>9. EmitInv'
  BY <1>3, EmitKept
<1> QED
  BY <1>4, <1>5, <1>7, <1>8, <1>9 DEF Inv

LEMMA RemoveBeginKeeps ==
    ASSUME Inv, NEW t \in Threads, NEW f \in Funs, RemoveBegin(t, f), TypeOK'
    PROVE  Inv'
<1> DEFINE o == [call |-> "remove", at |-> "load", fun |-> f, seen |-> 0, made |-> <<>>]
<1>1. /\ op[t] = Idle /\ state[f] = "added" /\ op' = [op EXCEPT ![t] = o]
      /\ state' = [state EXCEPT ![f] = "removing"]
      /\ ids' = ids /\ nextId' = nextId /\ list' = list /\ retried' = retried
  BY DEF RemoveBegin, Become, Mark
<1>2. /\ state \in [Funs -> {"new", "adding", "added", "removing", "removed"}]
      /\ op \in [Threads -> Ops] /\ list.version \in Nat
  BY DEF Inv, TypeOK
<1>3. /\ op'[t] = o /\ state'[f] = "removing"
      /\ \A u \in Threads \ {t} : op'[u] = op[u]
      /\ \A g \in Funs \ {f} : state'[g] = state[g]
  BY <1>1, <1>2
<1>4. IdsInv'
  BY <1>1, <1>3 DEF Inv, IdsInv
<1>5. ListInv'
  BY <1>1, <1>3, ListKept DEF Entered
<1>6. \A u \in Threads \ {t} : Busy(u)' =>
         /\ op'[u] = op[u] /\ Busy(u) /\ op[u].fun \in Funs \ {f}
  BY <1>1, <1>3, BusyFun DEF Inv, CallInv, CallOK, Busy
<1>7. CallInv'
  <2> SUFFICES ASSUME NEW u \in Threads, Busy(u)'
               PROVE  CallOK(u)'
    BY DEF CallInv
  <2>1. CASE u = t
    BY <1>1, <1>2, <1>3, <2>1 DEF CallOK, MadeFromPresent
  <2>2. CASE u # t
    BY <1>1, <1>3, <1>6, <2>2, CallKept
  <2> QED
    BY <2>1, <2>2
<1>8. ApartInv'
  BY <1>3, <1>6 DEF Inv, ApartInv
<1>9. EmitInv'
  BY <1>3, EmitKept
<1> QED
  BY <1>4, <1>5, <1>7, <1>8, <1>9 DEF Inv

(***************************************************************************)
(* The steps that only change the call of one thread: the copies, the      *)
(* exchanges that fail, and those of Emit.                                 *)
(***************************************************************************)
LEMMA PrivateKeeps ==
    ASSUME Inv, NEW t \in Threads, TypeOK',
           \A u \in Threads \ {t} : op'[u] = op[u],
           list' = list, nextId' = nextId, ids' = ids, retried \subseteq retried',
           \A f \in Funs : \/ state'[f] = state[f]
                           \/ /\ state[f] = "removing" /\ state'[f] = "removed"
                              /\ Busy(t) /\ ~Busy(t)' /\ op[t].fun = f,
           ~Busy(t)' \/ (Busy(t) /\ op'[t].fun = op[t].fun
                         /\ state'[op[t].fun] = state[op[t].fun] /\ CallOK(t)')
    PROVE  /\ IdsInv' /\ ListInv' /\ CallInv' /\ ApartInv'
           /\ (op'[t].call # "emit" => EmitInv')
<1>1. IdsInv'
  BY DEF Inv, IdsInv
<1>2. ListInv'
  BY ListKept DEF Entered
<1>3. CallInv'
  <2> SUFFICES ASSUME NEW u \in Threads, Busy(u)'
               PROVE  CallOK(u)'
    BY DEF CallInv
  <2>1. CASE u = t
    BY <2>1
  <2>2. CASE u # t
    <3>1. op'[u] = op[u] /\ Busy(u) /\ op[u].fun \in Funs
      BY <2>2, BusyFun DEF Busy, Inv
    <3>2. state'[op[u].fun] = state[op[u].fun]
      BY <2>2, <3>1 DEF Inv, ApartInv
    <3> QED
      BY <3>1, <3>2, CallKept
  <2> QED
    BY <2>1, <2>2
<1>4. ApartInv'
  BY ApartKept
<1>5. op'[t].call # "emit" => EmitInv'
  BY EmitKept
<1> QED
  BY <1>1, <1>2, <1>3, <1>4, <1>5

LEMMA AddBuildKeeps ==
    ASSUME Inv, NEW t \in Threads, AddBuild(t), TypeOK'
    PROVE  Inv'
<1> DEFINE item == [id |-> ids[op[t].fun], fun |-> op[t].holds]
           new == Append(list.items, item)
           o == [op[t] EXCEPT !.at = "swap", !.seen = list.version, !.holds = Nobody,
                              !.made = new]
<1>1. /\ op[t].call = "add" /\ op[t].at = "load" /\ op' = [op EXCEPT ![t] = o]
      /\ list' = list /\ nextId' = nextId /\ ids' = ids /\ state' = state
      /\ retried' = retried
  BY DEF AddBuild, Become
<1>2. op \in [Threads -> Ops] /\ op[t] \in AddOps /\ ids \in [Funs -> Nat]
      /\ list.version \in Nat
  BY <1>1, OpsSplit DEF Inv, TypeOK
<1>3. Busy(t) /\ CallOK(t)
  BY <1>1 DEF Inv, CallInv, Busy
<1>4. item \in Items /\ Of(item, op[t].fun)
  BY <1>1, <1>2, <1>3 DEF CallOK, AddOps, Items, Of
<1> HIDE DEF item, new
<1>5. /\ op'[t] = o /\ \A u \in Threads \ {t} : op'[u] = op[u]
      /\ o.call = "add" /\ o.at = "swap" /\ o.seen = list.version /\ o.made = new
      /\ o.holds = Nobody
      /\ o.fun = op[t].fun
  BY <1>1, <1>2 DEF AddOps
<1>6. MadeFromPresent(t)'
  BY <1>1, <1>4, <1>5 DEF MadeFromPresent, Of, new
<1>7. CallOK(t)'
  BY <1>1, <1>2, <1>3, <1>5, <1>6 DEF CallOK
<1>8. Busy(t)'
  BY <1>5 DEF Busy
<1> QED
  BY <1>1, <1>3, <1>5, <1>7, <1>8, PrivateKeeps DEF Inv

LEMMA RemoveBuildKeeps ==
    ASSUME Inv, NEW t \in Threads, RemoveBuild(t), TypeOK'
    PROVE  Inv'
<1> DEFINE p == Bound(list.items, ids[op[t].fun])
           new == Without(list.items, p)
           o == [op[t] EXCEPT !.at = "swap", !.seen = list.version, !.made = new]
<1>1. /\ op[t].call = "remove" /\ op[t].at = "load" /\ op' = [op EXCEPT ![t] = o]
      /\ Found(list.items, ids[op[t].fun])
      /\ list' = list /\ nextId' = nextId /\ ids' = ids /\ state' = state
      /\ retried' = retried
  BY DEF RemoveBuild, Become
<1>2. op \in [Threads -> Ops] /\ op[t] \in RemoveOps /\ list.version \in Nat
  BY <1>1, OpsSplit DEF Inv, TypeOK
<1>3. Busy(t) /\ CallOK(t)
  BY <1>1 DEF Inv, CallInv, Busy
<1>4. p \in 1..Len(list.items) /\ list.items[p].id = ids[op[t].fun]
  BY <1>1 DEF Found
<1> HIDE DEF p, new
<1>5. /\ op'[t] = o /\ \A u \in Threads \ {t} : op'[u] = op[u]
      /\ o.call = "remove" /\ o.at = "swap" /\ o.seen = list.version /\ o.made = new
      /\ o.fun = op[t].fun
  BY <1>1, <1>2 DEF RemoveOps
<1>6. MadeFromPresent(t)'
  BY <1>1, <1>4, <1>5 DEF MadeFromPresent, new
<1>7. CallOK(t)'
  BY <1>1, <1>2, <1>3, <1>5, <1>6 DEF CallOK
<1>8. Busy(t)'
  BY <1>5 DEF Busy
<1> QED
  BY <1>1, <1>3, <1>5, <1>7, <1>8, PrivateKeeps DEF Inv

\* The exchange fails and the call begins its round again.
LEMMA RetryKeeps ==
    ASSUME Inv, NEW t \in Threads, AddRetry(t) \/ RemoveRetry(t), TypeOK'
    PROVE  Inv'
<1> DEFINE o == [op[t] EXCEPT !.at = "load"]
<1>1. /\ Busy(t) /\ op' = [op EXCEPT ![t] = o] /\ list' = list /\ nextId' = nextId
      /\ ids' = ids /\ state' = state
      /\ retried' = IF op[t].call = "add" THEN retried \cup {op[t].fun} ELSE retried
      /\ op[t].at = "swap"
  BY DEF AddRetry, RemoveRetry, ExchangeFails, Busy
<1>2. op \in [Threads -> Ops] /\ op[t] \in AddOps \cup RemoveOps
      /\ list.version \in Nat
  BY <1>1, OpsSplit DEF Inv, TypeOK, Busy
<1>3. CallOK(t)
  BY <1>1 DEF Inv, CallInv
<1>4. /\ op'[t] = o /\ \A u \in Threads \ {t} : op'[u] = op[u]
      /\ o.call = op[t].call /\ o.at = "load" /\ o.seen = op[t].seen
      /\ o.fun = op[t].fun
      /\ (op[t].call = "add" => o.holds = op[t].holds)
  BY <1>1, <1>2 DEF AddOps, RemoveOps
<1>5. Busy(t)' /\ MadeFromPresent(t)'
  BY <1>1, <1>4 DEF Busy, MadeFromPresent
<1>6. CallOK(t)'
  <2>1. op[t].call \in {"add", "remove"} /\ op[t].fun \in Funs
    BY <1>1, <1>2 DEF AddOps, RemoveOps
  <2>2. o.call = "add" => o.holds = Nobody /\ o.fun \in retried'
    BY <1>1, <1>3, <1>4 DEF CallOK
  <2> HIDE DEF o
  <2> QED
    BY <1>1, <1>3, <1>4, <1>5, <2>1, <2>2 DEF CallOK
<1>7. o.call # "emit" /\ retried \subseteq retried'
  BY <1>1, <1>4 DEF Busy
<1> HIDE DEF o
<1> QED
  BY <1>1, <1>4, <1>5, <1>6, <1>7, PrivateKeeps DEF Inv

(***************************************************************************)
(* Emit and operator().                                                    *)
(***************************************************************************)
LEMMA EmitBeginKeeps ==
    ASSUME Inv, NEW t \in Threads, EmitBegin(t), TypeOK'
    PROVE  Inv'
<1> DEFINE o == [call |-> "emit", items |-> list.items, due |-> InState("added"),
                 gone |-> InState("removed"), heard |-> {}]
<1>1. /\ op[t] = Idle /\ op' = [op EXCEPT ![t] = o]
      /\ list' = list /\ nextId' = nextId /\ ids' = ids /\ state' = state
      /\ retried' = retried
  BY DEF EmitBegin, Become
<1>2. op \in [Threads -> Ops]
  BY DEF Inv, TypeOK
<1>3. op'[t] = o /\ ~Busy(t)' /\ \A u \in Threads \ {t} : op'[u] = op[u]
  BY <1>1, <1>2 DEF Busy
<1>4. \A f \in InState("added") :
         \E i \in 1..Len(list.items) : list.items[i].fun \in {f, Nobody}
  BY DEF Inv, ListInv, InState, Of
<1>5. EmitInv'
  BY <1>3, <1>4 DEF Inv, EmitInv
<1> QED
  BY <1>1, <1>3, <1>5, PrivateKeeps DEF Inv

LEMMA EmitCallKeeps ==
    ASSUME Inv, NEW t \in Threads, EmitCall(t), TypeOK'
    PROVE  Inv'
<1> DEFINE items == op[t].items
           o == [op[t] EXCEPT !.items = Tail(@),
                              !.heard = @ \cup {Head(op[t].items).fun}]
<1>1. /\ op[t].call = "emit" /\ items # <<>> /\ Head(items).fun # Nobody
      /\ op' = [op EXCEPT ![t] = o]
      /\ list' = list /\ nextId' = nextId /\ ids' = ids /\ state' = state
      /\ retried' = retried
  BY DEF EmitCall, Become
<1>2. op \in [Threads -> Ops] /\ op[t] \in EmitOps /\ items \in Seq(Items)
  BY <1>1, OpsSplit DEF Inv, TypeOK, EmitOps
<1>3. /\ op'[t] = o /\ ~Busy(t)' /\ \A u \in Threads \ {t} : op'[u] = op[u]
      /\ o.call = "emit" /\ o.due = op[t].due /\ o.items = Tail(items)
      /\ o.heard = op[t].heard \cup {items[1].fun}
  BY <1>1, <1>2 DEF Busy, EmitOps
<1>4. /\ Len(Tail(items)) = Len(items) - 1 /\ items[1].fun # Nobody
      /\ \A i \in 1..Len(items) : i = 1 \/ (i - 1 \in 1..Len(Tail(items))
                                           /\ Tail(items)[i - 1] = items[i])
  BY <1>1, <1>2
<1> HIDE DEF o, items
<1>5. \A f \in o.due : \/ f \in o.heard
                       \/ \E i \in 1..Len(o.items) : o.items[i].fun \in {f, Nobody}
  <2> SUFFICES ASSUME NEW f \in o.due, f \notin o.heard
               PROVE  \E i \in 1..Len(o.items) : o.items[i].fun \in {f, Nobody}
    OBVIOUS
  <2>1. PICK i \in 1..Len(items) : items[i].fun \in {f, Nobody}
    BY <1>1, <1>3 DEF Inv, EmitInv, items
  <2>2. i # 1
    BY <1>3, <1>4, <2>1
  <2>3. i - 1 \in 1..Len(o.items) /\ o.items[i - 1] = items[i]
    BY <1>3, <1>4, <2>2
  <2> QED
    BY <2>1, <2>3
<1>6. EmitInv'
  BY <1>3, <1>5 DEF Inv, EmitInv
<1> QED
  BY <1>1, <1>3, <1>6, PrivateKeeps DEF Inv

\* Calls that end without an exchange.
LEMMA EndKeeps ==
    ASSUME Inv, NEW t \in Threads, RemoveMisses(t) \/ EmitThrows(t) \/ EmitEnd(t), TypeOK'
    PROVE  Inv'
<1>1. /\ op' = [op EXCEPT ![t] = Idle]
      /\ list' = list /\ nextId' = nextId /\ ids' = ids /\ retried' = retried
      /\ \/ state' = state
         \/ /\ op[t].call = "remove"
            /\ state' = [state EXCEPT ![op[t].fun] = "removed"]
  BY DEF RemoveMisses, EmitThrows, EmitEnd, Become, Mark
<1>2. op \in [Threads -> Ops]
      /\ state \in [Funs -> {"new", "adding", "added", "removing", "removed"}]
  BY DEF Inv, TypeOK
<1>3. /\ op'[t] = Idle /\ ~Busy(t)' /\ \A u \in Threads \ {t} : op'[u] = op[u]
      /\ Idle.call # "emit"
  BY <1>1, <1>2 DEF Busy, Idle
<1>4. op[t].call = "remove" => state[op[t].fun] = "removing" /\ Busy(t)
  BY DEF Inv, CallInv, CallOK, Busy
<1>5. \A f \in Funs : \/ state'[f] = state[f]
                      \/ /\ state[f] = "removing" /\ state'[f] = "removed"
                         /\ Busy(t) /\ ~Busy(t)' /\ op[t].fun = f
  BY <1>1, <1>2, <1>3, <1>4
<1> QED
  BY <1>1, <1>3, <1>5, PrivateKeeps DEF Inv

\* Clear empties the list, and with it every exchange under way fails.
LEMMA ClearKeeps ==
    ASSUME Inv, NEW t \in Threads, Clear(t), TypeOK'
    PROVE  Inv'
<1>1. /\ list' = [version |-> list.version + 1, items |-> <<>>]
      /\ state' = [f \in Funs |-> IF state[f] = "added" THEN "removed" ELSE state[f]]
      /\ nextId' = nextId /\ op' = op /\ ids' = ids /\ retried' = retried
  BY DEF Clear
<1>2. Len(list'.items) = 0
  BY <1>1
<1>3. IdsInv' /\ ListInv'
  BY <1>1, <1>2 DEF Inv, IdsInv, ListInv, Entered
<1>4. CallInv'
  <2> SUFFICES ASSUME NEW u \in Threads, Busy(u)'
               PROVE  CallOK(u)'
    BY DEF CallInv
  <2>1. Busy(u) /\ op'[u] = op[u] /\ op[u].fun \in Funs
    BY <1>1, BusyFun DEF Busy, Inv
  <2>2. state'[op[u].fun] = state[op[u].fun]
    BY <1>1, <2>1 DEF Inv, CallInv, CallOK
  <2> QED
    BY <1>1, <2>1, <2>2, CallKept
<1> QED
  BY <1>1, <1>3, <1>4 DEF Inv, ApartInv, EmitInv, Busy

\* The invariant is inductive.
LEMMA ListenersInv == Spec => []Inv
<1>1. Init => Inv
  <2> SUFFICES ASSUME Init PROVE Inv
    OBVIOUS
  <2>1. TypeOK
    BY TypesInit
  <2>2. \A t \in Threads : op[t] = Idle
    BY DEF Init
  <2> QED
    BY <2>1, <2>2 DEF Init, Inv, IdsInv, ListInv, CallInv, ApartInv, EmitInv, Idle, Busy,
                      Entered
<1>2. Inv /\ TypeOK' /\ [Next]_vars => Inv'
  <2> SUFFICES ASSUME Inv, TypeOK', [Next]_vars PROVE Inv'
    OBVIOUS
  <2>1. ASSUME NEW t \in Threads, Calls(t) \/ Works(t) PROVE Inv'
    BY <2>1, ClearKeeps, EmitBeginKeeps, AddBeginKeeps, RemoveBeginKeeps, AddBuildKeeps,
       AddSwapKeeps, RetryKeeps, EndKeeps, RemoveBuildKeeps, RemoveSwapKeeps, EmitCallKeeps
       DEF Calls, Works
  <2>2. CASE UNCHANGED vars
    BY <2>2 DEF vars, Inv, TypeOK, IdsInv, ListInv, CallInv, CallOK, MadeFromPresent,
                ApartInv, EmitInv, Of, Entered, Busy
  <2> QED
    BY <2>1, <2>2 DEF Next
<1> QED
  BY <1>1, <1>2, ListenersTypes, PTL DEF Spec

(***************************************************************************)
(* No interleaving of the exchanges loses a callback or enters it twice.   *)
(***************************************************************************)
THEOREM ListenersAdded == Spec => []AddedIsListed
<1>1. Inv => AddedIsListed
  <2> SUFFICES ASSUME Inv, NEW f \in Funs
               PROVE  /\ state[f] = "added" => Holds(list.items, f)
                      /\ state[f] \in {"new", "adding"} =>
                           \A i \in 1..Len(list.items) : list.items[i].fun # f
    BY DEF AddedIsListed
  <2>1. ASSUME state[f] = "added" PROVE Holds(list.items, f)
    BY <2>1 DEF Inv, ListInv, Of, Holds
  <2>2. ASSUME state[f] \in {"new", "adding"}, NEW i \in 1..Len(list.items)
        PROVE  list.items[i].fun # f
    <3>1. PICK g \in Funs : Entered(g) /\ Of(list.items[i], g)
      BY DEF Inv, ListInv
    <3> QED
      BY <2>2, <3>1, ListenersAssumption DEF Of, Entered
  <2> QED
    BY <2>1, <2>2
<1> QED
  BY <1>1, ListenersInv, PTL

(***************************************************************************)
(* An Emit that ends has called every callback that was there at its start.*)
(***************************************************************************)
THEOREM ListenersReached == Spec => []EmitReachesAll
<1>1. Inv => EmitReachesAll
  <2> SUFFICES ASSUME Inv, NEW t \in Threads, op[t].call = "emit", op[t].items = <<>>
               PROVE  op[t].due \subseteq op[t].heard
    BY DEF EmitReachesAll
  <2>1. Len(op[t].items) = 0
    OBVIOUS
  <2> QED
    BY <2>1 DEF Inv, EmitInv
<1> QED
  BY <1>1, ListenersInv, PTL

-----------------------------------------------------------------------------
(* The binary search of RemoveListener                                     *)

\* A set with 0 that is closed under successor has all natural numbers.
LEMMA NatBySteps ==
    ASSUME NEW T \in SUBSET Nat, 0 \in T, \A n \in Nat : n \in T => n + 1 \in T
    PROVE  \A n \in Nat : n \in T
<1> SUFFICES ASSUME Nat \ T # {} PROVE FALSE
  OBVIOUS
<1> DEFINE R == OpToRel(<, Nat)
<1>1. IsWellFoundedOn(R, Nat)
  BY NatLessThanWellFounded
<1>2. \A x, y \in Nat : x < y => <<x, y>> \in R
  BY DEF OpToRel
<1> HIDE DEF R
<1>3. PICK m \in Nat \ T : \A k \in Nat \ T : ~(<<k, m>> \in R)
  <2>1. Nat \ T \in SUBSET Nat
    OBVIOUS
  <2> QED
    BY <1>1, <2>1, WFMin
<1>4. m # 0 /\ m - 1 \in Nat /\ (m - 1) + 1 = m /\ m - 1 < m
  OBVIOUS
<1>5. m - 1 \in T
  BY <1>2, <1>3, <1>4
<1> QED
  BY <1>3, <1>4, <1>5

\* What a search is for count positions, from what it is for fewer.
Halves(items, id, s, count) ==
    [first \in 0..(Len(items) - count) |->
        LET step == count \div 2 IN
        IF count = 0 THEN first + 1
        ELSE IF items[first + step + 1].id < id
             THEN s[count - step - 1][first + step + 1]
             ELSE s[step][first]]

\* There is a function that calls itself as Bound's search does.
LEMMA SearchExists ==
    ASSUME NEW items, Len(items) \in Nat, NEW id
    PROVE  \E s : s = [count \in 0..Len(items) |-> Halves(items, id, s, count)]
<1> DEFINE Can(m) == \E s : s = [count \in 0..m |-> Halves(items, id, s, count)]
           T == {m \in Nat : Can(m)}
<1>1. Can(0)
  <2> DEFINE s == [count \in 0..0 |-> [first \in 0..(Len(items) - count) |-> first + 1]]
  <2>1. \A count \in 0..0 : Halves(items, id, s, count)
                            = [first \in 0..(Len(items) - count) |-> first + 1]
    BY DEF Halves
  <2>2. s = [count \in 0..0 |-> Halves(items, id, s, count)]
    BY <2>1
  <2> QED
    BY <2>2
<1>2. ASSUME NEW m \in Nat, Can(m) PROVE Can(m + 1)
  <2>1. PICK s : s = [count \in 0..m |-> Halves(items, id, s, count)]
    BY <1>2
  <2> DEFINE g == [count \in 0..m + 1 |-> Halves(items, id, s, count)]
  <2>2. \A c \in 0..m : g[c] = s[c]
    BY <2>1
  <2>3. ASSUME NEW count \in 0..m + 1
        PROVE  Halves(items, id, g, count) = Halves(items, id, s, count)
    <3> DEFINE step == count \div 2
    <3>1. CASE count = 0
      BY <3>1 DEF Halves
    <3>2. CASE count # 0
      <4>1. step \in 0..m /\ count - step - 1 \in 0..m
        BY <3>2
      <4>2. g[step] = s[step] /\ g[count - step - 1] = s[count - step - 1]
        BY <2>2, <4>1
      <4> HIDE DEF g
      <4> QED
        BY <4>2 DEF Halves
    <3> QED
      BY <3>1, <3>2
  <2>4. g = [count \in 0..m + 1 |-> Halves(items, id, g, count)]
    BY <2>3
  <2> QED
    BY <2>4
<1> HIDE DEF Can
<1>3. \A m \in Nat : m \in T => m + 1 \in T
  BY <1>2
<1>4. 0 \in T /\ T \in SUBSET Nat
  BY <1>1
<1>5. \A m \in Nat : m \in T
  <2> HIDE DEF T
  <2> QED
    BY <1>3, <1>4, NatBySteps
<1> QED
  BY <1>5 DEF Can

\* What a search finds from first on, among count positions.
Probes(items, id, s) ==
    \A count \in 0..Len(items) : \A first \in 0..(Len(items) - count) :
        s[count][first] = IF count = 0 THEN first + 1
                          ELSE IF items[first + count \div 2 + 1].id < id
                               THEN s[count - count \div 2 - 1][first + count \div 2 + 1]
                               ELSE s[count \div 2][first]

LEMMA SearchProbes ==
    ASSUME NEW items, NEW id, NEW s,
           s = [count \in 0..Len(items) |-> Halves(items, id, s, count)]
    PROVE  Probes(items, id, s)
<1> SUFFICES ASSUME NEW count \in 0..Len(items), NEW first \in 0..(Len(items) - count)
             PROVE  s[count][first] =
                       IF count = 0 THEN first + 1
                       ELSE IF items[first + count \div 2 + 1].id < id
                            THEN s[count - count \div 2 - 1][first + count \div 2 + 1]
                            ELSE s[count \div 2][first]
  BY DEF Probes
<1>1. s[count] = Halves(items, id, s, count)
  OBVIOUS
<1>2. Halves(items, id, s, count)[first] =
         IF count = 0 THEN first + 1
         ELSE IF items[first + count \div 2 + 1].id < id
              THEN s[count - count \div 2 - 1][first + count \div 2 + 1]
              ELSE s[count \div 2][first]
  BY Zenon DEF Halves
<1> QED
  BY <1>1, <1>2

\* Among items whose ids are in order and differ, the search ends at the one
\* that has the id, whatever part with it the search is let loose on.
LEMMA SearchMeets ==
    ASSUME NEW items \in Seq(Items), ~OutOfOrder(items),
           \A i, j \in 1..Len(items) : items[i].id = items[j].id => i = j,
           NEW k \in 1..Len(items), NEW s, Probes(items, items[k].id, s)
    PROVE  s[Len(items)][0] = k
<1> DEFINE n == Len(items)
           id == items[k].id
           Meets(c) == \A first \in 0..n - c : k \in first + 1 .. first + c + 1 => s[c][first] = k
           T == {m \in Nat : \A c \in 0..m : c <= n => Meets(c)}
<1>0. n \in Nat /\ \A i \in 1..n : items[i].id \in Nat
  <2>1. \A i \in 1..n : items[i] \in Items
    OBVIOUS
  <2>2. \A item \in Items : item.id \in Nat
    BY DEF Items
  <2> QED
    BY <2>1, <2>2
<1>1. ASSUME NEW c \in 0..n, NEW first \in 0..n - c
      PROVE  s[c][first] = IF c = 0 THEN first + 1
                           ELSE IF items[first + c \div 2 + 1].id < id
                                THEN s[c - c \div 2 - 1][first + c \div 2 + 1]
                                ELSE s[c \div 2][first]
  BY DEF Probes
<1>2. Meets(0)
  <2> SUFFICES ASSUME NEW first \in 0..n, k \in first + 1 .. first + 0 + 1
               PROVE  s[0][first] = k
    BY <1>0
  <2>1. s[0][first] = first + 1
    BY <1>0, <1>1
  <2> QED
    BY <1>0, <2>1
<1>3. ASSUME NEW c \in 1..n, \A d \in 0..c - 1 : Meets(d)  PROVE Meets(c)
  <2> SUFFICES ASSUME NEW first \in 0..n - c, k \in first + 1 .. first + c + 1
               PROVE  s[c][first] = k
    OBVIOUS
  <2> DEFINE step == c \div 2
             mid == first + step + 1
  <2>1. step \in 0..c - 1 /\ c - step - 1 \in 0..c - 1 /\ mid \in 1..n
    BY <1>0
  <2>2. s[c][first] = IF items[mid].id < id THEN s[c - step - 1][mid] ELSE s[step][first]
    <3>1. c \in 0..n /\ c # 0
      BY <1>0
    <3> HIDE DEF n, id
    <3> QED
      BY <1>1, <3>1
  <2> HIDE DEF n, id, step
  <2>3. CASE items[mid].id < id
    <3>1. k > mid
      BY <1>0, <2>1, <2>3 DEF OutOfOrder, n, id
    <3>2. mid \in 0..n - (c - step - 1) /\ k \in mid + 1 .. mid + (c - step - 1) + 1
      BY <1>0, <2>1, <3>1
    <3>3. s[c - step - 1][mid] = k
      BY <1>3, <2>1, <3>2
    <3> QED
      BY <2>2, <2>3, <3>3
  <2>4. CASE ~(items[mid].id < id)
    <3>1. k <= mid
      BY <1>0, <2>1, <2>4 DEF OutOfOrder, n, id
    <3>2. first \in 0..n - step /\ k \in first + 1 .. first + step + 1
      BY <1>0, <2>1, <3>1
    <3>3. s[step][first] = k
      BY <1>3, <2>1, <3>2
    <3> QED
      BY <2>2, <2>4, <3>3
  <2> QED
    BY <2>3, <2>4
<1> HIDE DEF Meets, n
<1>4. ASSUME NEW m \in Nat, m \in T  PROVE m + 1 \in T
  BY <1>0, <1>3, <1>4
<1>5. 0 \in T /\ T \in SUBSET Nat
  BY <1>2
<1>6. \A m \in Nat : m \in T
  <2> HIDE DEF T
  <2> QED
    BY <1>4, <1>5, NatBySteps
<1>7. Meets(n)
  <2>1. n \in 0..n /\ n <= n /\ n \in T
    BY <1>0, <1>6
  <2> QED
    BY <2>1
<1>8. 0 \in 0..n - n /\ k \in 0 + 1 .. 0 + n + 1
  BY <1>0 DEF n
<1> QED
  BY <1>7, <1>8 DEF Meets, n

LEMMA FoundIfThere ==
    ASSUME NEW items \in Seq(Items), ~OutOfOrder(items),
           \A i, j \in 1..Len(items) : items[i].id = items[j].id => i = j,
           NEW k \in 1..Len(items)
    PROVE  Found(items, items[k].id)
<1> DEFINE IsSearch(s, id) == s = [count \in 0..Len(items) |-> Halves(items, id, s, count)]
           search(id) == CHOOSE s : IsSearch(s, id)
<1>1. \E s : IsSearch(s, items[k].id)
  <2>1. Len(items) \in Nat
    OBVIOUS
  <2> QED
    BY <2>1, SearchExists
<1>2. IsSearch(search(items[k].id), items[k].id)
  <2> HIDE DEF IsSearch
  <2> QED
    BY <1>1
<1>3. Probes(items, items[k].id, search(items[k].id))
  <2> HIDE DEF search
  <2> QED
    BY <1>2, SearchProbes
<1>4. search(items[k].id)[Len(items)][0] = k
  <2> HIDE DEF search
  <2> QED
    BY <1>3, SearchMeets
<1>5. ASSUME NEW id PROVE Bound(items, id) = search(id)[Len(items)][0]
  BY DEF Bound, Halves
<1>6. Bound(items, items[k].id) = k
  BY <1>4, <1>5
<1> QED
  BY <1>6 DEF Found

-----------------------------------------------------------------------------
(* Removed callbacks stay silent                                           *)

\* The search finds what it looks for: Clear needs none, and ids in order suffice.
Searchable == kind = "signal" \/ ~disorder

Unlisted(f) == \A i \in 1..Len(list.items) : list.items[i].id # ids[f]

\* The walk has not called, and will not call, a callback that was removed before.
Silent(t) == /\ op[t].heard \cap op[t].gone = {}
             /\ \A i \in 1..Len(op[t].items) : op[t].items[i].fun \notin op[t].gone

SilentInv ==
    /\ ~disorder => ~OutOfOrder(list.items)
    /\ kind = "signal" => \A t \in Threads : op[t].call # "remove"
    /\ Searchable => /\ \A f \in Funs : state[f] = "removed" => Unlisted(f)
                     /\ \A t \in Threads : op[t].call = "emit" => Silent(t)

\* What a step of t owes to SilentInv.
LEMMA SilentKept ==
    ASSUME SilentInv, NEW t \in Threads, \A u \in Threads \ {t} : op'[u] = op[u],
           kind' = kind, disorder => disorder', disorder' \in BOOLEAN,
           ~disorder' => ~OutOfOrder(list'.items),
           op'[t].call = "remove" => kind # "signal",
           Searchable => /\ \A f \in Funs : state'[f] = "removed" => Unlisted(f)'
                         /\ op'[t].call = "emit" => Silent(t)'
    PROVE  SilentInv'
<1>1. Searchable' => Searchable
  BY DEF Searchable
<1>2. Searchable => \A u \in Threads : op'[u].call = "emit" => Silent(u)'
  BY DEF SilentInv, Silent
<1>3. kind = "signal" => \A u \in Threads : op'[u].call # "remove"
  BY DEF SilentInv
<1> QED
  BY <1>1, <1>2, <1>3 DEF SilentInv

\* The list is not exchanged, and a callback is not removed but by a miss.
LEMMA SilentSameList ==
    ASSUME Inv, SilentInv, NEW t \in Threads, \A u \in Threads \ {t} : op'[u] = op[u],
           kind' = kind, disorder' = disorder, list' = list,
           op'[t].call = "remove" => kind # "signal",
           \A f \in Funs : state'[f] = "removed" =>
              ids'[f] = ids[f] /\ (state[f] = "removed" \/ (Searchable => Unlisted(f))),
           Searchable /\ op'[t].call = "emit" => Silent(t)'
    PROVE  SilentInv'
<1>1. disorder' \in BOOLEAN
  BY DEF Inv, TypeOK
<1>2. Searchable => \A f \in Funs : state'[f] = "removed" => Unlisted(f)'
  BY DEF SilentInv, Unlisted
<1>3. ~disorder' => ~OutOfOrder(list'.items)
  BY DEF SilentInv
<1> QED
  BY <1>1, <1>2, <1>3, SilentKept

\* The exchange of AddListener and Add puts in the id of a callback that is not
\* removed; that of RemoveListener takes out the id of the one that is.
LEMMA SwapSilent ==
    ASSUME Inv, SilentInv, NEW t \in Threads, AddSwap(t) \/ RemoveSwap(t), TypeOK'
    PROVE  SilentInv'
<1> DEFINE f == op[t].fun
           made == op[t].made
<1>1. /\ op[t].at = "swap" /\ op[t].seen = list.version /\ Busy(t)
      /\ list' = [version |-> list.version + 1, items |-> made]
      /\ op' = [op EXCEPT ![t] = Idle] /\ ids' = ids /\ kind' = kind
      /\ disorder' = (disorder \/ OutOfOrder(made))
      /\ \/ op[t].call = "add" /\ state' = [state EXCEPT ![f] = "added"]
         \/ op[t].call = "remove" /\ state' = [state EXCEPT ![f] = "removed"]
  BY DEF AddSwap, RemoveSwap, Exchange, Become, Mark, Busy
<1>2. /\ op \in [Threads -> Ops] /\ list.items \in Seq(Items) /\ disorder \in BOOLEAN
      /\ state \in [Funs -> {"new", "adding", "added", "removing", "removed"}]
      /\ f \in Funs /\ CallOK(t)
  BY <1>1, BusyFun DEF Inv, TypeOK, CallInv
<1>3. op'[t] = Idle /\ \A u \in Threads \ {t} : op'[u] = op[u]
  BY <1>1, <1>2
<1>4. disorder' \in BOOLEAN /\ list'.items = made
  BY <1>1 DEF TypeOK
<1>5. Searchable => \A g \in Funs : state'[g] = "removed" =>
                       \A i \in 1..Len(made) : made[i].id # ids[g]
  <2> SUFFICES ASSUME Searchable, NEW g \in Funs, state'[g] = "removed",
                      NEW i \in 1..Len(made)
               PROVE  made[i].id # ids[g]
    OBVIOUS
  <2>1. CASE op[t].call = "add"
    <3>1. g # f /\ state[g] = "removed" /\ state[f] = "adding"
      BY <1>1, <1>2, <2>1 DEF CallOK
    <3>2. PICK item \in Items : Of(item, f) /\ made = Append(list.items, item)
      BY <1>1, <1>2, <2>1 DEF CallOK, MadeFromPresent
    <3>3. ids[g] # ids[f]
      BY <1>2, <3>1 DEF Inv, IdsInv
    <3>4. \A j \in 1..Len(list.items) : list.items[j].id # ids[g]
      BY <3>1 DEF SilentInv, Unlisted
    <3> HIDE DEF f, made
    <3>5. made[i] = item \/ (i \in 1..Len(list.items) /\ made[i] = list.items[i])
      BY <1>2, <3>2
    <3> QED
      BY <3>2, <3>3, <3>4, <3>5 DEF Of
  <2>2. CASE op[t].call = "remove"
    <3>1. g = f \/ state[g] = "removed"
      BY <1>1, <1>2, <2>2
    <3>2. PICK p \in 1..Len(list.items) : /\ list.items[p].id = ids[f]
                                          /\ made = Without(list.items, p)
      BY <1>1, <1>2, <2>2 DEF CallOK, MadeFromPresent
    <3> HIDE DEF f, made
    <3>3. /\ Len(made) = Len(list.items) - 1
          /\ made[i] = IF i < p THEN list.items[i] ELSE list.items[i + 1]
      BY <1>2, <3>2, WithoutOne
    <3>4. PICK j \in 1..Len(list.items) : j # p /\ made[i] = list.items[j]
      BY <1>2, <3>2, <3>3
    <3>5. CASE g = f
      BY <3>2, <3>4, <3>5 DEF Inv, ListInv
    <3>6. CASE state[g] = "removed"
      BY <3>4, <3>6 DEF SilentInv, Unlisted
    <3> QED
      BY <3>1, <3>5, <3>6
  <2> QED
    BY <1>1, <2>1, <2>2
<1>6. Searchable => \A g \in Funs : state'[g] = "removed" => Unlisted(g)'
  BY <1>1, <1>4, <1>5 DEF Unlisted
<1>7. op'[t].call # "remove" /\ op'[t].call # "emit"
  BY <1>3 DEF Idle
<1>8. /\ ~disorder' => ~OutOfOrder(list'.items)
      /\ disorder => disorder'
  BY <1>1, <1>4
<1> HIDE DEF f, made
<1> QED
  BY <1>1, <1>3, <1>4, <1>6, <1>7, <1>8, SilentKept

\* A miss says that the list has not got the id, if its ids are in order.
LEMMA MissSilent ==
    ASSUME Inv, SilentInv, NEW t \in Threads, RemoveMisses(t)
    PROVE  SilentInv'
<1> DEFINE f == op[t].fun
<1>1. /\ op[t].call = "remove" /\ ~Found(list.items, ids[f])
      /\ op' = [op EXCEPT ![t] = Idle] /\ state' = [state EXCEPT ![f] = "removed"]
      /\ kind' = kind /\ list' = list /\ ids' = ids /\ disorder' = disorder
  BY DEF RemoveMisses, Become, Mark
<1>2. /\ op \in [Threads -> Ops] /\ list.items \in Seq(Items)
      /\ state \in [Funs -> {"new", "adding", "added", "removing", "removed"}]
  BY DEF Inv, TypeOK
<1>3. op'[t] = Idle /\ \A u \in Threads \ {t} : op'[u] = op[u]
  BY <1>1, <1>2
<1>4. Searchable => Unlisted(f)
  <2> SUFFICES ASSUME Searchable, NEW k \in 1..Len(list.items), list.items[k].id = ids[f]
               PROVE  FALSE
    BY DEF Unlisted
  <2>1. ~OutOfOrder(list.items)
    BY <1>1 DEF SilentInv, Searchable
  <2>2. \A i, j \in 1..Len(list.items) : list.items[i].id = list.items[j].id => i = j
    BY DEF Inv, ListInv
  <2>3. Found(list.items, list.items[k].id)
    BY <1>2, <2>1, <2>2, FoundIfThere
  <2> QED
    BY <1>1, <2>3
<1>5. op'[t].call # "remove" /\ op'[t].call # "emit"
  BY <1>3 DEF Idle
<1>6. \A g \in Funs : state'[g] = "removed" =>
         ids'[g] = ids[g] /\ (state[g] = "removed" \/ (Searchable => Unlisted(g)))
  BY <1>1, <1>2, <1>4
<1> HIDE DEF f
<1> QED
  BY <1>1, <1>3, <1>5, <1>6, SilentSameList

\* The copies and the exchanges that fail, and the ends of calls.
LEMMA RestSilent ==
    ASSUME Inv, SilentInv, NEW t \in Threads,
           AddBuild(t) \/ RemoveBuild(t) \/ AddRetry(t) \/ RemoveRetry(t)
           \/ EmitThrows(t) \/ EmitEnd(t)
    PROVE  SilentInv'
<1>1. /\ kind' = kind /\ list' = list /\ ids' = ids /\ disorder' = disorder /\ state' = state
  BY DEF AddBuild, RemoveBuild, AddRetry, RemoveRetry, ExchangeFails, EmitThrows, EmitEnd
<1>2. op \in [Threads -> Ops] /\ op[t] \in Ops
  BY DEF Inv, TypeOK
<1>3. /\ \A u \in Threads \ {t} : op'[u] = op[u]
      /\ (op'[t].call = op[t].call /\ op[t].call # "emit") \/ op'[t].call = "idle"
  <2>1. CASE EmitThrows(t) \/ EmitEnd(t)
    BY <1>2, <2>1 DEF EmitThrows, EmitEnd, Become, Idle
  <2>2. CASE AddBuild(t)
    BY <1>2, <2>2, OpsSplit DEF AddBuild, Become, AddOps
  <2>3. CASE RemoveBuild(t)
    BY <1>2, <2>3, OpsSplit DEF RemoveBuild, Become, RemoveOps
  <2>4. CASE AddRetry(t) \/ RemoveRetry(t)
    BY <1>2, <2>4, OpsSplit DEF AddRetry, RemoveRetry, ExchangeFails, AddOps, RemoveOps
  <2> QED
    BY <2>1, <2>2, <2>3, <2>4
<1>4. op'[t].call = "remove" => kind # "signal"
  BY <1>3 DEF SilentInv
<1>5. op'[t].call # "emit"
  BY <1>3
<1> QED
  BY <1>1, <1>3, <1>4, <1>5, SilentSameList

\* A walk begins in a list without the callbacks that are removed.
LEMMA EmitBeginSilent ==
    ASSUME Inv, SilentInv, NEW t \in Threads, EmitBegin(t)
    PROVE  SilentInv'
<1> DEFINE o == [call |-> "emit", items |-> list.items, due |-> InState("added"),
                 gone |-> InState("removed"), heard |-> {}]
<1>1. /\ op' = [op EXCEPT ![t] = o]
      /\ list' = list /\ ids' = ids /\ state' = state /\ kind' = kind /\ disorder' = disorder
  BY DEF EmitBegin, Become
<1>2. op'[t] = o /\ \A u \in Threads \ {t} : op'[u] = op[u]
  BY <1>1 DEF Inv, TypeOK
<1>3. Searchable => \A i \in 1..Len(list.items) : list.items[i].fun \notin InState("removed")
  <2> SUFFICES ASSUME Searchable, NEW i \in 1..Len(list.items), NEW f \in Funs,
                      state[f] = "removed", list.items[i].fun = f
               PROVE  FALSE
    BY DEF InState
  <2>1. PICK g \in Funs : Of(list.items[i], g)
    BY DEF Inv, ListInv
  <2>2. g = f
    BY <2>1, ListenersAssumption DEF Of
  <2> QED
    BY <2>1, <2>2 DEF Of, SilentInv, Unlisted
<1>4. Searchable => Silent(t)'
  BY <1>2, <1>3 DEF Silent
<1>5. op'[t].call # "remove"
  BY <1>2
<1> HIDE DEF o
<1> QED
  BY <1>1, <1>2, <1>4, <1>5, SilentSameList

LEMMA EmitCallSilent ==
    ASSUME Inv, SilentInv, NEW t \in Threads, EmitCall(t)
    PROVE  SilentInv'
<1> DEFINE items == op[t].items
           o == [op[t] EXCEPT !.items = Tail(@),
                              !.heard = @ \cup {Head(op[t].items).fun}]
<1>1. /\ op[t].call = "emit" /\ items # <<>> /\ op' = [op EXCEPT ![t] = o]
      /\ list' = list /\ ids' = ids /\ state' = state /\ kind' = kind /\ disorder' = disorder
  BY DEF EmitCall, Become
<1>2. op \in [Threads -> Ops] /\ op[t] \in EmitOps /\ items \in Seq(Items)
  BY <1>1, OpsSplit DEF Inv, TypeOK, EmitOps
<1>3. /\ op'[t] = o /\ \A u \in Threads \ {t} : op'[u] = op[u]
      /\ o.call = "emit" /\ o.gone = op[t].gone /\ o.items = Tail(items)
      /\ o.heard = op[t].heard \cup {items[1].fun}
  BY <1>1, <1>2 DEF EmitOps
<1>4. /\ 1 \in 1..Len(items)
      /\ \A i \in 1..Len(Tail(items)) : i + 1 \in 1..Len(items) /\ Tail(items)[i] = items[i + 1]
  BY <1>1, <1>2
<1> HIDE DEF o
<1>5. Searchable => Silent(t)'
  <2> SUFFICES ASSUME Searchable PROVE Silent(t)'
    OBVIOUS
  <2>1. Silent(t)
    BY <1>1 DEF SilentInv
  <2> QED
    BY <1>3, <1>4, <2>1 DEF Silent
<1>6. op'[t].call # "remove"
  BY <1>3
<1> HIDE DEF items
<1> QED
  BY <1>1, <1>3, <1>5, <1>6, SilentSameList

\* The beginnings of the other calls: a new id is no removed callback's.
LEMMA BeginSilent ==
    ASSUME Inv, SilentInv, NEW t \in Threads, NEW f \in Funs,
           AddBegin(t, f) \/ RemoveBegin(t, f)
    PROVE  SilentInv'
<1>1. /\ kind' = kind /\ list' = list /\ disorder' = disorder
      /\ \A u \in Threads \ {t} : op'[u] = op[u]
      /\ op'[t].call = "add" \/ (op'[t].call = "remove" /\ kind # "signal")
  BY DEF AddBegin, RemoveBegin, Become, Inv, TypeOK
<1>2. \A g \in Funs : state'[g] = "removed" => state[g] = "removed" /\ ids'[g] = ids[g]
  BY DEF AddBegin, RemoveBegin, Mark, Inv, TypeOK
<1>3. op'[t].call # "emit"
  BY <1>1
<1> QED
  BY <1>1, <1>2, <1>3, SilentSameList

LEMMA ClearSilent ==
    ASSUME Inv, SilentInv, NEW t \in Threads, Clear(t)
    PROVE  SilentInv'
<1>1. kind' = kind /\ op' = op /\ ids' = ids /\ disorder' = disorder /\ list'.items = <<>>
  BY DEF Clear
<1>2. Len(list'.items) = 0
  BY <1>1
<1>3. (~OutOfOrder(list.items))' /\ \A f \in Funs : Unlisted(f)'
  BY <1>2 DEF OutOfOrder, Unlisted
<1>4. \A u \in Threads : Silent(u)' <=> Silent(u)
  BY <1>1 DEF Silent
<1> QED
  BY <1>1, <1>3, <1>4 DEF SilentInv, Searchable

LEMMA ListenersSilentInv == Spec => []SilentInv
<1>1. Init => SilentInv
  <2> SUFFICES ASSUME Init PROVE SilentInv
    OBVIOUS
  <2>1. Len(list.items) = 0 /\ \A t \in Threads : op[t].call = "idle"
    BY DEF Init, Idle
  <2>2. \A f \in Funs : state[f] # "removed"
    BY DEF Init
  <2> QED
    BY <2>1, <2>2 DEF SilentInv, OutOfOrder
<1>2. Inv /\ SilentInv /\ TypeOK' /\ [Next]_vars => SilentInv'
  <2> SUFFICES ASSUME Inv, SilentInv, TypeOK', [Next]_vars PROVE SilentInv'
    OBVIOUS
  <2>1. ASSUME NEW t \in Threads, Calls(t) \/ Works(t) PROVE SilentInv'
    BY <2>1, ClearSilent, EmitBeginSilent, BeginSilent, RestSilent, SwapSilent, MissSilent,
       EmitCallSilent
       DEF Calls, Works
  <2>2. CASE UNCHANGED vars
    BY <2>2 DEF vars, SilentInv, Searchable, Unlisted, Silent, OutOfOrder
  <2> QED
    BY <2>1, <2>2 DEF Next
<1> QED
  BY <1>1, <1>2, ListenersTypes, ListenersInv, PTL DEF Spec

(***************************************************************************)
(* A callback that was removed is not called by an Emit that begins later, *)
(* unless the ids of an emitter's list have been out of order.             *)
(***************************************************************************)
THEOREM ListenersSilent == Spec => []RemovedStaySilent
<1>1. TypeOK /\ SilentInv => RemovedStaySilent
  BY DEF TypeOK, SilentInv, Searchable, Silent, RemovedStaySilent
<1> QED
  BY <1>1, ListenersTypes, ListenersSilentInv, PTL
=============================================================================
