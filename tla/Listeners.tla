------------------------------ MODULE Listeners ------------------------------
(***************************************************************************)
(* ecs/core/utils/emitter.h (TypeEmitter and its Token) and single.h       *)
(* (Signal): a list of callbacks behind one atomic pointer.  The list is   *)
(* never changed; who adds or removes a callback makes a changed copy and  *)
(* exchanges the pointer for it, and who emits walks the list it has       *)
(* loaded.  The two classes share all of this but their ways to remove.    *)
(*                                                                         *)
(* Callbacks that add, remove or emit are no different from other threads  *)
(* that do so while the walk rests.  Signal::Remove does not compile when  *)
(* it is instantiated (it writes to a vector of const), and moves of a     *)
(* Signal are left to its owner; neither is modelled.                      *)
(***************************************************************************)
EXTENDS Integers, Sequences

CONSTANTS Threads,
          Funs,      \* the callbacks, each of which is added at most once
          Nobody,    \* an empty std::function
          MaxEmits,  \* bound: calls of Emit
          MaxClears  \* bound: calls of Clear

ASSUME ListenersAssumption == /\ Nobody \notin Funs
                              /\ MaxEmits \in Nat /\ MaxClears \in Nat

VARIABLES
    kind,     \* "emitter" or "signal"
    list,     \* the list pointed to; version tells pointers apart
    nextId,   \* m_nextId
    op,       \* the call each thread is in
    state,    \* of each callback: "new", "adding", "added", "removing", "removed"
    ids,      \* the id in each callback's token
    emits,    \* calls of Emit so far
    clears,   \* calls of Clear so far
    retried,  \* history: callbacks whose exchange has failed once
    disorder  \* history: the list's ids have been out of order

vars == <<kind, list, nextId, op, state, ids, emits, clears, retried, disorder>>

Idle == [call |-> "idle"]

Init == /\ kind \in {"emitter", "signal"}
        /\ list = [version |-> 0, items |-> <<>>]
        /\ nextId = IF kind = "emitter" THEN 0 ELSE 1
        /\ op = [t \in Threads |-> Idle]
        /\ state = [f \in Funs |-> "new"]
        /\ ids = [f \in Funs |-> 0]
        /\ emits = 0 /\ clears = 0
        /\ retried = {} /\ disorder = FALSE

Become(t, o) == op' = [op EXCEPT ![t] = o]
Mark(f, s) == state' = [state EXCEPT ![f] = s]

OutOfOrder(items) ==
    \E i, j \in 1..Len(items) : i < j /\ items[i].id > items[j].id

\* The pointer is exchanged for one to the list that t has made ...
Exchange(t) ==
    /\ list.version = op[t].seen
    /\ list' = [version |-> list.version + 1, items |-> op[t].made]
    /\ disorder' = (disorder \/ OutOfOrder(op[t].made))
    /\ Become(t, Idle)

\* ... or it is another one by now, or compare_exchange_weak just fails.
ExchangeFails(t) ==
    /\ op' = [op EXCEPT ![t].at = "load"]
    /\ UNCHANGED <<list, disorder>>

-----------------------------------------------------------------------------
(* AddListener and Add.                                                    *)

\* m_nextId.fetch_add(1)
AddBegin(t, f) ==
    /\ op[t] = Idle /\ state[f] = "new"
    /\ Mark(f, "adding")
    /\ ids' = [ids EXCEPT ![f] = nextId]
    /\ nextId' = nextId + 1
    /\ Become(t, [call |-> "add", at |-> "load", fun |-> f, holds |-> f,
                  seen |-> 0, made |-> <<>>])
    /\ UNCHANGED <<kind, list, emits, clears, retried, disorder>>

\* Load, copy, and emplace_back(id, std::move(fun)), which leaves an empty
\* fun for the next round.
AddBuild(t) ==
    /\ op[t].call = "add" /\ op[t].at = "load"
    /\ Become(t, [op[t] EXCEPT !.at = "swap", !.seen = list.version, !.holds = Nobody,
                  !.made = Append(list.items, [id |-> ids[op[t].fun],
                                               fun |-> op[t].holds])])
    /\ UNCHANGED <<kind, list, nextId, state, ids, emits, clears, retried, disorder>>

\* Mutant: the pointer is stored without a look at the present one.
AddSwapBlindly(t) ==
    /\ op[t].call = "add" /\ op[t].at = "swap"
    /\ list' = [version |-> list.version + 1, items |-> op[t].made]
    /\ disorder' = (disorder \/ OutOfOrder(op[t].made))
    /\ Become(t, Idle)
    /\ Mark(op[t].fun, "added")
    /\ UNCHANGED <<kind, nextId, ids, emits, clears, retried>>

AddSwap(t) ==
    /\ op[t].call = "add" /\ op[t].at = "swap"
    /\ Exchange(t)
    /\ Mark(op[t].fun, "added")
    /\ UNCHANGED <<kind, nextId, ids, emits, clears, retried>>

AddRetry(t) ==
    /\ op[t].call = "add" /\ op[t].at = "swap"
    /\ ExchangeFails(t)
    /\ retried' = retried \cup {op[t].fun}
    /\ UNCHANGED <<kind, nextId, state, ids, emits, clears>>

-----------------------------------------------------------------------------
(* RemoveListener, from Token::Reset or ~Token.                            *)

\* std::lower_bound over items for id, among the count positions after first:
\* a binary search, which takes the ids to be in order.
Bound(items, id) ==
    LET search[count \in 0..Len(items)] ==
            [first \in 0..(Len(items) - count) |->
                LET step == count \div 2 IN
                IF count = 0 THEN first + 1
                ELSE IF items[first + step + 1].id < id
                     THEN search[count - step - 1][first + step + 1]
                     ELSE search[step][first]]
    IN  search[Len(items)][0]

Found(items, id) == /\ Bound(items, id) \in 1..Len(items)
                    /\ items[Bound(items, id)].id = id

Without(items, p) ==
    [i \in 1..(Len(items) - 1) |-> IF i < p THEN items[i] ELSE items[i + 1]]

RemoveBegin(t, f) ==
    /\ kind = "emitter"
    /\ op[t] = Idle /\ state[f] = "added"
    /\ Mark(f, "removing")
    /\ Become(t, [call |-> "remove", at |-> "load", fun |-> f, seen |-> 0, made |-> <<>>])
    /\ UNCHANGED <<kind, list, nextId, ids, emits, clears, retried, disorder>>

\* it == old->end() || it->id != id: there is nothing to remove.
RemoveMisses(t) ==
    /\ op[t].call = "remove" /\ op[t].at = "load"
    /\ ~Found(list.items, ids[op[t].fun])
    /\ Become(t, Idle)
    /\ Mark(op[t].fun, "removed")
    /\ UNCHANGED <<kind, list, nextId, ids, emits, clears, retried, disorder>>

RemoveBuild(t) ==
    /\ op[t].call = "remove" /\ op[t].at = "load"
    /\ Found(list.items, ids[op[t].fun])
    /\ Become(t, [op[t] EXCEPT !.at = "swap", !.seen = list.version,
                  !.made = Without(list.items, Bound(list.items, ids[op[t].fun]))])
    /\ UNCHANGED <<kind, list, nextId, state, ids, emits, clears, retried, disorder>>

RemoveSwap(t) ==
    /\ op[t].call = "remove" /\ op[t].at = "swap"
    /\ Exchange(t)
    /\ Mark(op[t].fun, "removed")
    /\ UNCHANGED <<kind, nextId, ids, emits, clears, retried>>

\* Mutant: a failed exchange is taken to mean that somebody else removed it.
RemoveGivesUp(t) ==
    /\ op[t].call = "remove" /\ op[t].at = "swap"
    /\ Become(t, Idle)
    /\ Mark(op[t].fun, "removed")
    /\ UNCHANGED <<kind, list, nextId, ids, emits, clears, retried, disorder>>

RemoveRetry(t) ==
    /\ op[t].call = "remove" /\ op[t].at = "swap"
    /\ ExchangeFails(t)
    /\ UNCHANGED <<kind, nextId, state, ids, emits, clears, retried>>

\* Signal::Clear stores a new, empty list.
Clear(t) ==
    /\ kind = "signal" /\ clears < MaxClears
    /\ op[t] = Idle
    /\ list' = [version |-> list.version + 1, items |-> <<>>]
    /\ state' = [f \in Funs |-> IF state[f] = "added" THEN "removed" ELSE state[f]]
    /\ clears' = clears + 1
    /\ UNCHANGED <<kind, nextId, op, ids, emits, retried, disorder>>

-----------------------------------------------------------------------------
(* Emit and operator().                                                    *)

InState(s) == {f \in Funs : state[f] = s}

\* The call remembers, for the properties, which callbacks are due, which
\* were removed before, and which it has called.
EmitBegin(t) ==
    /\ op[t] = Idle /\ emits < MaxEmits
    /\ emits' = emits + 1
    /\ Become(t, [call |-> "emit", items |-> list.items, due |-> InState("added"),
                  gone |-> InState("removed"), heard |-> {}])
    /\ UNCHANGED <<kind, list, nextId, state, ids, clears, retried, disorder>>

\* Mutant: the walk goes on in the present list.
EmitCallLive(t) ==
    /\ op[t].call = "emit" /\ op[t].items # <<>>
    /\ Head(op[t].items).fun # Nobody
    /\ Become(t, [op[t] EXCEPT
                    !.items = IF Len(list.items) < Len(@) THEN list.items ELSE Tail(@),
                    !.heard = @ \cup {Head(op[t].items).fun}])
    /\ UNCHANGED <<kind, list, nextId, state, ids, emits, clears, retried, disorder>>

\* l.fun(pl)
EmitCall(t) ==
    /\ op[t].call = "emit" /\ op[t].items # <<>>
    /\ Head(op[t].items).fun # Nobody
    /\ Become(t, [op[t] EXCEPT !.items = Tail(@),
                               !.heard = @ \cup {Head(op[t].items).fun}])
    /\ UNCHANGED <<kind, list, nextId, state, ids, emits, clears, retried, disorder>>

\* An empty function throws std::bad_function_call, past the rest of the list.
EmitThrows(t) ==
    /\ op[t].call = "emit" /\ op[t].items # <<>>
    /\ Head(op[t].items).fun = Nobody
    /\ Become(t, Idle)
    /\ UNCHANGED <<kind, list, nextId, state, ids, emits, clears, retried, disorder>>

EmitEnd(t) ==
    /\ op[t].call = "emit" /\ op[t].items = <<>>
    /\ Become(t, Idle)
    /\ UNCHANGED <<kind, list, nextId, state, ids, emits, clears, retried, disorder>>

-----------------------------------------------------------------------------
Calls(t) == \/ Clear(t) \/ EmitBegin(t)
            \/ \E f \in Funs : AddBegin(t, f) \/ RemoveBegin(t, f)

Works(t) == \/ AddBuild(t) \/ AddSwap(t) \/ AddRetry(t)
            \/ RemoveMisses(t) \/ RemoveBuild(t) \/ RemoveSwap(t) \/ RemoveRetry(t)
            \/ EmitCall(t) \/ EmitThrows(t) \/ EmitEnd(t)

Next == \E t \in Threads : Calls(t) \/ Works(t)

Spec == Init /\ [][Next]_vars

-----------------------------------------------------------------------------
(* Properties.                                                             *)

Items == [id : Nat, fun : Funs \cup {Nobody}]

Ops == {Idle}
       \cup [call : {"add"}, at : {"load", "swap"}, fun : Funs,
             holds : Funs \cup {Nobody}, seen : Nat, made : Seq(Items)]
       \cup [call : {"remove"}, at : {"load", "swap"}, fun : Funs,
             seen : Nat, made : Seq(Items)]
       \cup [call : {"emit"}, items : Seq(Items), due : SUBSET Funs,
             gone : SUBSET Funs, heard : SUBSET Funs]

TypeOK ==
    /\ kind \in {"emitter", "signal"}
    /\ list \in [version : Nat, items : Seq(Items)]
    /\ nextId \in Nat
    /\ op \in [Threads -> Ops]
    /\ state \in [Funs -> {"new", "adding", "added", "removing", "removed"}]
    /\ ids \in [Funs -> Nat]
    /\ emits \in Nat /\ clears \in Nat
    /\ retried \in SUBSET Funs /\ disorder \in BOOLEAN

\* f has the one place in items that goes by its id; if its exchange had to
\* be tried again, the place may be that of an empty function.
Holds(items, f) ==
    \E i \in 1..Len(items) :
        /\ items[i].id = ids[f]
        /\ items[i].fun = f \/ (f \in retried /\ items[i].fun = Nobody)
        /\ \A j \in 1..Len(items) : items[j].id = ids[f] => j = i

(***************************************************************************)
(* No interleaving of the exchanges loses a callback or enters it twice:   *)
(* once Add has returned the list holds it, until its removal begins, and  *)
(* before that it is not there.  Only a callback whose exchange failed may *)
(* be found to be an empty function: the first round has moved it away.    *)
(***************************************************************************)
AddedIsListed ==
    \A f \in Funs : /\ state[f] = "added" => Holds(list.items, f)
                    /\ state[f] \in {"new", "adding"} =>
                         \A i \in 1..Len(list.items) : list.items[i].fun # f

(***************************************************************************)
(* A callback whose token was reset, or that a Clear removed, is not       *)
(* called by an Emit that begins later - unless two threads have drawn     *)
(* their ids in one order and exchanged the pointer in the other, which    *)
(* the binary search of RemoveListener does not survive.                   *)
(***************************************************************************)
RemovedStaySilent ==
    \A t \in Threads : op[t].call = "emit" =>
        op[t].heard \cap op[t].gone = {} \/ (disorder /\ kind = "emitter")

(***************************************************************************)
(* An Emit that gets to its end has called every callback that was there   *)
(* when it began, also those removed meanwhile.                            *)
(***************************************************************************)
EmitReachesAll ==
    \A t \in Threads : op[t].call = "emit" /\ op[t].items = <<>> =>
        op[t].due \subseteq op[t].heard
=============================================================================
