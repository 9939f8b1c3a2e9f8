------------------------------ MODULE TaskDeque ------------------------------
(***************************************************************************)
(* What a work-stealing deque promises its callers, in one atomic step per *)
(* call: the owner appends and removes at the bottom (the right end of     *)
(* items), thieves remove at the top (the left end), every task put in is  *)
(* handed out at most once, and to one caller.  A Pop or Steal that        *)
(* returns nullptr and a Push that returns false are stuttering steps.     *)
(*                                                                         *)
(* The implementation, deque.cpp, keeps this promise only until the owner  *)
(* loses its first race for a last element; intact says whether it is      *)
(* still under the promise, and Break withdraws it.                        *)
(***************************************************************************)
EXTENDS Naturals, Sequences

CONSTANTS Tasks,        \* what can be pushed
          Capacity      \* how many elements fit

VARIABLES items,        \* the tasks held, from the top to the bottom
          taken,        \* the tasks handed out so far
          intact        \* FALSE once the promise is withdrawn

vars == <<items, taken, intact>>

Init == items = <<>> /\ taken = {} /\ intact = TRUE

Held == {items[i] : i \in 1..Len(items)}

\* A fresh task goes in at the bottom, if there is room for it.
Push == /\ intact
        /\ Len(items) < Capacity
        /\ \E k \in Tasks \ (taken \cup Held) : items' = Append(items, k)
        /\ UNCHANGED <<taken, intact>>

\* The owner gets the task at the bottom.
Pop == /\ intact /\ items # <<>>
       /\ items' = SubSeq(items, 1, Len(items) - 1)
       /\ taken' = taken \cup {items[Len(items)]}
       /\ UNCHANGED intact

\* A thief gets the task at the top.
Steal == /\ intact /\ items # <<>>
         /\ items' = Tail(items)
         /\ taken' = taken \cup {Head(items)}
         /\ UNCHANGED intact

\* From here on nothing is promised; the state is frozen at a fixed value.
Break == intact /\ intact' = FALSE /\ items' = <<>> /\ taken' = {}

Next == Push \/ Pop \/ Steal \/ Break

Spec == Init /\ [][Next]_vars
=============================================================================
