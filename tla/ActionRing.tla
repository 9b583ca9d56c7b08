------------------------------ MODULE ActionRing ------------------------------
(***************************************************************************)
(* The action queue of CombatState: an array of Cap slots with a head, a   *)
(* tail and a count, all three stored (src/src/engine/action_queue.cpp).   *)
(* add_to_top moves the head backwards, add_to_bottom the tail forwards,   *)
(* both modulo Cap; nothing in the code recomputes one from the others, so *)
(* their agreement is an invariant of the operations, not a definition.    *)
(***************************************************************************)
EXTENDS Integers, Sequences

CONSTANTS Item, Cap

ASSUME CapAssumption == Cap \in Nat \ {0}

VARIABLES ring, head, tail, count
vars == <<ring, head, tail, count>>

Slot == 0 .. Cap - 1

Init ==
  /\ ring \in [Slot -> Item]     \* whatever the zero-initialised slots hold
  /\ head = 0
  /\ tail = 0
  /\ count = 0

AddToBottom(item) ==
  /\ count < Cap
  /\ ring' = [ring EXCEPT ![tail] = item]
  /\ tail' = (tail + 1) % Cap
  /\ count' = count + 1
  /\ UNCHANGED head

Before_Unwrapped(slot) == slot - 1     \* mutant
Before(slot) == (slot + Cap - 1) % Cap

AddToTop_OldSlot(item) ==              \* mutant: written before the head moves
  /\ count < Cap
  /\ head' = Before(head)
  /\ ring' = [ring EXCEPT ![head] = item]
  /\ count' = count + 1
  /\ UNCHANGED tail

AddToTop(item) ==
  /\ count < Cap
  /\ head' = Before(head)
  /\ ring' = [ring EXCEPT ![Before(head)] = item]
  /\ count' = count + 1
  /\ UNCHANGED tail

PopFront ==
  /\ count > 0
  /\ head' = (head + 1) % Cap
  /\ count' = count - 1
  /\ UNCHANGED <<ring, tail>>

\* CHOOSE on a mandatory choice decrements the amount of the item the pump is
\* blocked on, and an optional one toggles a bit of it: in place.
EditFront(item) ==
  /\ count > 0
  /\ ring' = [ring EXCEPT ![head] = item]
  /\ UNCHANGED <<head, tail, count>>

Clear_KeepsTail == head' = 0 /\ count' = 0 /\ UNCHANGED <<ring, tail>>   \* mutant

\* The terminal sweep empties the ring before it re-adds what it keeps.
Clear ==
  /\ head' = 0
  /\ tail' = 0
  /\ count' = 0
  /\ UNCHANGED ring

Next ==
  \/ \E item \in Item : AddToBottom(item) \/ AddToTop(item) \/ EditFront(item)
  \/ PopFront
  \/ Clear

Spec == Init /\ [][Next]_vars

------------------------------------------------------------------------------
TypeOK ==
  /\ ring \in [Slot -> Item]
  /\ head \in Slot
  /\ tail \in Slot
  /\ count \in 0 .. Cap

\* The three stored counters never disagree: the tail is where the item after
\* the last one goes.  Left alone by no operation, so a single one that forgets
\* its counter or wraps it wrongly breaks it (action_queue.cpp:967-1051).
TailFollowsCount == tail = (head + count) % Cap

\* The items in the order in which the pump will serve them.
Contents == [i \in 1 .. count |-> ring[(head + i - 1) % Cap]]

Deque == INSTANCE ActionDeque WITH queue <- Contents

\* The ring implements the deque: no wrap-around loses, duplicates or reorders
\* an item (action_queue.cpp:967-1051, the sweep at 401-406 and 494-504).
ImplementsDeque == Deque!Spec
==============================================================================
