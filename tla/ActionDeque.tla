----------------------------- MODULE ActionDeque -----------------------------
(***************************************************************************)
(* What the combat engine promises of its action queue: a double-ended     *)
(* queue of at most Cap items.  Card effects and monster moves are queued  *)
(* at the bottom, reactions jump to the top, the pump serves the top.      *)
(* ActionRing is the ring buffer that implements it.                       *)
(***************************************************************************)
EXTENDS Naturals, Sequences

CONSTANTS Item,   \* what an ActionQueueItem may hold
          Cap     \* kActionQueueCap

VARIABLE queue

Init == queue = << >>

AddToBottom(item) ==
  /\ Len(queue) < Cap
  /\ queue' = Append(queue, item)

AddToTop(item) ==
  /\ Len(queue) < Cap
  /\ queue' = <<item>> \o queue

PopFront ==
  /\ queue # << >>
  /\ queue' = Tail(queue)

\* The pump's caller edits the item it is blocked on without removing it.
EditFront(item) ==
  /\ queue # << >>
  /\ queue' = [queue EXCEPT ![1] = item]

Clear == queue' = << >>

Next ==
  \/ \E item \in Item : AddToBottom(item) \/ AddToTop(item) \/ EditFront(item)
  \/ PopFront
  \/ Clear

Spec == Init /\ [][Next]_queue
==============================================================================
