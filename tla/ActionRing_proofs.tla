--------------------------- MODULE ActionRing_proofs ---------------------------
(***************************************************************************)
(* The ring of the action queue implements the deque, for every capacity   *)
(* and every set of items.                                                 *)
(***************************************************************************)
EXTENDS ActionRing, SequenceTheorems, TLAPS

\* Every index the ring computes is below 2 * Cap, where % takes away Cap at most
\* once (the wrap of action_queue.cpp:967-1051).
LEMMA ModBelow ==
  ASSUME NEW i \in Nat, i < Cap
  PROVE  i % Cap = i
  BY CapAssumption, SMTT(30)

LEMMA ModWrap ==
  ASSUME NEW i \in Nat, Cap <= i, i < 2 * Cap
  PROVE  i % Cap = i - Cap
  BY CapAssumption, SMTT(30)

\* The two moves of an index, as tests for the end of the array.
LEMMA NextSlot ==
  ASSUME NEW i \in Slot
  PROVE  (i + 1) % Cap = IF i = Cap - 1 THEN 0 ELSE i + 1
<1>1. CASE i = Cap - 1
  BY <1>1, ModWrap, CapAssumption DEF Slot
<1>2. CASE i # Cap - 1
  BY <1>2, ModBelow, CapAssumption DEF Slot
<1> QED BY <1>1, <1>2

LEMMA PreviousSlot ==
  ASSUME NEW i \in Slot
  PROVE  Before(i) = IF i = 0 THEN Cap - 1 ELSE i - 1
<1>1. CASE i = 0
  BY <1>1, ModBelow, CapAssumption DEF Slot, Before
<1>2. CASE i # 0
  BY <1>2, ModWrap, CapAssumption DEF Slot, Before
<1> QED BY <1>1, <1>2

\* Where the item at distance k from the head h is.
LEMMA Distance ==
  ASSUME NEW h \in Slot, NEW k \in 0 .. Cap
  PROVE  (h + k) % Cap = IF h + k < Cap THEN h + k ELSE h + k - Cap
<1>1. CASE h + k < Cap
  BY <1>1, ModBelow, CapAssumption DEF Slot
<1>2. CASE h + k >= Cap
  BY <1>2, ModWrap, CapAssumption DEF Slot
<1> QED BY <1>1, <1>2, CapAssumption DEF Slot

(***************************************************************************)
(* The invariant: the counters are in range and agree.                     *)
(***************************************************************************)
Inv == TypeOK /\ TailFollowsCount

LEMMA InvInit == Init => Inv
<1> SUFFICES ASSUME Init PROVE Inv
  OBVIOUS
<1>1. TypeOK
  BY CapAssumption DEF Init, TypeOK, Slot
<1>2. TailFollowsCount
  BY ModBelow, CapAssumption DEF Init, TailFollowsCount
<1> QED BY <1>1, <1>2 DEF Inv

LEMMA InvNext == Inv /\ [Next]_vars => Inv'
<1> SUFFICES ASSUME Inv, [Next]_vars PROVE Inv'
  OBVIOUS
<1> USE CapAssumption DEF Inv
<1>0. tail = IF head + count < Cap THEN head + count ELSE head + count - Cap
  BY Distance DEF TypeOK, TailFollowsCount
<1>1. ASSUME NEW item \in Item, AddToBottom(item) PROVE Inv'
  <2>1. tail' = IF tail = Cap - 1 THEN 0 ELSE tail + 1
    BY <1>1, NextSlot DEF TypeOK, AddToBottom
  <2>2. TypeOK'
    BY <1>1, <2>1 DEF TypeOK, AddToBottom, Slot
  <2>3. head' = head /\ count' = count + 1
    BY <1>1 DEF AddToBottom
  <2>4. (head' + count') % Cap = IF head' + count' < Cap THEN head' + count'
                                 ELSE head' + count' - Cap
    BY <2>2, Distance DEF TypeOK
  <2>5. tail' = IF head' + count' < Cap THEN head' + count' ELSE head' + count' - Cap
    BY <1>0, <2>1, <2>2, <2>3 DEF TypeOK, Slot
  <2> QED BY <2>2, <2>4, <2>5 DEF TailFollowsCount
<1>2. ASSUME NEW item \in Item, AddToTop(item) PROVE Inv'
  <2>1. head' = IF head = 0 THEN Cap - 1 ELSE head - 1
    BY <1>2, PreviousSlot DEF TypeOK, AddToTop
  <2>2. TypeOK'
    BY <1>2, <2>1 DEF TypeOK, AddToTop, Slot
  <2>3. tail' = tail /\ count' = count + 1
    BY <1>2 DEF AddToTop
  <2>4. (head' + count') % Cap = IF head' + count' < Cap THEN head' + count'
                                 ELSE head' + count' - Cap
    BY <2>2, Distance DEF TypeOK
  <2>5. tail' = IF head' + count' < Cap THEN head' + count' ELSE head' + count' - Cap
    BY <1>0, <2>1, <2>2, <2>3 DEF TypeOK, Slot
  <2> QED BY <2>2, <2>4, <2>5 DEF TailFollowsCount
<1>3. ASSUME NEW item \in Item, EditFront(item) PROVE Inv'
  BY <1>3 DEF EditFront, TypeOK, TailFollowsCount, Slot
<1>4. ASSUME PopFront PROVE Inv'
  <2>1. head' = IF head = Cap - 1 THEN 0 ELSE head + 1
    BY <1>4, NextSlot DEF TypeOK, PopFront
  <2>2. TypeOK'
    BY <1>4, <2>1 DEF TypeOK, PopFront, Slot
  <2>3. tail' = tail /\ count' = count - 1 /\ count > 0
    BY <1>4 DEF PopFront
  <2>4. (head' + count') % Cap = IF head' + count' < Cap THEN head' + count'
                                 ELSE head' + count' - Cap
    BY <2>2, Distance DEF TypeOK
  <2>5. tail' = IF head' + count' < Cap THEN head' + count' ELSE head' + count' - Cap
    BY <1>0, <2>1, <2>2, <2>3 DEF TypeOK, Slot
  <2> QED BY <2>2, <2>4, <2>5 DEF TailFollowsCount
<1>5. ASSUME Clear PROVE Inv'
  <2>1. TypeOK'
    BY <1>5 DEF TypeOK, Clear, Slot
  <2>2. TailFollowsCount'
    BY <1>5, ModBelow DEF TailFollowsCount, Clear
  <2> QED BY <2>1, <2>2
<1>6. CASE UNCHANGED vars
  BY <1>6 DEF vars, TypeOK, TailFollowsCount, Slot
<1> QED
  BY <1>1, <1>2, <1>3, <1>4, <1>5, <1>6 DEF Next

\* The counters of the ring stay in range (action_queue.cpp:967-1051).
THEOREM TypeCorrect == Spec => []TypeOK
<1>1. Inv => TypeOK
  BY DEF Inv
<1> QED BY <1>1, InvInit, InvNext, PTL DEF Spec

\* The stored tail is always where the head and the count say it is, whatever
\* the order of the operations: no operation may forget one of the three
\* (action_queue.cpp:967-1051, 401-406).
THEOREM TailCorrect == Spec => []TailFollowsCount
<1>1. Inv => TailFollowsCount
  BY DEF Inv
<1> QED BY <1>1, InvInit, InvNext, PTL DEF Spec

(***************************************************************************)
(* The refinement: each operation of the ring is the deque's on Contents.  *)
(***************************************************************************)
\* Where the i-th item is.
LEMMA Position ==
  ASSUME NEW h \in Slot, NEW i \in 1 .. Cap
  PROVE  (h + i - 1) % Cap = IF h + i - 1 < Cap THEN h + i - 1 ELSE h + i - 1 - Cap
<1>1. CASE h + i - 1 < Cap
  BY <1>1, ModBelow, CapAssumption DEF Slot
<1>2. CASE h + i - 1 >= Cap
  BY <1>2, ModWrap, CapAssumption DEF Slot
<1> QED BY <1>1, <1>2, CapAssumption DEF Slot

LEMMA IndexOf ==
  ASSUME NEW h \in Slot, NEW i \in 1 .. Cap
  PROVE  \E at \in Slot : /\ at = (h + i - 1) % Cap
                          /\ at = IF h + i - 1 < Cap THEN h + i - 1 ELSE h + i - 1 - Cap
<1>1. (h + i - 1) % Cap \in Slot
  BY Position, CapAssumption DEF Slot
<1> QED BY <1>1, Position

\* The n items from slot h on; Contents is the ring's from its head.
Segment(r, h, n) == [i \in 1 .. n |-> r[(h + i - 1) % Cap]]

LEMMA SegmentSeq ==
  ASSUME NEW r \in [Slot -> Item], NEW h \in Slot, NEW n \in 0 .. Cap
  PROVE  /\ Segment(r, h, n) \in Seq(Item)
         /\ Len(Segment(r, h, n)) = n
         /\ \A i \in 1 .. n : Segment(r, h, n)[i] = r[(h + i - 1) % Cap]
<1>1. \A i \in 1 .. n : (h + i - 1) % Cap \in Slot
  BY Position, CapAssumption DEF Slot
<1>2. Segment(r, h, n) \in [1 .. n -> Item] /\ n \in Nat
  BY <1>1, CapAssumption DEF Segment
<1>3. Segment(r, h, n) \in Seq(Item) /\ Len(Segment(r, h, n)) = n
  BY <1>2
<1> QED BY <1>3 DEF Segment

LEMMA ContentsInit == Init => Deque!Init
<1> SUFFICES ASSUME Init PROVE Contents = << >>
  BY DEF Deque!Init
<1>1. Contents \in Seq(Item) /\ Len(Contents) = 0
  BY SegmentSeq, CapAssumption DEF Init, Contents, Segment, Slot
<1> QED BY <1>1

\* What the deque's steps need to know of the state before and after.
LEMMA Views ==
  ASSUME TypeOK, TypeOK'
  PROVE  /\ Contents = Segment(ring, head, count)
         /\ Contents' = Segment(ring', head', count')
         /\ Contents \in Seq(Item) /\ Len(Contents) = count
         /\ Contents' \in Seq(Item) /\ Len(Contents') = count'
         /\ \A i \in 1 .. count : Contents[i] = ring[(head + i - 1) % Cap]
         /\ \A i \in 1 .. count' : Contents'[i] = ring'[(head' + i - 1) % Cap]
<1>1. Contents = Segment(ring, head, count) /\ Contents' = Segment(ring', head', count')
  BY DEF Contents, Segment
<1> QED BY <1>1, SegmentSeq DEF TypeOK, Slot

LEMMA BottomStep ==
  ASSUME Inv, Inv', NEW item \in Item, AddToBottom(item)
  PROVE  Deque!AddToBottom(item)
<1> DEFINE longer == Append(Contents, item)
<1>1. Contents \in Seq(Item) /\ Len(Contents) = count /\ count \in 0 .. Cap - 1
  BY Views, CapAssumption DEF Inv, TypeOK, AddToBottom
<1>2. Contents' \in Seq(Item) /\ Len(Contents') = count + 1
  BY Views DEF Inv, AddToBottom
<1>3. longer \in Seq(Item) /\ Len(longer) = count + 1
  BY <1>1
<1>4. ASSUME NEW i \in 1 .. count + 1 PROVE Contents'[i] = longer[i]
  <2>1. Contents'[i] = ring'[(head + i - 1) % Cap]
    BY Views DEF Inv, AddToBottom
  <2>2. PICK at \in Slot : /\ at = (head + i - 1) % Cap
                           /\ at = IF head + i - 1 < Cap THEN head + i - 1
                                   ELSE head + i - 1 - Cap
    BY <1>1, IndexOf, CapAssumption DEF Inv, TypeOK
  <2>3. tail = IF head + count < Cap THEN head + count ELSE head + count - Cap
    BY Distance DEF Inv, TypeOK, TailFollowsCount
  <2>4. CASE i = count + 1
    <3>1. at = tail
      <4> HIDE DEF longer
      <4> QED BY <2>2, <2>3, <2>4, <1>1, CapAssumption DEF Inv, TypeOK, Slot
    <3>2. ring'[tail] = item
      BY DEF Inv, TypeOK, AddToBottom
    <3> QED BY <1>1, <2>1, <2>2, <2>4, <3>1, <3>2
  <2>5. CASE i # count + 1
    <3>1. i \in 1 .. count
      BY <2>5, <1>1
    <3>2. at # tail
      BY <2>2, <2>3, <3>1, <1>1, CapAssumption DEF Inv, TypeOK, Slot
    <3>3. ring'[at] = ring[at]
      BY <3>2 DEF Inv, TypeOK, AddToBottom
    <3>4. Contents[i] = ring[at]
      BY <2>2, <3>1, Views DEF Inv
    <3> QED BY <1>1, <2>1, <2>2, <3>1, <3>3, <3>4
  <2> QED BY <2>4, <2>5
<1>5. Contents' = longer
  BY <1>2, <1>3, <1>4, SeqEqual
<1> QED BY <1>1, <1>5, CapAssumption DEF Deque!AddToBottom

LEMMA TopStep ==
  ASSUME Inv, Inv', NEW item \in Item, AddToTop(item)
  PROVE  Deque!AddToTop(item)
<1> DEFINE longer == <<item>> \o Contents
<1>1. Contents \in Seq(Item) /\ Len(Contents) = count /\ count \in 0 .. Cap - 1
  BY Views, CapAssumption DEF Inv, TypeOK, AddToTop
<1>2. Contents' \in Seq(Item) /\ Len(Contents') = count + 1
  BY Views DEF Inv, AddToTop
<1>3. /\ longer \in Seq(Item) /\ Len(longer) = count + 1
      /\ \A i \in 1 .. count + 1 : longer[i] = IF i = 1 THEN item ELSE Contents[i - 1]
  BY <1>1
<1>4. PICK top \in 0 .. Cap - 1 : /\ top = head'
                                /\ top = IF head = 0 THEN Cap - 1 ELSE head - 1
  BY PreviousSlot, CapAssumption DEF Inv, TypeOK, AddToTop, Slot
<1>5. ASSUME NEW i \in 1 .. count + 1 PROVE Contents'[i] = longer[i]
  <2>1. Contents'[i] = ring'[(top + i - 1) % Cap]
    BY <1>4, Views DEF Inv, AddToTop
  <2>2. PICK at \in Slot : /\ at = (top + i - 1) % Cap
                           /\ at = IF top + i - 1 < Cap THEN top + i - 1
                                   ELSE top + i - 1 - Cap
    BY <1>1, IndexOf, CapAssumption DEF Slot
  <2>3. ring' = [ring EXCEPT ![top] = item] /\ top \in Slot
    BY <1>4 DEF AddToTop, Slot
  <2>4. CASE i = 1
    <3>1. at = top
      BY <2>2, <2>4, CapAssumption
    <3>2. ring'[top] = item
      BY <2>3 DEF Inv, TypeOK
    <3> QED BY <1>3, <2>1, <2>2, <2>4, <3>1, <3>2
  <2>5. CASE i # 1
    <3>1. PICK j \in 1 .. count : i = j + 1
      BY <2>5, <1>1
    <3>2. PICK old \in Slot : /\ old = (head + j - 1) % Cap
                              /\ old = IF head + j - 1 < Cap THEN head + j - 1
                                       ELSE head + j - 1 - Cap
      BY <1>1, <3>1, IndexOf, CapAssumption DEF Inv, TypeOK
    <3>3. at = old /\ at # top
      BY <1>1, <1>4, <2>2, <3>1, <3>2, CapAssumption DEF Inv, TypeOK, Slot
    <3>4. ring'[at] = ring[at]
      BY <2>3, <3>3 DEF Inv, TypeOK
    <3>5. Contents[j] = ring[old]
      BY <3>1, <3>2, Views DEF Inv
    <3> QED BY <1>1, <1>3, <2>1, <2>2, <2>5, <3>1, <3>3, <3>4, <3>5
  <2> QED BY <2>4, <2>5
<1>6. Contents' = longer
  BY <1>2, <1>3, <1>5, SeqEqual
<1> QED BY <1>1, <1>6, CapAssumption DEF Deque!AddToTop

LEMMA PopStep ==
  ASSUME Inv, Inv', PopFront
  PROVE  Deque!PopFront
<1> DEFINE rest == Tail(Contents)
<1>1. Contents \in Seq(Item) /\ Len(Contents) = count /\ count \in 1 .. Cap
  BY Views, CapAssumption DEF Inv, TypeOK, PopFront
<1>2. Contents' \in Seq(Item) /\ Len(Contents') = count - 1
  BY Views DEF Inv, PopFront
<1>3. /\ rest \in Seq(Item) /\ Len(rest) = count - 1
      /\ \A i \in 1 .. count - 1 : rest[i] = Contents[i + 1]
  BY <1>1
<1>4. PICK next \in 0 .. Cap - 1 : /\ next = head'
                                 /\ next = IF head = Cap - 1 THEN 0 ELSE head + 1
  BY NextSlot, CapAssumption DEF Inv, TypeOK, PopFront, Slot
<1>5. ASSUME NEW i \in 1 .. count - 1 PROVE Contents'[i] = rest[i]
  <2>1. Contents'[i] = ring[(next + i - 1) % Cap]
    BY <1>4, Views DEF Inv, PopFront
  <2>2. PICK at \in Slot : /\ at = (next + i - 1) % Cap
                           /\ at = IF next + i - 1 < Cap THEN next + i - 1
                                   ELSE next + i - 1 - Cap
    <3>1. i \in 1 .. Cap /\ next \in Slot
      BY <1>1, CapAssumption DEF Slot
    <3> QED BY <3>1, IndexOf
  <2>3. PICK j \in 1 .. count : j = i + 1
    BY <1>1
  <2>4. PICK old \in Slot : /\ old = (head + j - 1) % Cap
                            /\ old = IF head + j - 1 < Cap THEN head + j - 1
                                     ELSE head + j - 1 - Cap
    BY <1>1, <2>3, IndexOf, CapAssumption DEF Inv, TypeOK
  <2>5. at = old
    BY <1>1, <1>4, <2>2, <2>3, <2>4, CapAssumption DEF Inv, TypeOK, Slot
  <2>6. Contents[j] = ring[old]
    BY <2>3, <2>4, Views DEF Inv
  <2> QED BY <1>3, <2>1, <2>2, <2>3, <2>5, <2>6
<1>6. Contents' = rest
  BY <1>2, <1>3, <1>5, SeqEqual
<1> QED BY <1>1, <1>6 DEF Deque!PopFront

LEMMA EditStep ==
  ASSUME Inv, Inv', NEW item \in Item, EditFront(item)
  PROVE  Deque!EditFront(item)
<1> DEFINE edited == [Contents EXCEPT ![1] = item]
<1>1. Contents \in Seq(Item) /\ Len(Contents) = count /\ count \in 1 .. Cap
  BY Views, CapAssumption DEF Inv, TypeOK, EditFront
<1>2. Contents' \in Seq(Item) /\ Len(Contents') = count
  BY Views DEF Inv, EditFront
<1>3. /\ edited \in Seq(Item) /\ Len(edited) = count
      /\ \A i \in 1 .. count : edited[i] = IF i = 1 THEN item ELSE Contents[i]
  BY <1>1
<1>4. ASSUME NEW i \in 1 .. count PROVE Contents'[i] = edited[i]
  <2>1. Contents'[i] = ring'[(head + i - 1) % Cap]
    BY Views DEF Inv, EditFront
  <2>2. PICK at \in Slot : /\ at = (head + i - 1) % Cap
                           /\ at = IF head + i - 1 < Cap THEN head + i - 1
                                   ELSE head + i - 1 - Cap
    BY <1>1, IndexOf, CapAssumption DEF Inv, TypeOK
  <2>3. i = 1 <=> at = head
    BY <1>1, <2>2, CapAssumption DEF Inv, TypeOK, Slot
  <2>4. ring'[at] = IF at = head THEN item ELSE ring[at]
    BY DEF Inv, TypeOK, EditFront
  <2>5. Contents[i] = ring[at]
    BY <2>2, Views DEF Inv
  <2> QED BY <1>3, <2>1, <2>2, <2>3, <2>4, <2>5
<1>5. Contents' = edited
  BY <1>2, <1>3, <1>4, SeqEqual
<1> QED BY <1>1, <1>5 DEF Deque!EditFront

LEMMA ClearStep ==
  ASSUME Inv, Inv', Clear
  PROVE  Deque!Clear
<1>1. Contents' \in Seq(Item) /\ Len(Contents') = 0
  BY Views DEF Inv, Clear
<1> QED BY <1>1 DEF Deque!Clear

\* The ring is the deque: for every capacity, no wrap-around loses, duplicates or
\* reorders an item (action_queue.cpp:967-1051, 401-406).
THEOREM RingImplementsDeque == Spec => ImplementsDeque
<1>1. Inv /\ Inv' /\ [Next]_vars => [Deque!Next]_Contents
  <2> SUFFICES ASSUME Inv, Inv', [Next]_vars PROVE [Deque!Next]_Contents
    OBVIOUS
  <2>1. ASSUME NEW item \in Item, AddToBottom(item) PROVE Deque!Next
    BY <2>1, BottomStep DEF Deque!Next
  <2>2. ASSUME NEW item \in Item, AddToTop(item) PROVE Deque!Next
    BY <2>2, TopStep DEF Deque!Next
  <2>3. ASSUME NEW item \in Item, EditFront(item) PROVE Deque!Next
    BY <2>3, EditStep DEF Deque!Next
  <2>4. CASE PopFront
    BY <2>4, PopStep DEF Deque!Next
  <2>5. CASE Clear
    BY <2>5, ClearStep DEF Deque!Next
  <2>6. CASE UNCHANGED vars
    BY <2>6 DEF vars, Contents
  <2> QED BY <2>1, <2>2, <2>3, <2>4, <2>5, <2>6 DEF Next
<1>2. Spec => []Inv
  BY InvInit, InvNext, PTL DEF Spec
<1> QED
  BY <1>1, <1>2, ContentsInit, PTL DEF Spec, ImplementsDeque, Deque!Spec
================================================================================
