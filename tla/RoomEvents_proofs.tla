-------------------------- MODULE RoomEvents_proofs --------------------------
(***************************************************************************)
(* Proofs about what the rooms' bodies do to a run (RunPurse, RelicShelf,  *)
(* NeowBlessing) and about the dialogs of the events (ActEvents,           *)
(* ShrineEvents): every body leaves the run in order, with Du-Vu Doll's    *)
(* counter true, and a dialog leaves nobody without health or in debt      *)
(* unless it ends the run.  The theorems of RoomVisit rest on them.        *)
(***************************************************************************)
EXTENDS RoomVisit, FiniteSetTheorems, SequenceTheorems, TLAPS



(***************************************************************************)
(* The run.                                                                *)
(***************************************************************************)
RunFields == {"hp", "max", "gold", "deck", "relics", "charm", "tail", "doll", "lifts", "maw",
              "nest", "mask", "belt", "hard", "purge", "keys", "pools"}

IsCard(c) == c = [x \in {"k", "up", "bottle"} |-> c[x]]
IsDeck(d) == \E S : d \in Seq(S) /\ \A c \in S : IsCard(c)
IsList(s) == \E S : s \in Seq(S)

\* A run, but for Du-Vu Doll's counter: what it is made of, its health and
\* gold, and what it holds.
RunShape(r) == r = [x \in RunFields |-> r[x]]
Vital(r) == /\ r.hp \in Nat /\ r.max \in Nat /\ r.max > 0 /\ r.hp <= r.max
            /\ r.gold \in Nat /\ r.purge \in Int
Body(r) == RunShape(r) /\ Vital(r) /\ IsList(r.belt) /\ IsDeck(r.deck)

DollTrue(r) == Owns(r, "doll") => r.doll = Curses(r.deck)
RunOK(r) == Body(r) /\ DollTrue(r)

\* What health and gold do not touch, and what cards do not touch.
SameCards(r, q) ==
  q.deck = r.deck /\ q.relics = r.relics /\ q.doll = r.doll /\ q.belt = r.belt
SamePack(r, q) == q.relics = r.relics /\ q.belt = r.belt

Alive(r, q) == r.hp > 0 => q.hp > 0

\* What a body may make of a run; Doored where only the deck's doors were used.
Kept(r, q) == RunOK(q) /\ Alive(r, q)
Doored(r, q) == Kept(r, q) /\ SamePack(r, q)

\* A run with other numbers and the same cards.
LEMMA BodyOfSame ==
  ASSUME NEW r, Body(r), NEW q, RunShape(q), Vital(q), SameCards(r, q)
  PROVE  Body(q)
  BY DEF Body, SameCards

\* Such a run keeps the doll's count.
LEMMA KeptOfSame ==
  ASSUME NEW r, RunOK(r), NEW q, Body(q), SameCards(r, q), Alive(r, q)
  PROVE  Doored(r, q)
  BY DEF Doored, Kept, RunOK, DollTrue, Owns, SameCards, SamePack

\* Two steps of a body are a step.
LEMMA KeptTwice ==
  ASSUME NEW r, NEW p, NEW q, Kept(r, p), Kept(p, q) PROVE Kept(r, q)
  BY DEF Kept, Alive, RunOK, Body, Vital

\* Two steps through the deck's doors are one.
LEMMA DooredTwice ==
  ASSUME NEW r, NEW p, NEW q, Doored(r, p), Doored(p, q) PROVE Doored(r, q)
  BY KeptTwice DEF Doored, SamePack

\* heal_out_of_combat leaves the living alive and the rest as it was.
LEMMA Healing ==
  ASSUME NEW r, Body(r), NEW n \in Nat
  PROVE  /\ Body(HealOutOfCombat(r, n)) /\ SameCards(r, HealOutOfCombat(r, n))
         /\ Alive(r, HealOutOfCombat(r, n)) /\ HealOutOfCombat(r, n).gold = r.gold
         /\ HealOutOfCombat(r, n).max = r.max
<1> DEFINE q == HealOutOfCombat(r, n)
<1>1. RunShape(q) /\ SameCards(r, q) /\ q.purge = r.purge /\ q.gold = r.gold /\ q.max = r.max
      /\ q.hp = Least(r.max, r.hp + (IF Owns(r, "bloom") THEN 0 ELSE n))
  BY DEF Body, RunShape, RunFields, HealOutOfCombat, SameCards
<1> HIDE DEF q
<1>2. Vital(q) /\ Alive(r, q)
  BY <1>1 DEF Body, Vital, Alive, Least
<1> QED BY <1>1, <1>2, BodyOfSame DEF q

\* heal does too.
LEMMA HealKeeps ==
  ASSUME NEW r, Body(r), NEW n \in Int
  PROVE  /\ Body(Heal(r, n)) /\ SameCards(r, Heal(r, n))
         /\ Alive(r, Heal(r, n)) /\ Heal(r, n).gold = r.gold /\ Heal(r, n).max = r.max
<1>1. CASE n <= 0 \/ r.hp <= 0
  BY <1>1 DEF Heal, SameCards, Alive
<1>2. CASE ~(n <= 0 \/ r.hp <= 0)
  <2>1. n \in Nat
    BY <1>2 DEF Body, Vital
  <2> QED BY <1>2, <2>1, Healing DEF Heal
<1> QED BY <1>1, <1>2

\* A raised ceiling.
LEMMA RaiseKeeps ==
  ASSUME NEW r, Body(r), NEW n \in Nat
  PROVE  /\ Body(RaiseMax(r, n)) /\ SameCards(r, RaiseMax(r, n))
         /\ Alive(r, RaiseMax(r, n)) /\ RaiseMax(r, n).gold = r.gold
<1> DEFINE q == [r EXCEPT !.max = @ + n]
<1>1. RunShape(q) /\ SameCards(r, q) /\ q.hp = r.hp /\ q.gold = r.gold /\ q.max = r.max + n
      /\ q.purge = r.purge
  BY DEF Body, RunShape, RunFields, SameCards
<1>2. RaiseMax(r, n) = Heal(q, n)
  BY DEF RaiseMax
<1> HIDE DEF q
<1>3. Body(q)
  <2>1. Vital(q)
    BY <1>1 DEF Body, Vital
  <2> QED BY <1>1, <2>1, BodyOfSame
<1> QED BY <1>1, <1>2, <1>3, HealKeeps DEF SameCards, Alive

\* A lowered one kills nobody.
LEMMA LowerKeeps ==
  ASSUME NEW r, Body(r), NEW n \in Int
  PROVE  /\ Body(LowerMax(r, n)) /\ SameCards(r, LowerMax(r, n))
         /\ Alive(r, LowerMax(r, n)) /\ LowerMax(r, n).gold = r.gold
<1> DEFINE q == LowerMax(r, n)
<1>1. RunShape(q) /\ SameCards(r, q) /\ q.gold = r.gold /\ q.purge = r.purge
      /\ q.max = Most(1, r.max - n) /\ q.hp = Least(r.hp, Most(1, r.max - n))
  BY DEF Body, RunShape, RunFields, LowerMax, SameCards
<1> HIDE DEF q
<1>2. Vital(q) /\ Alive(r, q)
  BY <1>1 DEF Body, Vital, Alive, Least, Most
<1> QED BY <1>1, <1>2, BodyOfSame DEF q

\* Gold gained, with Bloody Idol's answer.
LEMMA GainKeeps ==
  ASSUME NEW r, Body(r), NEW n \in Int
  PROVE  /\ Body(GainGold(r, n)) /\ SameCards(r, GainGold(r, n))
         /\ Alive(r, GainGold(r, n)) /\ GainGold(r, n).max = r.max
<1> DEFINE q == [r EXCEPT !.gold = @ + n]
<1>0. CASE Owns(r, "ectoplasm") \/ n <= 0
  BY <1>0 DEF GainGold, SameCards, Alive
<1>1. CASE ~(Owns(r, "ectoplasm") \/ n <= 0)
  <2>1. RunShape(q) /\ SameCards(r, q) /\ q.hp = r.hp /\ q.max = r.max /\ q.purge = r.purge
        /\ q.gold = r.gold + n
    BY DEF Body, RunShape, RunFields, SameCards
  <2>2. GainGold(r, n) = IF Owns(r, "bloody_idol") THEN HealOutOfCombat(q, 5) ELSE q
    BY <1>1, <2>1 DEF GainGold, Owns, SameCards
  <2> HIDE DEF q
  <2>3. Body(q)
    <3>1. Vital(q)
      BY <1>1, <2>1 DEF Body, Vital
    <3> QED BY <2>1, <3>1, BodyOfSame
  <2> QED BY <2>1, <2>2, <2>3, Healing DEF SameCards, Alive
<1> QED BY <1>0, <1>1

\* Gold lost or spent never leaves a debt.
LEMMA LoseKeeps ==
  ASSUME NEW r, Body(r), NEW n \in Int
  PROVE  /\ Body(LoseGold(r, n)) /\ SameCards(r, LoseGold(r, n)) /\ Alive(r, LoseGold(r, n))
         /\ Body(SpendGold(r, n)) /\ SameCards(r, SpendGold(r, n)) /\ Alive(r, SpendGold(r, n))
<1> DEFINE p == LoseGold(r, n)
           q == SpendGold(r, n)
<1>1. RunShape(p) /\ SameCards(r, p) /\ p.hp = r.hp /\ p.max = r.max
      /\ p.purge = r.purge /\ p.gold = Most(0, r.gold - n)
  BY DEF Body, RunShape, RunFields, SameCards, LoseGold
<1>2. RunShape(q) /\ SameCards(r, q) /\ q.hp = r.hp /\ q.max = r.max
      /\ q.purge = r.purge /\ q.gold = Most(0, r.gold - n)
  BY DEF Body, RunShape, RunFields, SameCards, LoseGold, SpendGold
<1> HIDE DEF p, q
<1>3. Vital(p) /\ Alive(r, p)
  BY <1>1 DEF Body, Vital, Alive, Most
<1>4. Vital(q) /\ Alive(r, q)
  BY <1>2 DEF Body, Vital, Alive, Most
<1> QED BY <1>1, <1>2, <1>3, <1>4, BodyOfSame DEF p, q

-----------------------------------------------------------------------------
\* Sequences of cards stay so under what the doors do to them.
LEMMA DeckOps ==
  ASSUME NEW d, IsDeck(d), NEW c, IsCard(c)
  PROVE  /\ IsDeck(Append(d, c)) /\ IsDeck(<<c>> \o d)
         /\ Len(Append(d, c)) = Len(d) + 1 /\ Len(<<c>> \o d) = Len(d) + 1
<1>1. PICK S : d \in Seq(S) /\ \A x \in S : IsCard(x)
  BY DEF IsDeck
<1> DEFINE T == S \cup {c}
<1>2. d \in Seq(T) /\ c \in T /\ \A x \in T : IsCard(x)
  BY <1>1
<1> HIDE DEF T
<1>3. Append(d, c) \in Seq(T) /\ <<c>> \o d \in Seq(T)
      /\ Len(Append(d, c)) = Len(d) + 1 /\ Len(<<c>> \o d) = Len(d) + 1
  BY <1>2
<1> QED BY <1>2, <1>3 DEF IsDeck

\* One card less.
LEMMA DeckRemove ==
  ASSUME NEW d, IsDeck(d), NEW i \in DOMAIN d
  PROVE  IsDeck(RemoveAt(d, i)) /\ Len(RemoveAt(d, i)) = Len(d) - 1
<1>1. PICK S : d \in Seq(S) /\ \A x \in S : IsCard(x)
  BY DEF IsDeck
<1> DEFINE p == SubSeq(d, 1, i - 1)
           q == SubSeq(d, i + 1, Len(d))
<1>2. i \in 1..Len(d) /\ Len(d) \in Nat
  BY <1>1
<1>3. p \in Seq(S) /\ Len(p) = i - 1
  BY <1>1, <1>2
<1>4. q \in Seq(S) /\ Len(q) = Len(d) - i
  BY <1>1, <1>2
<1>5. RemoveAt(d, i) = p \o q
  BY DEF RemoveAt
<1> HIDE DEF p, q
<1>6. p \o q \in Seq(S) /\ Len(p \o q) = Len(d) - 1
  BY <1>2, <1>3, <1>4
<1> QED BY <1>1, <1>5, <1>6 DEF IsDeck

\* A deck whose cards are rewritten place by place.
LEMMA DeckMap ==
  ASSUME NEW d, IsDeck(d), NEW e, DOMAIN e = DOMAIN d, e = [i \in DOMAIN d |-> e[i]],
         \A i \in DOMAIN d : IsCard(e[i])
  PROVE  IsDeck(e)
<1>1. PICK S : d \in Seq(S) /\ \A x \in S : IsCard(x)
  BY DEF IsDeck
<1> DEFINE T == {e[i] : i \in DOMAIN d}
<1>2. DOMAIN d = 1..Len(d) /\ Len(d) \in Nat
  BY <1>1
<1>3. \A x \in T : IsCard(x)
  OBVIOUS
<1>4. e \in [1..Len(d) -> T]
  BY <1>2
<1> HIDE DEF T
<1>5. e \in Seq(T)
  BY <1>2, <1>4
<1> QED BY <1>3, <1>5 DEF IsDeck

\* The places of a deck.
LEMMA DeckPlaces ==
  ASSUME NEW d, IsDeck(d)
  PROVE  /\ Len(d) \in Nat /\ DOMAIN d = 1..Len(d) /\ d = [i \in DOMAIN d |-> d[i]]
         /\ \A i \in DOMAIN d : IsCard(d[i])
<1>1. PICK S : d \in Seq(S) /\ \A x \in S : IsCard(x)
  BY DEF IsDeck
<1> QED BY <1>1

\* Recounting makes the doll's counter true, and changes nothing else.
LEMMA RecountKeeps ==
  ASSUME NEW r, Body(r)
  PROVE  /\ RunOK(Recounted(r)) /\ SamePack(r, Recounted(r)) /\ Recounted(r).hp = r.hp
         /\ Recounted(r).deck = r.deck /\ Recounted(r).gold = r.gold /\ Recounted(r).max = r.max
<1> DEFINE q == Recounted(r)
<1>1. RunShape(q) /\ SamePack(r, q) /\ q.hp = r.hp /\ q.deck = r.deck /\ q.gold = r.gold
      /\ q.max = r.max /\ q.purge = r.purge
      /\ (Owns(r, "doll") => q.doll = Curses(r.deck))
  BY DEF Body, RunShape, RunFields, SamePack, Recounted
<1> HIDE DEF q
<1>2. Vital(q) /\ IsList(q.belt) /\ IsDeck(q.deck)
  BY <1>1 DEF Body, Vital, SamePack
<1>3. DollTrue(q)
  BY <1>1 DEF DollTrue, Owns, SamePack
<1> QED BY <1>1, <1>2, <1>3 DEF RunOK, Body, q

\* The relics that answer a card leave the cards alone.
LEMMA HookKeeps ==
  ASSUME NEW r, Body(r), NEW c
  PROVE  Body(ObtainHooks(r, c)) /\ SameCards(r, ObtainHooks(r, c)) /\ Alive(r, ObtainHooks(r, c))
<1> DEFINE paid == IF Owns(r, "ceramic_fish") THEN GainGold(r, 9) ELSE r
           q == [paid EXCEPT !.max = @ + 6, !.hp = @ + 6]
<1>1. Body(paid) /\ SameCards(r, paid) /\ Alive(r, paid)
  BY GainKeeps DEF SameCards, Alive
<1>2. ObtainHooks(r, c) = IF Owns(r, "darkstone") /\ TypeOf(c) = "curse" THEN q ELSE paid
  BY DEF ObtainHooks
<1> HIDE DEF paid
<1>3. RunShape(q) /\ SameCards(paid, q) /\ q.hp = paid.hp + 6 /\ q.max = paid.max + 6
      /\ q.gold = paid.gold /\ q.purge = paid.purge
  BY <1>1 DEF Body, RunShape, RunFields, SameCards
<1> HIDE DEF q
<1>4. Vital(q) /\ Alive(paid, q)
  BY <1>1, <1>3 DEF Body, Vital, Alive
<1>5. Body(q)
  BY <1>1, <1>3, <1>4, BodyOfSame
<1> QED BY <1>1, <1>2, <1>3, <1>4, <1>5 DEF SameCards, Alive, Body, Vital

\* An egg's card, and a new one, are cards.
LEMMA HatchedIsCard ==
  ASSUME NEW r, NEW c, IsCard(c) PROVE IsCard(Hatched(r, c))
  BY DEF Hatched, IsCard

\* A new card is a card.
LEMMA FreshIsCard == ASSUME NEW k, NEW up PROVE IsCard(Fresh(k, up)) /\ Fresh(k, up).k = k
  BY DEF Fresh, IsCard

\* A run with another deck.
LEMMA DeckChange ==
  ASSUME NEW r, Body(r), NEW d, IsDeck(d)
  PROVE  LET q == [r EXCEPT !.deck = d]
         IN  Body(q) /\ SamePack(r, q) /\ q.deck = d /\ q.hp = r.hp /\ q.doll = r.doll
<1> DEFINE q == [r EXCEPT !.deck = d]
<1>1. RunShape(q) /\ SamePack(r, q) /\ q.deck = d /\ q.hp = r.hp /\ q.gold = r.gold
      /\ q.max = r.max /\ q.purge = r.purge /\ q.doll = r.doll
  BY DEF Body, RunShape, RunFields, SamePack
<1> HIDE DEF q
<1>2. Vital(q) /\ IsList(q.belt)
  BY <1>1 DEF Body, Vital, SamePack
<1> QED BY <1>1, <1>2 DEF Body, q

\* The deck's door once Omamori has let the card pass.
LEMMA PastKeeps ==
  ASSUME NEW r, RunOK(r), NEW c, IsCard(c)
  PROVE  Doored(r, AddPastOmamori(r, c)) /\ Len(AddPastOmamori(r, c).deck) >= Len(r.deck)
<1>0. IsDeck(r.deck) /\ Len(r.deck) \in Nat
  BY DeckPlaces DEF RunOK, Body
<1>1. CASE Len(r.deck) >= DeckCap
  BY <1>0, <1>1 DEF AddPastOmamori, Doored, Kept, Alive, SamePack
<1>2. CASE ~(Len(r.deck) >= DeckCap)
  <2> DEFINE d == Append(r.deck, Hatched(r, c))
             p == [r EXCEPT !.deck = d]
             q == ObtainHooks(p, c)
  <2>1. IsDeck(d) /\ Len(d) = Len(r.deck) + 1
    BY <1>0, HatchedIsCard, DeckOps
  <2>3. AddPastOmamori(r, c) = Recounted(q)
    BY <1>2 DEF AddPastOmamori
  <2> HIDE DEF d
  <2>2. Body(p) /\ SamePack(r, p) /\ p.hp = r.hp /\ p.deck = d
    BY <2>1, DeckChange DEF RunOK
  <2> HIDE DEF p
  <2>4. Body(q) /\ SameCards(p, q) /\ Alive(p, q)
    BY <2>2, HookKeeps
  <2> HIDE DEF q
  <2>5. RunOK(Recounted(q)) /\ SamePack(q, Recounted(q)) /\ Recounted(q).hp = q.hp /\ Recounted(q).deck = q.deck
    BY <2>4, RecountKeeps
  <2> QED BY <1>0, <2>1, <2>2, <2>3, <2>4, <2>5 DEF Doored, Kept, Alive, SamePack, SameCards
<1> QED BY <1>1, <1>2

\* The deck's door.
LEMMA CopyKeeps ==
  ASSUME NEW r, RunOK(r), NEW c, IsCard(c)
  PROVE  Doored(r, AddCopy(r, c)) /\ Len(AddCopy(r, c).deck) >= Len(r.deck)
<1>1. CASE OmamoriBlocks(r, c.k)
  <2> DEFINE q == [r EXCEPT !.charm = @ - 1]
  <2>1. RunShape(q) /\ SameCards(r, q) /\ q.hp = r.hp /\ q.max = r.max /\ q.gold = r.gold
        /\ q.purge = r.purge
    BY DEF RunOK, Body, RunShape, RunFields, SameCards
  <2>2. AddCopy(r, c) = q
    BY <1>1 DEF AddCopy
  <2> HIDE DEF q
  <2>3. Body(q) /\ Alive(r, q)
    BY <2>1, BodyOfSame DEF RunOK, Body, Vital, Alive
  <2>4. Len(r.deck) \in Nat
    BY DeckPlaces DEF RunOK, Body
  <2> QED BY <2>1, <2>2, <2>3, <2>4, KeptOfSame DEF SameCards
<1>2. CASE ~OmamoriBlocks(r, c.k)
  BY <1>2, PastKeeps DEF AddCopy
<1> QED BY <1>1, <1>2

\* A new card through the door.
LEMMA AddKeeps ==
  ASSUME NEW r, RunOK(r), NEW k
  PROVE  Doored(r, AddCard(r, k)) /\ Len(AddCard(r, k).deck) >= Len(r.deck)
  BY CopyKeeps, FreshIsCard DEF AddCard

\* The note's door.
LEMMA TopKeeps ==
  ASSUME NEW r, RunOK(r), NEW k
  PROVE  Doored(r, AddCardOnTop(r, k))
<1>0. IsDeck(r.deck)
  BY DEF RunOK, Body
<1>1. CASE Len(r.deck) >= DeckCap
  BY <1>1 DEF AddCardOnTop, Doored, Kept, Alive, SamePack
<1>2. CASE ~(Len(r.deck) >= DeckCap)
  <2> DEFINE d == <<Hatched(r, Fresh(k, 0))>> \o r.deck
             p == [r EXCEPT !.deck = d]
             q == ObtainHooks(p, Fresh(k, 0))
  <2>1. IsDeck(d)
    BY <1>0, HatchedIsCard, FreshIsCard, DeckOps
  <2>2. AddCardOnTop(r, k) = Recounted(q)
    BY <1>2 DEF AddCardOnTop
  <2> HIDE DEF d
  <2>3. Body(p) /\ SamePack(r, p) /\ p.hp = r.hp
    BY <2>1, DeckChange DEF RunOK
  <2> HIDE DEF p
  <2>4. Body(q) /\ SameCards(p, q) /\ Alive(p, q)
    BY <2>3, HookKeeps
  <2> HIDE DEF q
  <2> QED BY <2>2, <2>3, <2>4, RecountKeeps DEF Doored, Kept, Alive, SamePack, SameCards
<1> QED BY <1>1, <1>2

\* The way out of the deck.
LEMMA RemoveKeeps ==
  ASSUME NEW r, RunOK(r), NEW i \in DOMAIN r.deck
  PROVE  Doored(r, RemoveCard(r, i)) /\ Len(RemoveCard(r, i).deck) = Len(r.deck) - 1
<1> DEFINE d == RemoveAt(r.deck, i)
           left == [r EXCEPT !.deck = d]
           q == IF r.deck[i].k = "parasite" THEN LowerMax(left, 3) ELSE left
<1>1. IsDeck(d) /\ Len(d) = Len(r.deck) - 1
  BY DeckRemove DEF RunOK, Body
<1>2. RemoveCard(r, i) = Recounted(q)
  BY DEF RemoveCard
<1> HIDE DEF d
<1>3. Body(left) /\ SamePack(r, left) /\ left.hp = r.hp /\ left.deck = d
  BY <1>1, DeckChange DEF RunOK
<1> HIDE DEF left
<1>4. Body(q) /\ SameCards(left, q) /\ Alive(left, q)
  BY <1>3, LowerKeeps DEF SameCards, Alive
<1> HIDE DEF q
<1> QED BY <1>1, <1>2, <1>3, <1>4, RecountKeeps DEF Doored, Kept, Alive, SamePack, SameCards

\* Cards rewritten in their places, each still what it was.
LEMMA Rewritten ==
  ASSUME NEW r, RunOK(r), NEW e, DOMAIN e = DOMAIN r.deck, e = [i \in DOMAIN r.deck |-> e[i]],
         \A i \in DOMAIN r.deck : IsCard(e[i]) /\ e[i].k = r.deck[i].k
  PROVE  Doored(r, [r EXCEPT !.deck = e])
<1> DEFINE q == [r EXCEPT !.deck = e]
<1>1. IsDeck(r.deck) /\ IsDeck(e)
  BY DeckMap DEF RunOK, Body
<1>2. Len(e) = Len(r.deck)
  <2>1. 1..Len(e) = 1..Len(r.deck) /\ Len(e) \in Nat /\ Len(r.deck) \in Nat
    BY <1>1, DeckPlaces
  <2> QED BY <2>1
<1>3. Curses(e) = Curses(r.deck)
  <2>1. \A i \in 1..Len(r.deck) : e[i].k = r.deck[i].k
    BY <1>1, DeckPlaces
  <2> QED BY <1>2, <2>1 DEF Curses, TypeOf
<1>4. Body(q) /\ SamePack(r, q) /\ q.deck = e /\ q.hp = r.hp /\ q.doll = r.doll
  BY <1>1, DeckChange DEF RunOK
<1> HIDE DEF q
<1> QED BY <1>3, <1>4 DEF Doored, Kept, RunOK, DollTrue, Owns, SamePack, Alive, q

\* Upgrades.
LEMMA UpgradeKeeps ==
  ASSUME NEW r, RunOK(r), NEW s
  PROVE  Doored(r, UpgradeSet(r, s)) /\ (\A i : Doored(r, UpgradeCard(r, i)))
         /\ \A n : \A q \in UpgradeSome(r, s, n) : Doored(r, q)
<1>1. ASSUME NEW t PROVE Doored(r, UpgradeSet(r, t))
  <2> DEFINE e == [i \in DOMAIN r.deck |->
                     IF i \in t THEN [r.deck[i] EXCEPT !.up = @ + 1] ELSE r.deck[i]]
  <2>1. \A i \in DOMAIN r.deck : IsCard(e[i]) /\ e[i].k = r.deck[i].k
    <3>1. \A i \in DOMAIN r.deck : IsCard(r.deck[i])
      BY DeckPlaces DEF RunOK, Body
    <3> QED BY <3>1 DEF IsCard
  <2>2. UpgradeSet(r, t) = [r EXCEPT !.deck = e]
    BY Zenon DEF UpgradeSet
  <2>3. DOMAIN e = DOMAIN r.deck /\ e = [i \in DOMAIN r.deck |-> e[i]]
    OBVIOUS
  <2> HIDE DEF e
  <2> QED BY <2>1, <2>2, <2>3, Rewritten
<1>2. ASSUME NEW i PROVE Doored(r, UpgradeCard(r, i))
  <2> DEFINE e == [r.deck EXCEPT ![i].up = @ + 1]
  <2>0. IsDeck(r.deck)
    BY DEF RunOK, Body
  <2>1. \A j \in DOMAIN r.deck : IsCard(e[j]) /\ e[j].k = r.deck[j].k
    <3>1. \A j \in DOMAIN r.deck : IsCard(r.deck[j])
      BY <2>0, DeckPlaces
    <3> QED BY <3>1 DEF IsCard
  <2>2. UpgradeCard(r, i) = [r EXCEPT !.deck = e]
    BY DEF UpgradeCard, RunOK, Body, RunShape, RunFields
  <2>3. DOMAIN e = DOMAIN r.deck /\ e = [j \in DOMAIN r.deck |-> e[j]]
    BY <2>0, DeckPlaces
  <2> HIDE DEF e
  <2> QED BY <2>1, <2>2, <2>3, Rewritten
<1> QED BY <1>1, <1>2 DEF UpgradeSome

\* A card put into its bottle.
LEMMA BottleKeeps ==
  ASSUME NEW r, RunOK(r), NEW i
  PROVE  Doored(r, [r EXCEPT !.deck[i].bottle = TRUE])
         /\ Len([r EXCEPT !.deck[i].bottle = TRUE].deck) = Len(r.deck)
<1> DEFINE e == [r.deck EXCEPT ![i].bottle = TRUE]
           q == [r EXCEPT !.deck = e]
           x == [r EXCEPT !.deck[i].bottle = TRUE]
<1>0. IsDeck(r.deck)
  BY DEF RunOK, Body
<1>1. \A j \in DOMAIN r.deck : IsCard(e[j]) /\ e[j].k = r.deck[j].k
  <2>1. \A j \in DOMAIN r.deck : IsCard(r.deck[j])
    BY <1>0, DeckPlaces
  <2> QED BY <2>1 DEF IsCard
<1>2. x = q /\ q.deck = e
  BY DEF RunOK, Body, RunShape, RunFields
<1>3. DOMAIN e = DOMAIN r.deck /\ e = [j \in DOMAIN r.deck |-> e[j]]
  BY <1>0, DeckPlaces
<1> HIDE DEF e, x
<1>4. Doored(r, q)
  BY <1>1, <1>3, Rewritten
<1> HIDE DEF q
<1>5. IsDeck(e) /\ IsDeck(r.deck)
  BY <1>2, <1>4 DEF Doored, Kept, RunOK, Body
<1>6. 1..Len(e) = 1..Len(r.deck) /\ Len(e) \in Nat /\ Len(r.deck) \in Nat
  BY <1>3, <1>5, DeckPlaces
<1>7. Doored(r, x) /\ Len(x.deck) = Len(r.deck)
  BY <1>2, <1>4, <1>6
<1> QED BY <1>7, Zenon DEF x

-----------------------------------------------------------------------------
\* What a change of the belt leaves alone.
Belted(r, q) ==
  /\ RunOK(q) /\ q.hp = r.hp /\ q.max = r.max /\ q.gold = r.gold /\ q.deck = r.deck
  /\ q.relics = r.relics /\ q.doll = r.doll

\* A run with another belt.
LEMMA BeltChange ==
  ASSUME NEW r, RunOK(r), NEW b, IsList(b)
  PROVE  Belted(r, [r EXCEPT !.belt = b]) /\ [r EXCEPT !.belt = b].belt = b
<1> DEFINE q == [r EXCEPT !.belt = b]
<1>1. RunShape(q) /\ q.belt = b /\ q.hp = r.hp /\ q.max = r.max /\ q.gold = r.gold
      /\ q.deck = r.deck /\ q.relics = r.relics /\ q.doll = r.doll /\ q.purge = r.purge
  BY DEF RunOK, Body, RunShape, RunFields
<1> HIDE DEF q
<1>2. RunOK(q)
  BY <1>1 DEF RunOK, Body, Vital, DollTrue, Owns
<1> QED BY <1>1, <1>2 DEF Belted, q

\* A belt with one slot changed has the same slots.
LEMMA SlotChange ==
  ASSUME NEW b, IsList(b), NEW i, NEW p
  PROVE  /\ IsList([b EXCEPT ![i] = p]) /\ DOMAIN [b EXCEPT ![i] = p] = DOMAIN b
         /\ DOMAIN b = 1..Len(b) /\ Len(b) \in Nat
<1>1. PICK S : b \in Seq(S)
  BY DEF IsList
<1> DEFINE T == S \cup {p}
<1>2. b \in Seq(T) /\ p \in T
  BY <1>1
<1> HIDE DEF T
<1>3. [b EXCEPT ![i] = p] \in Seq(T)
  <2> DEFINE e == [b EXCEPT ![i] = p]
  <2>1. Len(b) \in Nat /\ b \in [1..Len(b) -> T]
    BY <1>2
  <2>2. e \in [1..Len(b) -> T]
    BY <1>2, <2>1
  <2> HIDE DEF e
  <2>3. e \in Seq(T)
    BY <2>1, <2>2
  <2> QED BY <2>3 DEF e
<1> QED BY <1>2, <1>3 DEF IsList

\* A slot cleared.
LEMMA ClearKeeps ==
  ASSUME NEW r, RunOK(r), NEW i
  PROVE  Belted(r, ClearSlot(r, i)) /\ ClearSlot(r, i).belt = [r.belt EXCEPT ![i] = "none"]
<1>1. ClearSlot(r, i) = [r EXCEPT !.belt = [r.belt EXCEPT ![i] = "none"]]
  BY DEF ClearSlot, RunOK, Body, RunShape, RunFields
<1>2. IsList([r.belt EXCEPT ![i] = "none"])
  BY SlotChange DEF RunOK, Body
<1> QED BY <1>1, <1>2, BeltChange

\* A potion put into the first free slot.
LEMMA PutKeeps ==
  ASSUME NEW r, RunOK(r), NEW p
  PROVE  Belted(r, PutPotion(r, p))
<1>1. CASE EmptySlots(r) = {}
  BY <1>1 DEF PutPotion, Belted
<1>2. CASE EmptySlots(r) # {}
  <2> DEFINE i == FirstEmpty(r)
  <2> HIDE DEF i
  <2>1. PutPotion(r, p) = [r EXCEPT !.belt = [r.belt EXCEPT ![i] = p]]
    BY <1>2 DEF PutPotion, RunOK, Body, RunShape, RunFields, i
  <2>2. IsList([r.belt EXCEPT ![i] = p])
    BY SlotChange DEF RunOK, Body
  <2> QED BY <2>1, <2>2, BeltChange
<1> QED BY <1>1, <1>2

\* Belts changed twice.
LEMMA BeltedTwice ==
  ASSUME NEW r, NEW p, NEW q, Belted(r, p), Belted(p, q) PROVE Belted(r, q)
  BY DEF Belted

\* A change of the belt is a step of a body.
LEMMA BeltedIsKept ==
  ASSUME NEW r, NEW q, Belted(r, q) PROVE Kept(r, q)
  BY DEF Belted, Kept, Alive

-----------------------------------------------------------------------------
\* Cards in numbers: folds over the doors.
AddOp(p, a, x) == AddCard(a, p[1])
AddGood(p, n, a) == Doored(p[2], a) /\ Len(a.deck) >= Len(p[2].deck)
AddFold == INSTANCE FoldFacts WITH Op <- AddOp, Good <- AddGood

\* AddCards is such a fold.
LEMMA AddsFold ==
  ASSUME NEW r, NEW p, NEW n
  PROVE  AddCards(r, p[1], n) = AddFold!Folded(p, r, [i \in 1..n |-> i])
  BY Zenon DEF AddFold!Folded, AddCards, AddOp, AddFold!MapThenFoldSet, FoldLeft,
               MapThenFoldSet, AddFold!Greatest, Max

\* n cards of a kind.
LEMMA AddsKeep ==
  ASSUME NEW r, RunOK(r), NEW k, NEW n \in Nat
  PROVE  Doored(r, AddCards(r, k, n))
<1> DEFINE seq == [i \in 1..n |-> i]
           p == <<k, r>>
<1>1. AddCards(r, k, n) = AddFold!Folded(p, r, seq)
  <2>1. AddCards(r, p[1], n) = AddFold!Folded(p, r, seq)
    BY AddsFold, Zenon
  <2>2. p[1] = k
    OBVIOUS
  <2> HIDE DEF p, seq
  <2> QED BY <2>1, <2>2
<1>2. seq \in Seq(Nat)
  OBVIOUS
<1>3. AddGood(p, 0, r)
  <2>1. Len(r.deck) \in Nat
    BY DeckPlaces DEF RunOK, Body
  <2> QED BY <2>1 DEF AddGood, Doored, Kept, Alive, SamePack
<1>4. ASSUME NEW i \in 1..Len(seq), NEW a, AddGood(p, i - 1, a)
      PROVE  AddGood(p, i, AddOp(p, a, seq[i]))
  <2>1. RunOK(a) /\ Doored(r, a) /\ Len(a.deck) >= Len(r.deck)
    BY <1>4 DEF AddGood, Doored, Kept
  <2>2. Doored(a, AddCard(a, k)) /\ Len(AddCard(a, k).deck) >= Len(a.deck)
    BY <2>1, AddKeeps
  <2>3. Doored(r, AddCard(a, k))
    BY <2>1, <2>2, DooredTwice
  <2>4. Len(r.deck) \in Nat /\ Len(a.deck) \in Nat /\ Len(AddCard(a, k).deck) \in Nat
    BY <2>1, <2>2, DeckPlaces DEF RunOK, Body, Doored, Kept
  <2> QED BY <2>1, <2>2, <2>3, <2>4 DEF AddGood, AddOp
<1> HIDE DEF seq, p
<1>5. AddGood(p, Len(seq), AddFold!Folded(p, r, seq))
  BY <1>2, <1>3, <1>4, AddFold!FoldKeeps
<1> QED BY <1>1, <1>5 DEF AddGood, p

DropOp(p, a, x) == IF x \in p[1] THEN RemoveCard(a, x) ELSE a
DropGood(p, n, a) == Doored(p[2], a) /\ Len(a.deck) >= Len(p[2].deck) - n
DropFold == INSTANCE FoldFacts WITH Op <- DropOp, Good <- DropGood

\* Without is such a fold.
LEMMA DropsFold ==
  ASSUME NEW r, NEW p
  PROVE  Without(r, p[1]) =
           DropFold!Folded(p, r, [j \in 1..Len(r.deck) |-> Len(r.deck) + 1 - j])
  BY Zenon DEF DropFold!Folded, Without, DropOp, DropFold!MapThenFoldSet, FoldLeft,
               MapThenFoldSet, DropFold!Greatest, Max

\* Taken from the back, every index still names a card when its turn comes.
LEMMA WithoutKeeps ==
  ASSUME NEW r, RunOK(r), NEW s
  PROVE  Doored(r, Without(r, s))
<1> DEFINE n == Len(r.deck)
           seq == [j \in 1..n |-> n + 1 - j]
           p == <<s, r>>
<1>0. n \in Nat
  BY DeckPlaces DEF RunOK, Body
<1>1. Without(r, s) = DropFold!Folded(p, r, seq)
  <2>1. Without(r, p[1]) = DropFold!Folded(p, r, seq)
    BY DropsFold, Zenon
  <2>2. p[1] = s
    OBVIOUS
  <2> HIDE DEF p, seq
  <2> QED BY <2>1, <2>2
<1>2. seq \in Seq(Nat) /\ Len(seq) = n
  BY <1>0
<1>3. DropGood(p, 0, r)
  BY <1>0 DEF DropGood, Doored, Kept, Alive, SamePack
<1>4. ASSUME NEW i \in 1..Len(seq), NEW a, DropGood(p, i - 1, a)
      PROVE  DropGood(p, i, DropOp(p, a, seq[i]))
  <2> DEFINE x == seq[i]
             b == DropOp(p, a, x)
  <2>1. RunOK(a) /\ Doored(r, a) /\ Len(a.deck) >= n - (i - 1)
    BY <1>4 DEF DropGood, Doored, Kept
  <2>2. x = n + 1 - i /\ i \in Int /\ 1 <= i /\ i <= n
    BY <1>0, <1>2
  <2> HIDE DEF x, seq
  <2>3. Len(a.deck) \in Nat /\ x \in DOMAIN a.deck
    <3>1. Len(a.deck) \in Nat /\ DOMAIN a.deck = 1..Len(a.deck)
      BY <2>1, DeckPlaces DEF RunOK, Body
    <3> QED BY <1>0, <2>1, <2>2, <3>1
  <2>4. Doored(a, b) /\ Len(b.deck) >= Len(a.deck) - 1
    <3>1. CASE x \in s
      <4>1. Doored(a, RemoveCard(a, x)) /\ Len(RemoveCard(a, x).deck) = Len(a.deck) - 1
        BY <2>1, <2>3, RemoveKeeps
      <4>2. b = RemoveCard(a, x)
        BY <3>1 DEF DropOp
      <4> QED BY <2>3, <4>1, <4>2
    <3>2. CASE x \notin s
      BY <2>1, <2>3, <3>2 DEF DropOp, Doored, Kept, Alive, SamePack
    <3> QED BY <3>1, <3>2
  <2> HIDE DEF b
  <2>5. Doored(r, b)
    BY <2>1, <2>4, DooredTwice
  <2>6. Len(b.deck) \in Nat
    BY <2>5, DeckPlaces DEF RunOK, Body, Doored, Kept
  <2>7. Len(b.deck) >= n - i
    BY <1>0, <2>1, <2>2, <2>3, <2>4, <2>6
  <2> QED BY <2>5, <2>7 DEF DropGood, b, x
<1> HIDE DEF seq, p
<1>5. DropGood(p, Len(seq), DropFold!Folded(p, r, seq))
  BY <1>2, <1>3, <1>4, DropFold!FoldKeeps
<1> QED BY <1>1, <1>5 DEF DropGood, p

\* A run with other pools.
LEMMA PoolChange ==
  ASSUME NEW r, RunOK(r), NEW x
  PROVE  Doored(r, [r EXCEPT !.pools = x])
<1> DEFINE q == [r EXCEPT !.pools = x]
<1>1. RunShape(q) /\ SameCards(r, q) /\ q.hp = r.hp /\ q.max = r.max /\ q.gold = r.gold
      /\ q.purge = r.purge
  BY DEF RunOK, Body, RunShape, RunFields, SameCards
<1> HIDE DEF q
<1>2. Body(q) /\ Alive(r, q)
  BY <1>1, BodyOfSame DEF RunOK, Body, Vital, Alive
<1> QED BY <1>1, <1>2, KeptOfSame DEF q

\* A draw touches the pools alone.
LEMMA DrawKeeps ==
  ASSUME NEW r, RunOK(r), NEW t, NEW s
  PROVE  Doored(r, DrawRelic(r, t, s).run)
<1>1. ASSUME NEW rungs, NEW n PROVE Doored(r, DrawAtRung(r, rungs, n, s).run)
  <2>1. CASE n > Len(rungs)
    <3> DEFINE x == [k \in DOMAIN r.pools |-> IF k \in ToSet(rungs) THEN <<>> ELSE r.pools[k]]
    <3>1. DrawAtRung(r, rungs, n, s).run = [r EXCEPT !.pools = x]
      BY <2>1 DEF DrawAtRung
    <3> HIDE DEF x
    <3> QED BY <3>1, PoolChange
  <2>2. CASE ~(n > Len(rungs))
    <3> DEFINE tier == rungs[n]
               at == DrawPlace(r, tier, s)
               x == [k \in DOMAIN r.pools |->
                       CASE k = tier -> PoolAfter(r.pools[k], k, at)
                         [] k \in {rungs[i] : i \in 1..(n - 1)} -> <<>>
                         [] OTHER -> r.pools[k]]
    <3>1. DrawAtRung(r, rungs, n, s).run = [r EXCEPT !.pools = x]
      BY <2>2 DEF DrawAtRung
    <3> HIDE DEF x
    <3> QED BY <3>1, PoolChange
  <2> QED BY <2>1, <2>2
<1> QED BY <1>1 DEF DrawRelic

\* So does the shop's.
LEMMA FromEndKeeps ==
  ASSUME NEW r, RunOK(r), NEW t, NEW s
  PROVE  Doored(r, DrawFromEnd(r, t, s).run)
<1> DEFINE may == Spawning(r, r.pools[t], s)
           at == CHOOSE i \in may : \A j \in may : i >= j
           p == [r EXCEPT !.pools[t] = <<>>]
           q == [r EXCEPT !.pools[t] = SubSeq(@, 1, at - 1)]
<1>1. DrawFromEnd(r, t, s).run = IF may = {} THEN DrawRelic(p, t, s).run ELSE q
  BY DEF DrawFromEnd
<1>2. p = [r EXCEPT !.pools = [r.pools EXCEPT ![t] = <<>>]]
      /\ q = [r EXCEPT !.pools = [r.pools EXCEPT ![t] = SubSeq(@, 1, at - 1)]]
  BY DEF RunOK, Body, RunShape, RunFields
<1> HIDE DEF p, q, may
<1>3. Doored(r, p) /\ Doored(r, q)
  BY <1>2, PoolChange
<1>4. Doored(p, DrawRelic(p, t, s).run)
  BY <1>3, DrawKeeps DEF Doored, Kept
<1>5. Doored(r, DrawRelic(p, t, s).run)
  BY <1>3, <1>4, DooredTwice
<1> QED BY <1>1, <1>3, <1>5

\* And a draw repeated until it is none of those avoided.
AvoidOp(p, a, x) == IF x = 0 \/ a.got \in p[1] THEN DrawRelic(a.run, p[2], FALSE) ELSE a
AvoidGood(p, n, a) == Doored(p[3], a.run)
AvoidFold == INSTANCE FoldFacts WITH Op <- AvoidOp, Good <- AvoidGood

\* DrawAvoiding is a fold.
LEMMA AvoidsFold ==
  ASSUME NEW r, NEW p
  PROVE  DrawAvoiding(r, p[2], p[1]) =
           AvoidFold!Folded(p, [got |-> "none", run |-> r],
                            [i \in 1..(2 * Cardinality(p[1]) + 1) |-> i - 1])
  BY Zenon DEF AvoidFold!Folded, DrawAvoiding, AvoidOp, 
               AvoidFold!MapThenFoldSet, FoldLeft, MapThenFoldSet, AvoidFold!Greatest, Max

\* What it leaves of the run.
LEMMA AvoidKeeps ==
  ASSUME NEW r, RunOK(r), NEW t, NEW s, Cardinality(s) \in Nat
  PROVE  Doored(r, DrawAvoiding(r, t, s).run)
<1> DEFINE n == 2 * Cardinality(s) + 1
           seq == [i \in 1..n |-> i - 1]
           base == [got |-> "none", run |-> r]
           p == <<s, t, r>>
<1>1. DrawAvoiding(r, t, s) = AvoidFold!Folded(p, base, seq)
  <2>1. DrawAvoiding(r, p[2], p[1]) =
           AvoidFold!Folded(p, base, [i \in 1..(2 * Cardinality(p[1]) + 1) |-> i - 1])
    BY AvoidsFold, Zenon
  <2>2. p[1] = s /\ p[2] = t
    OBVIOUS
  <2> HIDE DEF p, base
  <2> QED BY <2>1, <2>2
<1>2. seq \in Seq(Int) /\ n \in Nat
  OBVIOUS
<1>3. AvoidGood(p, 0, base)
  BY DEF AvoidGood, Doored, Kept, Alive, SamePack
<1>4. ASSUME NEW i \in 1..Len(seq), NEW a, AvoidGood(p, i - 1, a)
      PROVE  AvoidGood(p, i, AvoidOp(p, a, seq[i]))
  <2>1. Doored(r, a.run) /\ RunOK(a.run)
    BY <1>4 DEF AvoidGood, Doored, Kept
  <2>2. Doored(a.run, DrawRelic(a.run, p[2], FALSE).run)
    BY <2>1, DrawKeeps
  <2>3. Doored(r, DrawRelic(a.run, p[2], FALSE).run)
    BY <2>1, <2>2, DooredTwice
  <2> HIDE DEF seq
  <2> QED BY <2>1, <2>3 DEF AvoidGood, AvoidOp
<1> HIDE DEF seq, p, base
<1>5. AvoidGood(p, Len(seq), AvoidFold!Folded(p, base, seq))
  BY <1>2, <1>3, <1>4, AvoidFold!FoldKeeps
<1> QED BY <1>1, <1>5 DEF AvoidGood, p

\* The relics with a screen are finitely many.
LEMMA ScreenlessKeeps ==
  ASSUME NEW r, RunOK(r), NEW t
  PROVE  Doored(r, DrawScreenless(r, t).run)
<1>1. IsFiniteSet(Screened)
  <2>1. Screened = {"bottled_flame", "bottled_lightning", "bottled_tornado", "whetstone"}
    BY DEF Screened, Bottles, BottleType
  <2>2. Screened = {"bottled_flame"} \cup {"bottled_lightning"} \cup {"bottled_tornado"} \cup {"whetstone"}
    BY <2>1
  <2>3. \A x : IsFiniteSet({x})
    BY FS_Singleton
  <2> QED BY <2>2, <2>3, FS_Union, Zenon
<1>2. Cardinality(Screened) \in Nat
  BY <1>1, FS_CardinalityType
<1> QED BY <1>2, AvoidKeeps DEF DrawScreenless

-----------------------------------------------------------------------------
\* Max hp and health that grow by as much.
LEMMA GrownKeeps ==
  ASSUME NEW r, RunOK(r), NEW n \in Nat
  PROVE  Doored(r, [r EXCEPT !.max = @ + n, !.hp = @ + n])
         /\ Doored(r, [r EXCEPT !.max = @ + n, !.hp = r.max + n])
<1> DEFINE p == [r EXCEPT !.max = @ + n, !.hp = @ + n]
           q == [r EXCEPT !.max = @ + n, !.hp = r.max + n]
<1>1. RunShape(p) /\ SameCards(r, p) /\ p.hp = r.hp + n /\ p.max = r.max + n /\ p.gold = r.gold
      /\ p.purge = r.purge
  BY DEF RunOK, Body, RunShape, RunFields, SameCards
<1>2. RunShape(q) /\ SameCards(r, q) /\ q.hp = r.max + n /\ q.max = r.max + n /\ q.gold = r.gold
      /\ q.purge = r.purge
  BY DEF RunOK, Body, RunShape, RunFields, SameCards
<1> HIDE DEF p, q
<1>3. Vital(p) /\ Alive(r, p) /\ Vital(q) /\ Alive(r, q)
  BY <1>1, <1>2 DEF RunOK, Body, Vital, Alive
<1> QED BY <1>1, <1>2, <1>3, BodyOfSame, KeptOfSame DEF RunOK, p, q

\* Potion Belt's slots.
LEMMA SlotsKeep ==
  ASSUME NEW r, RunOK(r)
  PROVE  Belted(r, [r EXCEPT !.belt = @ \o [i \in 1..Least(2, BeltCap - Len(@)) |-> "none"]])
<1> DEFINE m == Least(2, BeltCap - Len(r.belt))
           more == [i \in 1..m |-> "none"]
           b == r.belt \o more
<1>1. IsList(b)
  <2>1. PICK S : r.belt \in Seq(S)
    BY DEF RunOK, Body, IsList
  <2> DEFINE T == S \cup {"none"}
  <2>2. r.belt \in Seq(T) /\ Len(r.belt) \in Nat
    BY <2>1
  <2>3. m \in Int
    BY <2>2, PurseAssumption DEF Least
  <2>4. more \in Seq(T)
    <3>1. CASE m >= 0
      BY <2>3, <3>1
    <3>2. CASE m < 0
      <4>1. 1..m = 1..0
        BY <2>3, <3>2
      <4>2. more = [i \in 1..0 |-> "none"]
        BY <4>1
      <4>3. [i \in 1..0 |-> "none"] \in Seq(T)
        OBVIOUS
      <4> QED BY <4>2, <4>3
    <3> QED BY <2>3, <3>1, <3>2
  <2> HIDE DEF T, more
  <2>5. b \in Seq(T)
    BY <2>2, <2>4
  <2> QED BY <2>5 DEF IsList
<1> HIDE DEF b
<1>2. Belted(r, [r EXCEPT !.belt = b])
  BY <1>1, BeltChange
<1> QED BY <1>2, Zenon DEF b

\* A run that holds other relics, before the doll is counted again.
LEMMA RelicChange ==
  ASSUME NEW r, Body(r), NEW x
  PROVE  LET q == [r EXCEPT !.relics = x]
         IN  /\ Body(q) /\ q.relics = x /\ q.hp = r.hp /\ q.deck = r.deck /\ q.doll = r.doll
             /\ q.belt = r.belt /\ q.gold = r.gold /\ q.max = r.max
<1> DEFINE q == [r EXCEPT !.relics = x]
<1>1. RunShape(q) /\ q.relics = x /\ q.hp = r.hp /\ q.deck = r.deck /\ q.doll = r.doll
      /\ q.belt = r.belt /\ q.gold = r.gold /\ q.max = r.max /\ q.purge = r.purge
  BY DEF Body, RunShape, RunFields
<1> HIDE DEF q
<1>2. Body(q)
  BY <1>1 DEF Body, Vital
<1> QED BY <1>1, <1>2 DEF q

\* Counters are no part of what is kept.
LEMMA CounterKeeps ==
  ASSUME NEW r, Body(r), NEW x
  PROVE  LET q == WithCounter(r, x)
         IN  Body(q) /\ SameCards(r, q) /\ q.hp = r.hp /\ q.gold = r.gold /\ q.max = r.max
<1> DEFINE q == WithCounter(r, x)
<1>1. RunShape(q) /\ SameCards(r, q) /\ q.hp = r.hp /\ q.gold = r.gold /\ q.max = r.max
      /\ q.purge = r.purge
  BY DEF Body, RunShape, RunFields, WithCounter, SameCards
<1> HIDE DEF q
<1>2. Vital(q)
  BY <1>1 DEF Body, Vital
<1> QED BY <1>1, <1>2, BodyOfSame DEF q

\* A lost relic's counter goes with it, the doll's included.
LEMMA UncountKeeps ==
  ASSUME NEW r, Body(r), NEW x
  PROVE  LET q == WithoutCounter(r, x)
         IN  /\ Body(q) /\ q.hp = r.hp /\ q.gold = r.gold /\ q.max = r.max /\ q.deck = r.deck
             /\ q.relics = r.relics /\ q.belt = r.belt /\ (x # "doll" => q.doll = r.doll)
<1> DEFINE q == WithoutCounter(r, x)
<1>1. RunShape(q) /\ q.hp = r.hp /\ q.gold = r.gold /\ q.max = r.max /\ q.deck = r.deck
      /\ q.purge = r.purge /\ q.relics = r.relics /\ q.belt = r.belt /\ (x # "doll" => q.doll = r.doll)
  BY DEF Body, RunShape, RunFields, WithoutCounter
<1> HIDE DEF q
<1>2. Body(q)
  BY <1>1 DEF Body, Vital
<1> QED BY <1>1, <1>2 DEF q

\* What a relic does when it is picked up, the doll apart.
LEMMA EquipKeeps ==
  ASSUME NEW r, RunOK(r), NEW x
  PROVE  \A q \in EquippedRuns(r, x) : Kept(r, q)
<1> USE DEF Doored
<1>1. CASE x \in {"strawberry", "pear", "mango", "waffle"}
  <2>1. \A n \in {7, 10, 14} : /\ Kept(r, [r EXCEPT !.max = @ + n, !.hp = @ + n])
                               /\ Kept(r, [r EXCEPT !.max = @ + n, !.hp = r.max + n])
    BY GrownKeeps
  <2>2. EquippedRuns(r, x) = {CASE x = "strawberry" -> [r EXCEPT !.max = @ + 7, !.hp = @ + 7]
                                [] x = "pear" -> [r EXCEPT !.max = @ + 10, !.hp = @ + 10]
                                [] x = "mango" -> [r EXCEPT !.max = @ + 14, !.hp = @ + 14]
                                [] x = "waffle" -> [r EXCEPT !.max = @ + 7, !.hp = r.max + 7]}
    BY <1>1 DEF EquippedRuns
  <2> QED BY <1>1, <2>1, <2>2
<1>2. CASE x = "old_coin"
  <2>1. Doored(r, GainGold(r, 300))
    BY GainKeeps, KeptOfSame DEF RunOK
  <2> QED BY <1>2, <2>1 DEF EquippedRuns
<1>3. CASE x = "potion_belt"
  <2> DEFINE q == [r EXCEPT !.belt = @ \o [i \in 1..Least(2, BeltCap - Len(@)) |-> "none"]]
  <2>1. EquippedRuns(r, x) = {q}
    BY <1>3, Zenon DEF EquippedRuns
  <2>2. Kept(r, q)
    BY SlotsKeep, BeltedIsKept
  <2> QED BY <2>1, <2>2
<1>4. CASE x \in {"war_paint", "whetstone"}
  BY <1>4, UpgradeKeeps DEF EquippedRuns
<1>5. CASE x = "necronomicon"
  BY <1>5, AddKeeps DEF EquippedRuns
<1>6. CASE x = "doll"
  <2>1. Kept(r, Recounted(r))
    BY RecountKeeps DEF Kept, RunOK, Alive
  <2> QED BY <1>6, <2>1 DEF EquippedRuns
<1>7. CASE x \notin {"strawberry", "pear", "mango", "waffle", "old_coin", "potion_belt",
                     "war_paint", "whetstone", "necronomicon", "doll"}
  BY <1>7 DEF EquippedRuns, Kept, Alive
<1> QED BY <1>1, <1>2, <1>3, <1>4, <1>5, <1>6, <1>7, Zenon

\* acquire_relic: a doll picked up is counted.
LEMMA AcquireKeeps ==
  ASSUME NEW r, RunOK(r), NEW x
  PROVE  \A q \in Acquire(r, x) : Kept(r, q)
<1>1. CASE x \in ScreenRelics
  BY <1>1 DEF Acquire, Kept, Alive
<1>2. CASE x \notin ScreenRelics
  <2> DEFINE s == r.relics \cup {x}
             p == [r EXCEPT !.relics = s]
             q == WithCounter(p, x)
  <2>1. Acquire(r, x) = EquippedRuns(q, x)
    BY <1>2, Zenon DEF Acquire
  <2>2. Body(p) /\ p.relics = r.relics \cup {x} /\ p.hp = r.hp /\ p.deck = r.deck /\ p.doll = r.doll
    BY RelicChange DEF RunOK
  <2> HIDE DEF p
  <2>3. Body(q) /\ q.relics = r.relics \cup {x} /\ q.hp = r.hp /\ q.deck = r.deck
        /\ q.doll = r.doll
    BY <2>2, CounterKeeps DEF SameCards
  <2> HIDE DEF q
  <2>4. CASE x = "doll"
    <3>1. EquippedRuns(q, x) = {Recounted(q)}
      BY <2>4 DEF EquippedRuns
    <3>2. RunOK(Recounted(q)) /\ Recounted(q).hp = q.hp
      BY <2>3, RecountKeeps
    <3> QED BY <2>1, <2>3, <3>1, <3>2 DEF Kept, Alive
  <2>5. CASE x # "doll"
    <3>1. RunOK(q)
      BY <2>3, <2>5 DEF RunOK, DollTrue, Owns
    <3>2. \A t \in EquippedRuns(q, x) : Kept(q, t)
      BY <3>1, EquipKeeps
    <3> QED BY <2>1, <2>3, <3>2 DEF Kept, Alive
  <2> QED BY <2>4, <2>5
<1> QED BY <1>1, <1>2

\* A relic lost, and one put in another's place.
LEMMA LoseKept ==
  ASSUME NEW r, RunOK(r), NEW x
  PROVE  Kept(r, LoseRelic(r, x))
<1> DEFINE s == r.relics \ {x}
           p == [r EXCEPT !.relics = s]
           q == WithoutCounter(p, x)
<1>1. LoseRelic(r, x) = q
  BY Zenon DEF LoseRelic
<1>2. Body(p) /\ p.relics = r.relics \ {x} /\ p.hp = r.hp /\ p.deck = r.deck /\ p.doll = r.doll
  BY RelicChange DEF RunOK
<1> HIDE DEF p
<1>3. Body(q) /\ q.relics = r.relics \ {x} /\ q.hp = r.hp /\ q.deck = r.deck
      /\ (x # "doll" => q.doll = r.doll)
  BY <1>2, UncountKeeps
<1> HIDE DEF q
<1> QED BY <1>1, <1>3 DEF Kept, RunOK, DollTrue, Owns, Alive

\* The new one is no doll.
LEMMA SwapKept ==
  ASSUME NEW r, RunOK(r), NEW x, NEW y, y # "doll"
  PROVE  Kept(r, SwapRelic(r, x, y))
<1> DEFINE s == (r.relics \ {x}) \cup {y}
           p == [r EXCEPT !.relics = s]
           q == WithCounter(p, y)
<1>1. SwapRelic(r, x, y) = q
  BY Zenon DEF SwapRelic
<1>2. Body(p) /\ p.relics = (r.relics \ {x}) \cup {y} /\ p.hp = r.hp /\ p.deck = r.deck
      /\ p.doll = r.doll
  BY RelicChange DEF RunOK
<1> HIDE DEF p
<1>3. Body(q) /\ q.relics = (r.relics \ {x}) \cup {y} /\ q.hp = r.hp /\ q.deck = r.deck
      /\ q.doll = r.doll
  BY <1>2, CounterKeeps DEF SameCards
<1> HIDE DEF q
<1> QED BY <1>1, <1>3 DEF Kept, RunOK, DollTrue, Owns, Alive

\* The relic of an event, and the one that comes with a curse.
LEMMA EventRelicKeeps ==
  ASSUME NEW r, RunOK(r)
  PROVE  \A q \in EventRelicRuns(r) : Kept(r, q)
<1> SUFFICES ASSUME NEW t, NEW q \in Acquire(DrawScreenless(r, t).run, DrawScreenless(r, t).got)
             PROVE  Kept(r, q)
  BY Zenon DEF EventRelicRuns
<1>1. Kept(r, DrawScreenless(r, t).run) /\ RunOK(DrawScreenless(r, t).run)
  BY ScreenlessKeeps DEF Doored, Kept
<1>2. Kept(DrawScreenless(r, t).run, q)
  BY <1>1, AcquireKeeps
<1> QED BY <1>1, <1>2, KeptTwice

\* One charge of Omamori less.
LEMMA ChargeKeeps ==
  ASSUME NEW r, RunOK(r) PROVE Doored(r, [r EXCEPT !.charm = @ - 1])
<1> DEFINE q == [r EXCEPT !.charm = @ - 1]
<1>1. RunShape(q) /\ SameCards(r, q) /\ q.hp = r.hp /\ q.max = r.max /\ q.gold = r.gold
      /\ q.purge = r.purge
  BY DEF RunOK, Body, RunShape, RunFields, SameCards
<1> HIDE DEF q
<1>2. Body(q) /\ Alive(r, q)
  BY <1>1, BodyOfSame DEF RunOK, Body, Vital, Alive
<1> QED BY <1>1, <1>2, KeptOfSame DEF q

\* The curse comes past Omamori, or Omamori took it.
LEMMA CursedRelicKeeps ==
  ASSUME NEW r, RunOK(r)
  PROVE  \A q \in RelicWithCurse(r) : Kept(r, q)
<1> DEFINE p == [r EXCEPT !.charm = @ - 1]
<1>1. CASE OmamoriBlocks(r, "regret")
  <2>1. RelicWithCurse(r) = EventRelicRuns(p)
    BY <1>1 DEF RelicWithCurse
  <2>2. Kept(r, p)
    BY ChargeKeeps DEF Doored
  <2> HIDE DEF p
  <2>3. \A q \in EventRelicRuns(p) : Kept(p, q)
    BY <2>2, EventRelicKeeps DEF Kept
  <2> QED BY <2>1, <2>2, <2>3, KeptTwice
<1>2. CASE ~OmamoriBlocks(r, "regret")
  <2>1. RelicWithCurse(r) = {AddPastOmamori(q, Fresh("regret", 0)) : q \in EventRelicRuns(r)}
    BY <1>2 DEF RelicWithCurse
  <2>2. ASSUME NEW q \in EventRelicRuns(r) PROVE Kept(r, AddPastOmamori(q, Fresh("regret", 0)))
    <3>1. Kept(r, q) /\ RunOK(q)
      BY EventRelicKeeps DEF Kept
    <3>2. Kept(q, AddPastOmamori(q, Fresh("regret", 0)))
      BY <3>1, PastKeeps, FreshIsCard DEF Doored
    <3> QED BY <3>1, <3>2, KeptTwice
  <2> QED BY <2>1, <2>2
<1> QED BY <1>1, <1>2

\* A card transformed.
LEMMA TransformKeeps ==
  ASSUME NEW r, RunOK(r), NEW i \in DOMAIN r.deck
  PROVE  \A q \in Transform(r, i) : Kept(r, q)
<1> SUFFICES ASSUME NEW k PROVE Kept(r, AddCard(RemoveCard(r, i), k))
  BY DEF Transform
<1>1. Kept(r, RemoveCard(r, i)) /\ RunOK(RemoveCard(r, i))
  BY RemoveKeeps DEF Doored, Kept
<1>2. Kept(RemoveCard(r, i), AddCard(RemoveCard(r, i), k))
  BY <1>1, AddKeeps DEF Doored
<1> QED BY <1>1, <1>2, KeptTwice

\* Cards that come one after another.
CardOp(p, a, x) == AddCard(a, x)
CardGood(p, n, a) == Doored(p, a)
CardFold == INSTANCE FoldFacts WITH Op <- CardOp, Good <- CardGood

\* The cards of a fight.
LEMMA CardsFold ==
  ASSUME NEW r, NEW p, NEW s
  PROVE  FoldLeft(AddCard, r, s) = CardFold!Folded(p, r, s)
  BY Zenon DEF CardFold!Folded, CardOp, CardFold!MapThenFoldSet, FoldLeft,
               MapThenFoldSet, CardFold!Greatest, Max

\* They come through the door one by one.
LEMMA CardsKeep ==
  ASSUME NEW r, RunOK(r), NEW s, IsList(s)
  PROVE  Doored(r, FoldLeft(AddCard, r, s))
<1>1. PICK S : s \in Seq(S)
  BY DEF IsList
<1>2. CardGood(r, 0, r)
  BY DEF CardGood, Doored, Kept, Alive, SamePack
<1>3. ASSUME NEW i \in 1..Len(s), NEW a, CardGood(r, i - 1, a)
      PROVE  CardGood(r, i, CardOp(r, a, s[i]))
  <2>1. Doored(r, a) /\ RunOK(a)
    BY <1>3 DEF CardGood, Doored, Kept
  <2>2. Doored(a, AddCard(a, s[i]))
    BY <2>1, AddKeeps
  <2> QED BY <2>1, <2>2, DooredTwice DEF CardGood, CardOp
<1>4. CardGood(r, Len(s), CardFold!Folded(r, r, s))
  BY <1>1, <1>2, <1>3, CardFold!FoldKeeps
<1>5. FoldLeft(AddCard, r, s) = CardFold!Folded(r, r, s)
  BY CardsFold, Zenon
<1> QED BY <1>4, <1>5 DEF CardGood

\* The cards Pandora's Box has laid out.
PreviewOp(p, a, x) == AddCard(a, x.what)
PreviewFold == INSTANCE FoldFacts WITH Op <- PreviewOp, Good <- CardGood

\* What comes of them is such a fold too.
LEMMA PreviewsFold ==
  ASSUME NEW r, NEW p, NEW s
  PROVE  FoldLeft(LAMBDA q, row : AddCard(q, row.what), r, s) = PreviewFold!Folded(p, r, s)
  BY Zenon DEF PreviewFold!Folded, PreviewOp, PreviewFold!MapThenFoldSet,
               FoldLeft, MapThenFoldSet, PreviewFold!Greatest, Max

\* They come one by one as well.
LEMMA PreviewsKeep ==
  ASSUME NEW r, RunOK(r), NEW s, IsList(s)
  PROVE  Doored(r, PreviewFold!Folded(r, r, s))
<1>1. PICK S : s \in Seq(S)
  BY DEF IsList
<1>2. CardGood(r, 0, r)
  BY DEF CardGood, Doored, Kept, Alive, SamePack
<1>3. ASSUME NEW i \in 1..Len(s), NEW a, CardGood(r, i - 1, a)
      PROVE  CardGood(r, i, PreviewOp(r, a, s[i]))
  <2>1. Doored(r, a) /\ RunOK(a)
    BY <1>3 DEF CardGood, Doored, Kept
  <2>2. Doored(a, AddCard(a, s[i].what))
    BY <2>1, AddKeeps
  <2> QED BY <2>1, <2>2, DooredTwice DEF CardGood, PreviewOp
<1>4. CardGood(r, Len(s), PreviewFold!Folded(r, r, s))
  BY <1>1, <1>2, <1>3, PreviewFold!FoldKeeps
<1> QED BY <1>4 DEF CardGood

\* Potions put into the belt one after another.
BrewOp(p, a, x) == PutPotion(a, x)
BrewGood(p, n, a) == Belted(p, a)
BrewFold == INSTANCE FoldFacts WITH Op <- BrewOp, Good <- BrewGood

\* The potions of a fight, or of an Entropic Brew.
LEMMA BrewsFold ==
  ASSUME NEW r, NEW p, NEW s
  PROVE  FoldLeft(PutPotion, r, s) = BrewFold!Folded(p, r, s)
  BY Zenon DEF BrewFold!Folded, BrewOp, BrewFold!MapThenFoldSet, FoldLeft,
               MapThenFoldSet, BrewFold!Greatest, Max

\* They change the belt alone.
LEMMA BrewsKeep ==
  ASSUME NEW r, RunOK(r), NEW s, IsList(s)
  PROVE  Belted(r, FoldLeft(PutPotion, r, s))
<1>1. PICK S : s \in Seq(S)
  BY DEF IsList
<1>2. BrewGood(r, 0, r)
  BY DEF BrewGood, Belted
<1>3. ASSUME NEW i \in 1..Len(s), NEW a, BrewGood(r, i - 1, a)
      PROVE  BrewGood(r, i, BrewOp(r, a, s[i]))
  <2>1. Belted(r, a) /\ RunOK(a)
    BY <1>3 DEF BrewGood, Belted
  <2>2. Belted(a, PutPotion(a, s[i]))
    BY <2>1, PutKeeps
  <2> QED BY <2>1, <2>2, BeltedTwice DEF BrewGood, BrewOp
<1>4. BrewGood(r, Len(s), BrewFold!Folded(r, r, s))
  BY <1>1, <1>2, <1>3, BrewFold!FoldKeeps
<1>5. FoldLeft(PutPotion, r, s) = BrewFold!Folded(r, r, s)
  BY BrewsFold, Zenon
<1> QED BY <1>4, <1>5 DEF BrewGood

-----------------------------------------------------------------------------
\* Cards renewed: a fold over sets of runs.
Came(k, up) == Fresh(k, IF CardDef[k].type = "curse" THEN 0 ELSE up)
RenewOp(p, a, x) == UNION {{AddCopy(q, Came(k, p[2])) : k \in TransformsOf(p[1].deck[x].k)} : q \in a}
RenewGood(p, n, a) == \A q \in a : Doored(p[1], q)
RenewFold == INSTANCE FoldFacts WITH Op <- RenewOp, Good <- RenewGood

\* Renewed is one.
LEMMA RenewsFold ==
  ASSUME NEW p, NEW s
  PROVE  Renewed(p[1], s, p[2]) = RenewFold!Folded(p, {Without(p[1], Range(s))}, s)
  BY Zenon DEF RenewFold!Folded, Renewed, RenewOp, Came, 
               RenewFold!MapThenFoldSet, FoldLeft, MapThenFoldSet, RenewFold!Greatest, Max

\* Every run it leads to.
LEMMA RenewedKeeps ==
  ASSUME NEW r, RunOK(r), NEW s, IsList(s), NEW up
  PROVE  \A q \in Renewed(r, s, up) : Doored(r, q)
<1> DEFINE p == <<r, up>>
           base == {Without(r, Range(s))}
<1>1. PICK S : s \in Seq(S)
  BY DEF IsList
<1>2. Renewed(r, s, up) = RenewFold!Folded(p, base, s)
  <2>1. Renewed(p[1], s, p[2]) = RenewFold!Folded(p, {Without(p[1], Range(s))}, s)
    BY RenewsFold, Zenon
  <2>2. p[1] = r /\ p[2] = up
    OBVIOUS
  <2> HIDE DEF p
  <2> QED BY <2>1, <2>2
<1>3. RenewGood(p, 0, base)
  BY WithoutKeeps DEF RenewGood
<1>4. ASSUME NEW i \in 1..Len(s), NEW a, RenewGood(p, i - 1, a)
      PROVE  RenewGood(p, i, RenewOp(p, a, s[i]))
  <2> SUFFICES ASSUME NEW q \in a, NEW k PROVE Doored(r, AddCopy(q, Came(k, p[2])))
    BY DEF RenewGood, RenewOp
  <2>1. Doored(r, q) /\ RunOK(q)
    BY <1>4 DEF RenewGood, Doored, Kept
  <2>2. Doored(q, AddCopy(q, Came(k, p[2])))
    BY <2>1, CopyKeeps, FreshIsCard DEF Came
  <2> QED BY <2>1, <2>2, DooredTwice
<1> HIDE DEF p, base
<1>5. RenewGood(p, Len(s), RenewFold!Folded(p, base, s))
  BY <1>1, <1>3, <1>4, RenewFold!FoldKeeps
<1> QED BY <1>2, <1>5 DEF RenewGood, p

\* The cards of a deck can be put into a list.
LEMMA ListOfPart ==
  ASSUME NEW d, IsDeck(d), NEW s, s \subseteq DOMAIN d
  PROVE  IsList(SetToSeq(s))
<1>1. Len(d) \in Nat /\ DOMAIN d = 1..Len(d)
  BY DeckPlaces
<1>2. IsFiniteSet(s)
  <2>1. IsFiniteSet(1..Len(d)) /\ s \in SUBSET (1..Len(d))
    BY <1>1, FS_Interval
  <2> QED BY <2>1, FS_Subset
<1>3. Cardinality(s) \in Nat /\ ExistsBijection(1..Cardinality(s), s)
  BY <1>2, FS_CardinalityType
<1> DEFINE n == Cardinality(s)
<1>4. \E f \in [1..n -> s] : IsInjective(f)
  BY <1>3, Zenon DEF ExistsBijection, Bijection, Injection
<1>5. SetToSeq(s) \in [1..n -> s]
  BY <1>4 DEF SetToSeq
<1> HIDE DEF n
<1>6. n \in Nat
  BY <1>3 DEF n
<1>7. SetToSeq(s) \in Seq(s)
  BY <1>5, <1>6
<1> QED BY <1>7 DEF IsList

-----------------------------------------------------------------------------
\* The Fountain's wash, from the back of the deck.
WashOp(p, a, x) == IF TypeOf(a.deck[x]) = "curse" /\ rest_card_purgeable(a.deck[x])
                   THEN RemoveCard(a, x) ELSE a
WashGood(p, n, a) == Doored(p, a) /\ Len(a.deck) >= Len(p.deck) - n
WashFold == INSTANCE FoldFacts WITH Op <- WashOp, Good <- WashGood

\* It is a fold.
LEMMA WashFolds ==
  ASSUME NEW r, NEW p
  PROVE  Washed(r) = WashFold!Folded(p, r, [j \in 1..Len(r.deck) |-> Len(r.deck) + 1 - j])
  BY Zenon DEF WashFold!Folded, Washed, WashOp, WashFold!MapThenFoldSet, FoldLeft,
               MapThenFoldSet, WashFold!Greatest, Max

\* Taken from the back, every index still names a card when its turn comes.
LEMMA WashKeeps ==
  ASSUME NEW r, RunOK(r)
  PROVE  Doored(r, Washed(r))
<1> DEFINE n == Len(r.deck)
           seq == [j \in 1..n |-> n + 1 - j]
<1>0. n \in Nat
  BY DeckPlaces DEF RunOK, Body
<1>1. Washed(r) = WashFold!Folded(r, r, seq)
  BY WashFolds, Zenon
<1>2. seq \in Seq(Nat) /\ Len(seq) = n
  BY <1>0
<1>3. WashGood(r, 0, r)
  BY <1>0 DEF WashGood, Doored, Kept, Alive, SamePack
<1>4. ASSUME NEW i \in 1..Len(seq), NEW a, WashGood(r, i - 1, a)
      PROVE  WashGood(r, i, WashOp(r, a, seq[i]))
  <2> DEFINE x == seq[i]
             b == WashOp(r, a, x)
  <2>1. RunOK(a) /\ Doored(r, a) /\ Len(a.deck) >= n - (i - 1)
    BY <1>4 DEF WashGood, Doored, Kept
  <2>2. x = n + 1 - i /\ i \in Int /\ 1 <= i /\ i <= n
    BY <1>0, <1>2
  <2> HIDE DEF x, seq
  <2>3. Len(a.deck) \in Nat /\ x \in DOMAIN a.deck
    <3>1. Len(a.deck) \in Nat /\ DOMAIN a.deck = 1..Len(a.deck)
      BY <2>1, DeckPlaces DEF RunOK, Body
    <3> QED BY <1>0, <2>1, <2>2, <3>1
  <2>4. Doored(a, b) /\ Len(b.deck) >= Len(a.deck) - 1
    <3> DEFINE c == TypeOf(a.deck[x]) = "curse" /\ rest_card_purgeable(a.deck[x])
    <3>1. CASE c
      <4>1. Doored(a, RemoveCard(a, x)) /\ Len(RemoveCard(a, x).deck) = Len(a.deck) - 1
        BY <2>1, <2>3, RemoveKeeps
      <4>2. b = RemoveCard(a, x)
        BY <3>1 DEF WashOp
      <4> QED BY <2>3, <4>1, <4>2
    <3>2. CASE ~c
      BY <2>1, <2>3, <3>2 DEF WashOp, Doored, Kept, Alive, SamePack
    <3> QED BY <3>1, <3>2
  <2> HIDE DEF b
  <2>5. Doored(r, b)
    BY <2>1, <2>4, DooredTwice
  <2>6. Len(b.deck) \in Nat
    BY <2>5, DeckPlaces DEF RunOK, Body, Doored, Kept
  <2>7. Len(b.deck) >= n - i
    BY <1>0, <2>1, <2>2, <2>3, <2>4, <2>6
  <2> QED BY <2>5, <2>7 DEF WashGood, b, x
<1> HIDE DEF seq
<1>5. WashGood(r, Len(seq), WashFold!Folded(r, r, seq))
  BY <1>2, <1>3, <1>4, WashFold!FoldKeeps
<1> QED BY <1>1, <1>5 DEF WashGood

-----------------------------------------------------------------------------
\* The boss's chest draws three relics.
ChestOp(p, a, x) == LET d == DrawRelic(a.run, "boss", FALSE)
                    IN  [run |-> d.run, relics |-> Append(a.relics, d.got)]
ChestGood(p, n, a) == Doored(p, a.run)
ChestFold == INSTANCE FoldFacts WITH Op <- ChestOp, Good <- ChestGood

\* roll_boss_chest is a fold.
LEMMA ChestFolds ==
  ASSUME NEW r, NEW p
  PROVE  roll_boss_chest(r) = ChestFold!Folded(p, [run |-> r, relics |-> <<>>], <<1, 2, 3>>)
  BY Zenon DEF ChestFold!Folded, roll_boss_chest, ChestOp, 
               ChestFold!MapThenFoldSet, FoldLeft, MapThenFoldSet, ChestFold!Greatest, Max

\* It takes from the pools alone.
LEMMA ChestKeeps ==
  ASSUME NEW r, RunOK(r)
  PROVE  Doored(r, roll_boss_chest(r).run)
<1> DEFINE base == [run |-> r, relics |-> <<>>]
           seq == <<1, 2, 3>>
<1>1. roll_boss_chest(r) = ChestFold!Folded(r, base, seq)
  BY ChestFolds, Zenon
<1>2. ChestGood(r, 0, base) /\ seq \in Seq(Nat)
  BY DEF ChestGood, Doored, Kept, Alive, SamePack
<1>3. ASSUME NEW i \in 1..Len(seq), NEW a, ChestGood(r, i - 1, a)
      PROVE  ChestGood(r, i, ChestOp(r, a, seq[i]))
  <2>1. Doored(r, a.run) /\ RunOK(a.run)
    BY <1>3 DEF ChestGood, Doored, Kept
  <2>2. Doored(a.run, DrawRelic(a.run, "boss", FALSE).run)
    BY <2>1, DrawKeeps
  <2> QED BY <2>1, <2>2, DooredTwice DEF ChestGood, ChestOp
<1> HIDE DEF seq, base
<1>4. ChestGood(r, Len(seq), ChestFold!Folded(r, base, seq))
  BY <1>2, <1>3, ChestFold!FoldKeeps
<1> QED BY <1>1, <1>4 DEF ChestGood

-----------------------------------------------------------------------------
\* Vampires take the strikes and leave their bites.
LEMMA VampiresKeep ==
  ASSUME NEW r, RunOK(r) PROVE Doored(r, vampires_replace_attacks(r))
<1> DEFINE q == Without(r, {i \in DOMAIN r.deck : r.deck[i].k = "strike"})
<1>1. Doored(r, q) /\ RunOK(q)
  BY WithoutKeeps DEF Doored, Kept
<1>2. Doored(q, AddCards(q, "bite", 5))
  <2> HIDE DEF q
  <2> QED BY <1>1, AddsKeep
<1> QED BY <1>1, <1>2, DooredTwice DEF vampires_replace_attacks

\* What the bonfire pays.
LEMMA BonfireKeeps ==
  ASSUME NEW r, RunOK(r), NEW k
  PROVE  \A q \in bonfire_pay_reward(r, k) : Kept(r, q)
<1> SUFFICES ASSUME NEW q \in bonfire_pay_reward(r, k) PROVE Kept(r, q)
  OBVIOUS
<1> DEFINE m == RaiseMax(r, 10)
<1>1. Body(r) /\ r.max \in Nat
  BY DEF RunOK, Body, Vital
<1>2. ASSUME NEW n \in Int PROVE Kept(r, Heal(r, n))
  BY <1>1, HealKeeps, KeptOfSame DEF Doored
<1>3. Body(m) /\ SameCards(r, m) /\ Alive(r, m)
  BY <1>1, RaiseKeeps
<1>4. Kept(r, Heal(m, r.max + 10))
  <2>1. Kept(r, m) /\ RunOK(m)
    BY <1>3, KeptOfSame DEF Doored, Kept
  <2> HIDE DEF m
  <2>2. Kept(m, Heal(m, r.max + 10))
    BY <1>1, <1>3, <2>1, HealKeeps, KeptOfSame DEF Doored
  <2> QED BY <2>1, <2>2, KeptTwice
<1>5. \A t \in Acquire(r, OrCirclet(r, "spirit_poop")) : Kept(r, t)
  BY AcquireKeeps
<1>6. Kept(r, r)
  BY DEF Kept, Alive
<1>7. /\ \A n \in Int : Kept(r, Heal(r, n))
      /\ 5 \in Int /\ r.max \in Int
  BY <1>1, <1>2
<1> HIDE DEF m
<1>8. CASE CardDef[k].rarity = "curse"
  BY <1>5, <1>8 DEF bonfire_pay_reward
<1>9. CASE CardDef[k].rarity # "curse"
  BY <1>4, <1>6, <1>7, <1>9 DEF bonfire_pay_reward, m
<1> QED BY <1>8, <1>9

\* Neow's drawbacks: not even the damage kills.
LEMMA DrawbackKeeps ==
  ASSUME NEW r, RunOK(r), NEW d
  PROVE  Kept(r, apply_drawback(r, d))
<1>0. Body(r) /\ r.max \in Nat /\ r.gold \in Nat /\ r.hp \in Nat
  BY DEF RunOK, Body, Vital
<1>1. CASE d = "no_gold"
  BY <1>0, <1>1, LoseKeeps, KeptOfSame DEF apply_drawback, Doored
<1>2. CASE d = "max_hp_loss"
  <2>1. hp_bonus(r) \in Int
    BY <1>0 DEF hp_bonus, Percent
  <2> QED BY <1>0, <1>2, <2>1, LowerKeeps, KeptOfSame DEF apply_drawback, Doored
<1>3. CASE d = "damage"
  <2> DEFINE n == (r.hp \div 10) * 3
             q == [r EXCEPT !.hp = @ - (@ \div 10) * 3]
  <2>1. RunShape(q) /\ SameCards(r, q) /\ q.hp = r.hp - n /\ q.max = r.max /\ q.gold = r.gold
        /\ q.purge = r.purge
    BY DEF RunOK, Body, RunShape, RunFields, SameCards
  <2>2. n \in Nat /\ n <= r.hp /\ (r.hp > 0 => n < r.hp)
    BY <1>0
  <2>3. apply_drawback(r, d) = q
    BY <1>3 DEF apply_drawback
  <2> HIDE DEF q, n
  <2>4. Vital(q) /\ Alive(r, q)
    BY <1>0, <2>1, <2>2 DEF Body, Vital, Alive
  <2> QED BY <1>0, <2>1, <2>3, <2>4, BodyOfSame, KeptOfSame DEF Doored
<1>4. CASE d \notin {"no_gold", "max_hp_loss", "damage"}
  BY <1>4 DEF apply_drawback, Kept, Alive
<1> QED BY <1>1, <1>2, <1>3, <1>4

(***************************************************************************)
(* The world.                                                              *)
(***************************************************************************)
WorldFields == {"run", "phase", "room", "ev", "site", "loot", "fight", "pend"}
EvFields == {"id", "screen", "grid", "a", "b", "c", "d", "board"}
RowFields == {"kind", "n", "bonus", "what", "cards"}
RowKinds == {"gold", "stolen", "potion", "relic", "cards", "emerald", "sapphire", "preview"}

WShape(w) == w = [x \in WorldFields |-> w[x]]

EvShape(e) ==
  /\ e = [x \in EvFields |-> e[x]]
  /\ e.screen \in Int /\ e.a \in Int /\ e.b \in Int /\ e.c \in Int /\ e.d \in Int

RowOK(row) ==
  /\ row = [x \in RowFields |-> row[x]] /\ row.kind \in RowKinds
  /\ row.n \in Int /\ row.bonus \in Int /\ \A c \in row.cards : IsCard(c)

LootOK(l) ==
  /\ l = [x \in {"rows", "open"} |-> l[x]]
  /\ \E S : l.rows \in Seq(S) /\ \A row \in S : RowOK(row)
  /\ l.open \in 0..Len(l.rows)

\* The pages of an event's dialog, and the grids it may open.
FinalPage(id) ==
  CASE id = "Sensory" -> 1
    [] id \in {"Joust", "Heart"} -> 4
    [] id = "CursedTome" -> 5
    [] id \in {"DeadAdventurer", "GoldenIdol", "GoldenWing", "Mushrooms", "Beggar", "Nest", "Library",
               "colosseum", "Skull", "Designer", "Bonfire", "FaceTrader", "Note", "Falling", "Sphere",
               "Winding"} -> 2
    [] OTHER -> 3

GridsOf(id) ==
  CASE id = "DrugDealer" -> {"none", "transformable_any"}
    [] id = "Duplicator" -> {"none", "duplicate"}
    [] id = "Designer"   -> {"none", "upgrade", "purge", "transformable", "pair_second"}
    [] id \in {"Cleric", "GoldenWing", "LivingWall", "BackToBasics", "Beggar", "Wheel",
               "Transmogrifier", "Purifier", "UpgradeShrine", "Blacksmith", "Note", "Bonfire"} ->
         {"none", "purge", "upgrade", "transformable"}
    [] OTHER             -> {"none"}

\* What an event has written down and will use without looking again.
SpecialOf(e, r) ==
  /\ e.id = "WorldOfGoop" /\ e.screen = 0 => e.a \in 0..r.gold
  /\ e.id = "Falling" /\ e.screen \in {0, 1} => {e.a, e.b, e.c} \subseteq {0} \cup DOMAIN r.deck
  /\ e.id = "WeMeetAgain" /\ e.screen = 0 => e.c \in {0} \cup DOMAIN r.deck
  /\ e.id = "DrugDealer" /\ e.screen = 0 => e.a \in {0} \cup DOMAIN r.deck
  /\ e.id = "DrugDealer" /\ e.grid # "none" => e.screen = 0
  /\ e.grid = "pair_second" => e.d \in DOMAIN r.deck
  /\ e.id = "DeadAdventurer" /\ e.screen = 0 =>
       e.b \in 0..2 /\ e.board \in [1..3 -> {"gold", "nothing", "relic"}]
  /\ e.id = "Wheel" /\ e.screen \in {1, 2} => e.a \in 0..5 /\ e.grid = "none"

\* The pages on which it has written down nothing.
Plain(id, s) ==
  /\ id \in {"WorldOfGoop", "WeMeetAgain", "DrugDealer", "DeadAdventurer"} => s # 0
  /\ id = "Falling" => s \notin {0, 1}
  /\ id = "Wheel" => s \notin {1, 2}

EvOK(e, r) ==
  e.id \in Events /\ e.screen \in 0..FinalPage(e.id) /\ e.grid \in GridsOf(e.id) /\ SpecialOf(e, r)

FightRooms == DOMAIN RoomGold \cup {"event"}

Common(w) == WShape(w) /\ RunOK(w.run) /\ EvShape(w.ev) /\ LootOK(w.loot)
DialogOK(w) == w.room = "event" /\ w.pend = "none" /\ EvOK(w.ev, w.run)
EntryOK(w) ==
  /\ w.room \in FightRooms /\ w.pend = "none"
  /\ event_combat_reopens(w) => w.room = "event" /\ w.ev.grid = "none"

\* What a dialog may become: itself, the map, the end, a reward screen, a fight's
\* door.
Spoken == {"dialog", "over", "map", "reward", "entering"}
Safe(w) ==
  /\ Common(w) /\ w.phase \in Spoken
  /\ w.phase \notin {"map", "over"} => w.run.hp > 0
  /\ w.phase = "dialog" => DialogOK(w)
  /\ w.phase = "entering" => EntryOK(w)

\* A dialog in the middle of a body: the player may have died of it.
Talk(w) == Safe(w) /\ w.phase \in {"dialog", "over"} /\ w.room = "event" /\ w.pend = "none"
Speaks(w, id) == Talk(w) /\ (w.phase = "dialog" => w.ev.id = id /\ w.ev.grid = "none")

Asked(w, id) == Speaks(w, id) /\ w.phase = "dialog"

\* Plain pages ask nothing of the run.
LEMMA PlainPage ==
  ASSUME NEW e, Plain(e.id, e.screen), e.grid = "none", NEW r
  PROVE  SpecialOf(e, r)
  BY DEF Plain, SpecialOf

\* A world put together from good parts.
LEMMA Rebuilt ==
  ASSUME NEW id, NEW w, Talk(w), NEW v, WShape(v), EvShape(v.ev), LootOK(v.loot),
         v.room = w.room, v.pend = w.pend, v.phase = w.phase, Kept(w.run, v.run),
         w.phase = "dialog" => w.ev.id = id /\ v.ev.id = id /\ v.ev.screen \in 0..FinalPage(id) /\ v.ev.grid = "none"
                               /\ Plain(id, v.ev.screen)
  PROVE  Speaks(v, id)
<1>1. w.phase = "dialog" => EvOK(v.ev, v.run)
  BY PlainPage DEF Speaks, Talk, Safe, DialogOK, EvOK, GridsOf
<1> QED BY <1>1 DEF Speaks, Talk, Safe, Common, DialogOK, Kept, Alive

\* The small steps of a body.
LEMMA OnSpeaks ==
  ASSUME NEW id, NEW w, Speaks(w, id), NEW r, Kept(w.run, r),
         w.phase = "dialog" => Plain(id, w.ev.screen)
  PROVE  /\ Speaks(On(w, r), id)
         /\ On(w, r).run = r /\ On(w, r).phase = w.phase /\ On(w, r).ev = w.ev /\ On(w, r).loot = w.loot
<1> DEFINE v == On(w, r)
<1>1. /\ WShape(v) /\ v.run = r /\ v.ev = w.ev /\ v.phase = w.phase /\ v.loot = w.loot
      /\ v.room = w.room /\ v.pend = w.pend
  BY DEF On, Speaks, Talk, Safe, Common, WShape, WorldFields
<1> HIDE DEF v
<1>2. Speaks(v, id)
  <2>1. w.phase = "dialog" => w.ev.screen \in 0..FinalPage(id)
    BY DEF Speaks, Talk, Safe, DialogOK, EvOK
  <2>2. EvShape(v.ev) /\ LootOK(v.loot)
    BY <1>1 DEF Speaks, Talk, Safe, Common
  <2> QED BY <1>1, <2>1, <2>2, Rebuilt DEF Speaks, Talk
<1> QED BY <1>1, <1>2 DEF v

\* Another page.
LEMMA AtSpeaks ==
  ASSUME NEW id, NEW w, Speaks(w, id), NEW s \in 0..FinalPage(id), FinalPage(id) \in Nat, Plain(id, s)
  PROVE  /\ Speaks(At(w, s), id)
         /\ At(w, s).run = w.run /\ At(w, s).phase = w.phase /\ At(w, s).loot = w.loot
         /\ At(w, s).ev.screen = s
<1> DEFINE v == At(w, s)
<1>1. /\ WShape(v) /\ v.run = w.run /\ v.phase = w.phase /\ v.loot = w.loot
      /\ v.room = w.room /\ v.pend = w.pend /\ v.ev.screen = s /\ v.ev.id = w.ev.id
      /\ v.ev.grid = w.ev.grid /\ EvShape(v.ev)
  BY DEF At, Speaks, Talk, Safe, Common, WShape, WorldFields, EvShape, EvFields
<1> HIDE DEF v
<1>2. Speaks(v, id)
  BY <1>1, Rebuilt DEF Speaks, Talk, Safe, Common, Kept, Alive
<1> QED BY <1>1, <1>2 DEF v

\* A page turned on each of the runs a body may lead to.
LEMMA TurnSpeaks ==
  ASSUME NEW id, NEW w, Speaks(w, id), NEW s \in 0..FinalPage(id), FinalPage(id) \in Nat, Plain(id, s),
         NEW R, \A r \in R : Kept(w.run, r)
  PROVE  \A v \in Turn(w, s, R) : Speaks(v, id)
<1> SUFFICES ASSUME NEW r \in R PROVE Speaks([w EXCEPT !.run = r, !.ev.screen = s], id)
  BY DEF Turn
<1> DEFINE v == [w EXCEPT !.run = r, !.ev.screen = s]
<1>1. /\ WShape(v) /\ v.run = r /\ v.phase = w.phase /\ v.loot = w.loot
      /\ v.room = w.room /\ v.pend = w.pend /\ v.ev = [w.ev EXCEPT !.screen = s]
  BY DEF Speaks, Talk, Safe, Common, WShape, WorldFields
<1> HIDE DEF v
<1>2. v.ev.screen = s /\ v.ev.id = w.ev.id /\ v.ev.grid = w.ev.grid /\ EvShape(v.ev)
  BY <1>1 DEF Speaks, Talk, Safe, Common, EvShape, EvFields
<1>3. Speaks(v, id)
  BY <1>1, <1>2, Rebuilt DEF Speaks, Talk, Safe, Common
<1> QED BY <1>3 DEF v

\* A dialog rewritten, its run too: the page it is on, its scratch words.
LEMMA EventSpeaks ==
  ASSUME NEW id, NEW w, Talk(w), NEW r, Kept(w.run, r), NEW e, EvShape(e),
         w.phase = "dialog" => /\ w.ev.id = id /\ e.id = id /\ e.screen \in 0..FinalPage(id)
                               /\ e.grid = "none" /\ Plain(id, e.screen)
  PROVE  LET v == [w EXCEPT !.run = r, !.ev = e]
         IN  Speaks(v, id) /\ Safe(v) /\ v.run = r /\ v.phase = w.phase /\ v.loot = w.loot /\ v.ev = e
<1> DEFINE v == [w EXCEPT !.run = r, !.ev = e]
<1>1. /\ WShape(v) /\ v.run = r /\ v.phase = w.phase /\ v.loot = w.loot
      /\ v.room = w.room /\ v.pend = w.pend /\ v.ev = e
  BY DEF Talk, Safe, Common, WShape, WorldFields
<1> HIDE DEF v
<1>2. LootOK(v.loot)
  BY <1>1 DEF Talk, Safe, Common
<1>3. Speaks(v, id)
  BY <1>1, <1>2, Rebuilt
<1> QED BY <1>1, <1>3 DEF v, Speaks, Talk

\* The reward screen's rows.
LEMMA LootSpeaks ==
  ASSUME NEW id, NEW w, Speaks(w, id), NEW l, LootOK(l)
  PROVE  LET v == [w EXCEPT !.loot = l]
         IN  Speaks(v, id) /\ v.run = w.run /\ v.phase = w.phase /\ v.loot = l /\ v.ev = w.ev
<1> DEFINE v == [w EXCEPT !.loot = l]
<1>1. /\ WShape(v) /\ v.run = w.run /\ v.phase = w.phase /\ v.loot = l
      /\ v.room = w.room /\ v.pend = w.pend /\ v.ev = w.ev
  BY DEF Speaks, Talk, Safe, Common, WShape, WorldFields
<1> HIDE DEF v
<1>2. Safe(v)
  BY <1>1 DEF Speaks, Talk, Safe, Common, DialogOK
<1>3. Speaks(v, id)
  BY <1>1, <1>2 DEF Speaks, Talk
<1> QED BY <1>1, <1>3 DEF v

\* An empty reward screen is one.
LEMMA NoLootOK == LootOK(NoLoot)
<1>1. NoLoot.rows = <<>> /\ NoLoot.open = 0 /\ NoLoot = [x \in {"rows", "open"} |-> NoLoot[x]]
  BY DEF NoLoot
<1>2. <<>> \in Seq({}) /\ Len(<<>>) = 0
  BY EmptySeq
<1>3. NoLoot.rows \in Seq({}) /\ NoLoot.open \in 0..Len(NoLoot.rows)
  BY <1>1, <1>2
<1>4. \E S : NoLoot.rows \in Seq(S) /\ \A row \in S : RowOK(row)
  <2> WITNESS {}
  <2> QED BY <1>3
<1> QED BY <1>1, <1>3, <1>4, Zenon DEF LootOK

\* A row more.
LEMMA RowMore ==
  ASSUME NEW l, LootOK(l), NEW row, RowOK(row)
  PROVE  LootOK([l EXCEPT !.rows = Append(@, row)])
<1> DEFINE m == [l EXCEPT !.rows = Append(@, row)]
<1>1. PICK S : l.rows \in Seq(S) /\ \A x \in S : RowOK(x)
  BY DEF LootOK
<1>2. m = [x \in {"rows", "open"} |-> m[x]] /\ m.rows = Append(l.rows, row) /\ m.open = l.open
  BY DEF LootOK
<1> HIDE DEF m
<1>3. m.rows \in Seq(S \cup {row}) /\ Len(m.rows) = Len(l.rows) + 1 /\ Len(l.rows) \in Nat
  <2>1. l.rows \in Seq(S \cup {row})
    BY <1>1
  <2> QED BY <1>2, <2>1, AppendProperties, LenProperties
<1>4. \A x \in S \cup {row} : RowOK(x)
  BY <1>1
<1>5. m.open \in 0..Len(m.rows)
  BY <1>2, <1>3 DEF LootOK
<1>6. LootOK(m)
  BY <1>2, <1>3, <1>4, <1>5 DEF LootOK
<1> QED BY <1>6 DEF m

\* Another row in a row's place.
LEMMA RowChanged ==
  ASSUME NEW l, LootOK(l), NEW i \in DOMAIN l.rows, NEW row, RowOK(row)
  PROVE  LootOK([l EXCEPT !.rows[i] = row])
<1> DEFINE m == [l EXCEPT !.rows[i] = row]
<1>1. PICK S : l.rows \in Seq(S) /\ \A x \in S : RowOK(x)
  BY DEF LootOK
<1>2. m = [x \in {"rows", "open"} |-> m[x]] /\ m.rows = [l.rows EXCEPT ![i] = row] /\ m.open = l.open
  BY DEF LootOK
<1> HIDE DEF m
<1>3. m.rows \in Seq(S \cup {row}) /\ Len(m.rows) = Len(l.rows)
  <2>1. l.rows \in Seq(S \cup {row})
    BY <1>1
  <2> QED BY <1>2, <2>1, ExceptSeq
<1>4. \A x \in S \cup {row} : RowOK(x)
  BY <1>1
<1>5. m.open \in 0..Len(m.rows)
  BY <1>2, <1>3 DEF LootOK
<1>6. LootOK(m)
  BY <1>2, <1>3, <1>4, <1>5 DEF LootOK
<1> QED BY <1>6 DEF m

\* What is on the screen.
LEMMA RowsThere ==
  ASSUME NEW l, LootOK(l)
  PROVE  /\ Len(l.rows) \in Nat /\ DOMAIN l.rows = 1..Len(l.rows) /\ l.open \in 0..Len(l.rows)
         /\ \A i \in DOMAIN l.rows : RowOK(l.rows[i])
<1>1. PICK S : l.rows \in Seq(S) /\ \A x \in S : RowOK(x)
  BY DEF LootOK
<1>2. Len(l.rows) \in Nat /\ DOMAIN l.rows = 1..Len(l.rows)
  BY <1>1, LenProperties
<1>3. \A i \in 1..Len(l.rows) : l.rows[i] \in S
  BY <1>1, ElementOfSeq
<1> QED BY <1>1, <1>2, <1>3 DEF LootOK

\* The rows that hold no cards.
LEMMA SomeRows ==
  ASSUME NEW kind \in RowKinds, NEW n \in Int, NEW what
  PROVE  RowOK(Row(kind, n, what)) /\ Row(kind, n, what).kind = kind /\ Row(kind, n, what).n = n
  BY DEF RowOK, Row, RowFields

\* A row added in a dialog.
LEMMA RowSpeaks ==
  ASSUME NEW id, NEW w, Speaks(w, id),
         NEW row, RowOK(row)
  PROVE  /\ Speaks(WithRow(w, row), id) /\ WithRow(w, row).run = w.run
         /\ WithRow(w, row).phase = w.phase /\ WithRow(w, row).ev = w.ev
<1> DEFINE l == [w.loot EXCEPT !.rows = Append(@, row)]
<1>1. LootOK(l)
  BY RowMore DEF Speaks, Talk, Safe, Common
<1>2. WithRow(w, row) = [w EXCEPT !.loot = l]
  BY DEF WithRow, Speaks, Talk, Safe, Common, WShape, WorldFields
<1> HIDE DEF l
<1> QED BY <1>1, <1>2, LootSpeaks

\* The reward screen cleared in a dialog.
LEMMA ClearSpeaks ==
  ASSUME NEW id, NEW w, Speaks(w, id)
  PROVE  /\ Speaks(ClearLoot(w), id) /\ ClearLoot(w).run = w.run
         /\ ClearLoot(w).phase = w.phase /\ ClearLoot(w).ev = w.ev
  BY LootSpeaks, NoLootOK DEF ClearLoot

\* The relic an event puts on the reward screen (add_event_combat_relic_reward).
LEMMA RelicRowSpeaks ==
  ASSUME NEW id, NEW w, Speaks(w, id), NEW x
  PROVE  LET v == add_event_combat_relic_reward(w, x)
         IN  Speaks(v, id) /\ v.run = w.run /\ v.phase = w.phase /\ v.ev = w.ev
<1>1. RowOK(Row("relic", 0, x))
  BY SomeRows DEF RowKinds
<1> QED BY <1>1, RowSpeaks DEF add_event_combat_relic_reward

\* Golden Idol's bonus is an amount of gold.
LEMMA BonusInt == ASSUME NEW r, NEW n \in Int PROVE Bonus(r, n) \in Int
  BY DEF Bonus, RoundedPercent

\* The gold row.
LEMMA GoldRowOK == ASSUME NEW r, NEW n \in Int PROVE RowOK(GoldRow(r, n))
  BY SomeRows, BonusInt DEF GoldRow, Row, RowOK, RowFields, RowKinds

\* The event's gold joins the gold already there.
LEMMA GoldSpeaks ==
  ASSUME NEW id, NEW w, Speaks(w, id), NEW n \in Int
  PROVE  LET v == add_event_combat_gold_reward(w, n)
         IN  Speaks(v, id) /\ v.run = w.run /\ v.phase = w.phase /\ v.ev = w.ev
<1> DEFINE rows == w.loot.rows
           at == {i \in DOMAIN rows : rows[i].kind = "gold"}
           i == CHOOSE i \in at : \A j \in at : i <= j
           sum == rows[i].n + n
<1>0. LootOK(w.loot)
  BY DEF Speaks, Talk, Safe, Common
<1>1. CASE at = {}
  BY <1>1, GoldRowOK, RowSpeaks DEF add_event_combat_gold_reward
<1>2. CASE at # {}
  <2>1. i \in DOMAIN rows
    <3>1. at \subseteq Nat
      BY <1>0, RowsThere
    <3>2. \E x \in at : \A y \in at : x <= y
      BY <3>1, <1>2, CardFold!LeastOf
    <3> QED BY <3>2
  <2> DEFINE row == [rows[i] EXCEPT !.n = sum, !.bonus = Bonus(w.run, sum)]
             l == [w.loot EXCEPT !.rows[i] = row]
  <2>2. RowOK(rows[i])
    BY <2>1, <1>0, RowsThere
  <2> HIDE DEF i, at
  <2>3. sum \in Int
    BY <2>2 DEF RowOK
  <2>4. Bonus(w.run, sum) \in Int
    BY <2>3, BonusInt
  <2> HIDE DEF sum
  <2>5. RowOK(row)
    BY <2>2, <2>3, <2>4 DEF RowOK, RowFields
  <2>6. LootOK(l)
    BY <2>1, <2>5, <1>0, RowChanged
  <2>7. [w EXCEPT !.loot.rows[i].n = sum, !.loot.rows[i].bonus = Bonus(w.run, sum)]
        = [w EXCEPT !.loot = l]
    BY <2>1, <2>2 DEF Speaks, Talk, Safe, Common, WShape, WorldFields, LootOK, RowOK, RowFields
  <2>8. add_event_combat_gold_reward(w, n) = [w EXCEPT !.loot = l]
    BY <1>2, <2>7, Zenon DEF add_event_combat_gold_reward, sum, i, at
  <2> HIDE DEF l
  <2> QED BY <2>6, <2>8, LootSpeaks
<1> QED BY <1>1, <1>2

\* A run at another health.
LEMMA HealthSet ==
  ASSUME NEW r, RunOK(r), NEW h \in 0..r.max, r.max \in Nat
  PROVE  LET q == [r EXCEPT !.hp = h]
         IN  /\ RunOK(q) /\ q.hp = h /\ q.deck = r.deck /\ q.gold = r.gold /\ q.relics = r.relics
             /\ q.max = r.max /\ q.belt = r.belt /\ SameCards(r, q)
<1> DEFINE q == [r EXCEPT !.hp = h]
<1>1. RunShape(q) /\ SameCards(r, q) /\ q.hp = h /\ q.gold = r.gold /\ q.max = r.max
      /\ q.purge = r.purge
  BY DEF RunOK, Body, RunShape, RunFields, SameCards
<1> HIDE DEF q
<1>2. Vital(q)
  BY <1>1 DEF RunOK, Body, Vital
<1>3. RunOK(q)
  BY <1>1, <1>2, BodyOfSame DEF RunOK, DollTrue, Owns, SameCards
<1> QED BY <1>1, <1>3 DEF q, SameCards

\* Lizard Tail is used up.
LEMMA TailKeeps ==
  ASSUME NEW r, RunOK(r)
  PROVE  LET q == [r EXCEPT !.tail = FALSE]
         IN  RunOK(q) /\ q.hp = r.hp /\ q.deck = r.deck /\ q.gold = r.gold /\ q.relics = r.relics
             /\ q.max = r.max /\ q.belt = r.belt
<1> DEFINE q == [r EXCEPT !.tail = FALSE]
<1>1. RunShape(q) /\ SameCards(r, q) /\ q.hp = r.hp /\ q.gold = r.gold /\ q.max = r.max
      /\ q.purge = r.purge
  BY DEF RunOK, Body, RunShape, RunFields, SameCards
<1> HIDE DEF q
<1>2. Vital(q)
  BY <1>1 DEF RunOK, Body, Vital
<1>3. RunOK(q)
  BY <1>1, <1>2, BodyOfSame DEF RunOK, DollTrue, Owns, SameCards
<1> QED BY <1>1, <1>3 DEF q, SameCards

\* What apply_event_damage leaves: the run's cards and gold, and either the
\* world around it or the end of the run.
Survived(w, v) ==
  v.phase = w.phase /\ v.ev = w.ev /\ (w.run.hp > 0 => v.run.hp > 0)
Perished(v) == v.phase = "over" /\ v.ev = NoEvent /\ v.run.hp = 0
Harmed(w, v) ==
  /\ WShape(v) /\ RunOK(v.run) /\ v.room = w.room /\ v.pend = w.pend /\ v.loot = w.loot
  /\ v.site = w.site /\ v.fight = w.fight
  /\ v.run.deck = w.run.deck /\ v.run.gold = w.run.gold /\ v.run.relics = w.run.relics
  /\ v.run.max = w.run.max
  /\ Survived(w, v) \/ Perished(v)

\* apply_event_damage, with the relics that answer it: the player survives it, or the run is
\* over with no health left.
LEMMA HurtIs ==
  ASSUME NEW w, WShape(w), RunOK(w.run), NEW n \in Int, NEW owner
  PROVE  Harmed(w, apply_event_damage(w, n, owner))
<1> DEFINE r == w.run
           v == apply_event_damage(w, n, owner)
           torii == IF owner = "player" /\ n \in 2..5 /\ Owns(r, "torii") THEN 1 ELSE n
           loss == IF Owns(r, "tungsten") THEN torii - 1 ELSE torii
           hp == Most(0, r.hp - loss)
           fairies == BeltFairies(r)
           spent == CHOOSE i \in fairies : \A j \in fairies : i <= j
           potency == IF Owns(r, "bark") THEN 60 ELSE 30
<1>0. r.hp \in Nat /\ r.max \in Nat /\ r.max > 0 /\ r.hp <= r.max
  BY DEF RunOK, Body, Vital
<1>1. CASE n <= 0 \/ r.hp <= 0 \/ loss = 0
  <2>1. v = w
    BY <1>1 DEF apply_event_damage
  <2> QED BY <2>1 DEF Harmed, Survived
<1>2. CASE ~(n <= 0 \/ r.hp <= 0 \/ loss = 0) /\ hp > 0
  <2> DEFINE q == [r EXCEPT !.hp = hp]
  <2>1. hp \in 0..r.max
    BY <1>0, <1>2 DEF Most
  <2>2. v = [w EXCEPT !.run.hp = hp]
    BY <1>2 DEF apply_event_damage
  <2> HIDE DEF hp
  <2>3. RunOK(q) /\ q.hp = hp /\ q.deck = r.deck /\ q.gold = r.gold /\ q.relics = r.relics /\ q.max = r.max
    BY <1>0, <2>1, HealthSet
  <2>4. /\ WShape(v) /\ v.run = q /\ v.room = w.room /\ v.pend = w.pend /\ v.loot = w.loot
        /\ v.phase = w.phase /\ v.ev = w.ev /\ v.site = w.site /\ v.fight = w.fight
    BY <2>2 DEF WShape, WorldFields
  <2> HIDE DEF q, v
  <2>5. Harmed(w, v)
    BY <1>2, <2>3, <2>4 DEF Harmed, Survived
  <2> QED BY <2>5 DEF v
<1>3. ASSUME v = [w EXCEPT !.run.hp = 0, !.ev = NoEvent, !.phase = "over"] PROVE Harmed(w, v)
  <2> DEFINE q == [r EXCEPT !.hp = 0]
  <2>3. RunOK(q) /\ q.hp = 0 /\ q.deck = r.deck /\ q.gold = r.gold /\ q.relics = r.relics /\ q.max = r.max
    BY <1>0, HealthSet
  <2>4. /\ WShape(v) /\ v.run = q /\ v.room = w.room /\ v.pend = w.pend /\ v.loot = w.loot
        /\ v.phase = "over" /\ v.ev = NoEvent /\ v.site = w.site /\ v.fight = w.fight
    BY <1>3 DEF WShape, WorldFields
  <2> HIDE DEF q, v
  <2> QED BY <2>3, <2>4 DEF Harmed, Perished
<1>4. ASSUME NEW h \in 1..r.max, v = [w EXCEPT !.run.hp = h, !.run.belt[spent] = "none"]
      PROVE  Harmed(w, v)
  <2> DEFINE p == [r EXCEPT !.hp = h]
             q == ClearSlot(p, spent)
  <2>3. RunOK(p) /\ p.hp = h /\ p.deck = r.deck /\ p.gold = r.gold /\ p.relics = r.relics
        /\ p.max = r.max /\ p.belt = r.belt
    BY <1>0, HealthSet
  <2>4. /\ WShape(v) /\ v.run = q /\ v.room = w.room /\ v.pend = w.pend /\ v.loot = w.loot
        /\ v.phase = w.phase /\ v.ev = w.ev /\ v.site = w.site /\ v.fight = w.fight
    BY <1>4 DEF WShape, WorldFields, ClearSlot, RunOK, Body, RunShape, RunFields
  <2> HIDE DEF p, v, spent
  <2>5. Belted(p, q)
    BY <2>3, ClearKeeps
  <2> HIDE DEF q
  <2> QED BY <2>3, <2>4, <2>5 DEF Harmed, Survived, Belted
<1>5. ASSUME NEW h \in 1..r.max, v = [w EXCEPT !.run.hp = h, !.run.tail = FALSE]
      PROVE  Harmed(w, v)
  <2> DEFINE p == [r EXCEPT !.hp = h]
             q == [p EXCEPT !.tail = FALSE]
  <2>3. RunOK(p) /\ p.hp = h /\ p.deck = r.deck /\ p.gold = r.gold /\ p.relics = r.relics
        /\ p.max = r.max /\ p.belt = r.belt
    BY <1>0, HealthSet
  <2>4. /\ WShape(v) /\ v.run = q /\ v.room = w.room /\ v.pend = w.pend /\ v.loot = w.loot
        /\ v.phase = w.phase /\ v.ev = w.ev /\ v.site = w.site /\ v.fight = w.fight
    BY <1>5 DEF WShape, WorldFields, RunOK, Body, RunShape, RunFields
  <2> HIDE DEF p, v
  <2>5. RunOK(q) /\ q.hp = p.hp /\ q.deck = p.deck /\ q.gold = p.gold /\ q.relics = p.relics
        /\ q.max = p.max
    BY <2>3, TailKeeps
  <2> HIDE DEF q
  <2> QED BY <2>3, <2>4, <2>5 DEF Harmed, Survived
<1>6. Most(1, Percent(r.max, potency)) \in 1..r.max /\ Most(1, r.max \div 2) \in 1..r.max
  BY <1>0 DEF Most, Percent
<1>7. CASE ~(n <= 0 \/ r.hp <= 0 \/ loss = 0) /\ ~(hp > 0)
  <2> DEFINE x == Most(1, Percent(r.max, potency))
             y == Most(1, r.max \div 2)
  <2>1. \/ v = [w EXCEPT !.run.hp = 0, !.ev = NoEvent, !.phase = "over"]
        \/ v = [w EXCEPT !.run.hp = x, !.run.belt[spent] = "none"]
        \/ v = [w EXCEPT !.run.hp = y, !.run.tail = FALSE]
    BY <1>7 DEF apply_event_damage
  <2>2. x \in 1..r.max /\ y \in 1..r.max
    BY <1>6
  <2> HIDE DEF v, potency, spent, x, y
  <2>3. Harmed(w, v)
    BY <2>1, <2>2, <1>3, <1>4, <1>5
  <2> QED BY <2>3 DEF v
<1> HIDE DEF hp, loss
<1> QED BY <1>1, <1>2, <1>7

Talked(w, v, id) ==
  /\ Speaks(v, id) /\ v.phase \in {"dialog", "over"}
  /\ v.phase = "over" <=> v.run.hp = 0
  /\ v.phase = "dialog" => v.ev = w.ev /\ Kept(w.run, v.run)

\* A dialog hurts the player: he goes on talking, or the run is over.
LEMMA HurtSpeaks ==
  ASSUME NEW id, NEW w, Asked(w, id), NEW n \in Int, NEW owner
  PROVE  LET v == apply_event_damage(w, n, owner)
         IN  Harmed(w, v) /\ Talked(w, v, id)
<1> DEFINE v == apply_event_damage(w, n, owner)
<1>1. Harmed(w, v)
  BY HurtIs DEF Asked, Speaks, Talk, Safe, Common
<1> HIDE DEF v
<1> SUFFICES Talked(w, v, id)
  BY <1>1 DEF v
<1>2. w.run.hp > 0 /\ w.phase = "dialog" /\ w.room = "event" /\ w.pend = "none"
      /\ w.run.hp \in Nat /\ v.run.hp \in Nat
  BY <1>1 DEF Asked, Speaks, Talk, Safe, Common, RunOK, Body, Vital, Harmed
<1>3. CASE Survived(w, v)
  <2>1. EvOK(v.ev, v.run)
    BY <1>1, <1>3 DEF Harmed, Survived, Asked, Speaks, Talk, Safe, DialogOK, EvOK, SpecialOf
  <2>2. Safe(v)
    BY <1>1, <1>2, <1>3, <2>1 DEF Harmed, Survived, Asked, Speaks, Talk, Safe, Common, DialogOK
  <2> QED BY <1>1, <1>2, <1>3, <2>2 DEF Harmed, Survived, Asked, Speaks, Talk, Kept, Alive, Talked
<1>4. CASE Perished(v)
  <2>1. EvShape(v.ev)
    BY <1>4 DEF Perished, NoEvent, EvShape, EvFields
  <2>2. Safe(v)
    BY <1>1, <1>2, <1>4, <2>1 DEF Harmed, Perished, Asked, Speaks, Talk, Safe, Common, Spoken
  <2> QED BY <1>1, <1>2, <1>4, <2>2 DEF Harmed, Perished, Speaks, Talk, Talked
<1> QED BY <1>1, <1>3, <1>4 DEF Harmed, v

-----------------------------------------------------------------------------
\* Out of a dialog: to the map, to a grid, to the reward screen, to a fight.
LEMMA LeaveSafe ==
  ASSUME NEW w, Talk(w) PROVE \A v \in Leave(w) : Safe(v)
<1> DEFINE v == [w EXCEPT !.ev = NoEvent, !.phase = "map"]
<1>1. WShape(v) /\ v.run = w.run /\ v.ev = NoEvent /\ v.loot = w.loot /\ v.phase = "map"
  BY DEF Talk, Safe, Common, WShape, WorldFields
<1>2. EvShape(NoEvent)
  BY DEF NoEvent, EvShape, EvFields
<1> HIDE DEF v
<1>3. Safe(v)
  BY <1>1, <1>2 DEF Talk, Safe, Common, Spoken
<1> QED BY <1>3 DEF v, Leave

\* A grid opened over a page that allows one.
LEMMA GridSafe ==
  ASSUME NEW id, NEW w, Asked(w, id), NEW kind \in GridsOf(id), kind # "pair_second",
         id = "Wheel" => w.ev.screen = 3, id = "DrugDealer" => w.ev.screen = 0
  PROVE  Safe(OpenGrid(w, kind))
<1> DEFINE v == OpenGrid(w, kind)
<1>1. /\ WShape(v) /\ v.run = w.run /\ v.ev = [w.ev EXCEPT !.grid = kind] /\ v.loot = w.loot
      /\ v.phase = "dialog" /\ v.room = "event" /\ v.pend = "none"
  BY DEF Asked, Speaks, Talk, Safe, Common, WShape, WorldFields, OpenGrid
<1> HIDE DEF v
<1>2. /\ EvShape(v.ev) /\ v.ev.id = id /\ v.ev.grid = kind /\ v.ev.screen = w.ev.screen
      /\ v.ev.a = w.ev.a /\ v.ev.b = w.ev.b /\ v.ev.c = w.ev.c /\ v.ev.board = w.ev.board
  BY <1>1 DEF Asked, Speaks, Talk, Safe, Common, EvShape, EvFields
<1>3. EvOK(v.ev, v.run)
  BY <1>1, <1>2 DEF Asked, Speaks, Talk, Safe, DialogOK, EvOK, SpecialOf
<1>4. Safe(v)
  BY <1>1, <1>2, <1>3 DEF Asked, Speaks, Talk, Safe, Common, DialogOK
<1> QED BY <1>4 DEF v

\* The reward screen opened by a dialog.
LEMMA OpenLootSafe ==
  ASSUME NEW w, Talk(w), w.run.hp > 0 PROVE Safe(OpenLoot(w))
<1> DEFINE v == OpenLoot(w)
<1>1. WShape(v) /\ v.run = w.run /\ v.ev = NoEvent /\ v.loot = w.loot /\ v.phase = "reward"
  BY DEF Talk, Safe, Common, WShape, WorldFields, OpenLoot
<1>2. EvShape(NoEvent)
  BY DEF NoEvent, EvShape, EvFields
<1> HIDE DEF v
<1>3. Safe(v)
  BY <1>1, <1>2 DEF Talk, Safe, Common, Spoken
<1> QED BY <1>3 DEF v

\* A fight begun by a dialog, which may be over for good.
LEMMA EnterSafe ==
  ASSUME NEW id, NEW w, Asked(w, id), NEW foes
  PROVE  /\ Safe(enter_event_combat(w, foes))
         /\ Safe([enter_event_combat(w, foes) EXCEPT !.ev = NoEvent])
         /\ Safe(enter_event_combat([w EXCEPT !.ev = NoEvent], foes))
<1>1. ASSUME NEW e \in {w.ev, NoEvent}, NEW v,
             v = [w EXCEPT !.phase = "entering", !.fight = [foes |-> foes], !.ev = e]
      PROVE  Safe(v)
  <2>1. /\ WShape(v) /\ v.run = w.run /\ v.ev = e /\ v.loot = w.loot /\ v.phase = "entering"
        /\ v.room = "event" /\ v.pend = "none"
    BY <1>1 DEF Asked, Speaks, Talk, Safe, Common, WShape, WorldFields
  <2>2. EvShape(e) /\ e.grid = "none"
    BY DEF NoEvent, EvShape, EvFields, Asked, Speaks, Talk, Safe, Common
  <2> QED BY <2>1, <2>2 DEF Asked, Speaks, Talk, Safe, Common, Spoken, EntryOK, FightRooms
<1>2. enter_event_combat(w, foes)
        = [w EXCEPT !.phase = "entering", !.fight = [foes |-> foes], !.ev = w.ev]
  BY DEF enter_event_combat, Asked, Speaks, Talk, Safe, Common, WShape, WorldFields
<1>3. [enter_event_combat(w, foes) EXCEPT !.ev = NoEvent]
        = [w EXCEPT !.phase = "entering", !.fight = [foes |-> foes], !.ev = NoEvent]
  BY DEF enter_event_combat, Asked, Speaks, Talk, Safe, Common, WShape, WorldFields
<1>4. enter_event_combat([w EXCEPT !.ev = NoEvent], foes)
        = [w EXCEPT !.phase = "entering", !.fight = [foes |-> foes], !.ev = NoEvent]
  BY DEF enter_event_combat, Asked, Speaks, Talk, Safe, Common, WShape, WorldFields
<1> QED BY <1>1, <1>2, <1>3, <1>4

-----------------------------------------------------------------------------
\* What the bodies do to a run.
LEMMA Moves ==
  ASSUME NEW r, RunOK(r)
  PROVE  /\ Kept(r, r)
         /\ \A n \in Int : /\ Kept(r, Heal(r, n)) /\ Kept(r, LowerMax(r, n))
                           /\ Kept(r, GainGold(r, n)) /\ Kept(r, LoseGold(r, n))
         /\ \A n \in Nat : Kept(r, RaiseMax(r, n))
         /\ \A k : Kept(r, AddCard(r, k)) /\ Kept(r, AddCardOnTop(r, k))
         /\ \A k : \A n \in Nat : Kept(r, AddCards(r, k, n))
         /\ \A i \in DOMAIN r.deck : Kept(r, RemoveCard(r, i)) /\ \A q \in Transform(r, i) : Kept(r, q)
         /\ \A i : Kept(r, UpgradeCard(r, i)) /\ Kept(r, ClearSlot(r, i))
         /\ \A s : Kept(r, UpgradeSet(r, s)) /\ \A n : \A q \in UpgradeSome(r, s, n) : Kept(r, q)
         /\ \A x : \A q \in Acquire(r, x) : Kept(r, q)
         /\ \A x : Kept(r, LoseRelic(r, x)) /\ Kept(r, PutPotion(r, x))
         /\ \A q \in EventRelicRuns(r) : Kept(r, q)
         /\ \A q \in RelicWithCurse(r) : Kept(r, q)
         /\ \A t, s : Kept(r, DrawRelic(r, t, s).run) /\ Kept(r, DrawScreenless(r, t).run)
<1>1. \A n \in Int : /\ Kept(r, Heal(r, n)) /\ Kept(r, LowerMax(r, n))
                     /\ Kept(r, GainGold(r, n)) /\ Kept(r, LoseGold(r, n))
  BY HealKeeps, LowerKeeps, GainKeeps, LoseKeeps, KeptOfSame DEF RunOK, Doored
<1>2. \A n \in Nat : Kept(r, RaiseMax(r, n))
  BY RaiseKeeps, KeptOfSame DEF RunOK, Doored
<1>3. /\ \A k : Kept(r, AddCard(r, k)) /\ Kept(r, AddCardOnTop(r, k))
      /\ \A k : \A n \in Nat : Kept(r, AddCards(r, k, n))
  BY AddKeeps, TopKeeps, AddsKeep DEF Doored
<1>4. \A i \in DOMAIN r.deck : Kept(r, RemoveCard(r, i)) /\ \A q \in Transform(r, i) : Kept(r, q)
  BY RemoveKeeps, TransformKeeps DEF Doored
<1>5. \A i : Kept(r, UpgradeCard(r, i)) /\ Kept(r, ClearSlot(r, i))
  BY UpgradeKeeps, ClearKeeps, BeltedIsKept DEF Doored
<1>6. \A s : Kept(r, UpgradeSet(r, s)) /\ \A n : \A q \in UpgradeSome(r, s, n) : Kept(r, q)
  BY UpgradeKeeps DEF Doored
<1>7. /\ \A x : \A q \in Acquire(r, x) : Kept(r, q)
      /\ \A x : Kept(r, LoseRelic(r, x)) /\ Kept(r, PutPotion(r, x))
      /\ \A q \in EventRelicRuns(r) : Kept(r, q)
      /\ \A q \in RelicWithCurse(r) : Kept(r, q)
  BY AcquireKeeps, LoseKept, PutKeeps, BeltedIsKept, EventRelicKeeps, CursedRelicKeeps
<1>8. \A t, s : Kept(r, DrawRelic(r, t, s).run) /\ Kept(r, DrawScreenless(r, t).run)
  BY DrawKeeps, ScreenlessKeeps DEF Doored
<1>9. Kept(r, r)
  BY DEF Kept, Alive
<1> QED BY <1>1, <1>2, <1>3, <1>4, <1>5, <1>6, <1>7, <1>8, <1>9

\* Two moves in a row.
LEMMA MoveOn == ASSUME NEW r, NEW p, Kept(r, p) PROVE RunOK(p) /\ \A q : Kept(p, q) => Kept(r, q)
  BY KeptTwice DEF Kept

\* A price paid from a purse that holds it.
LEMMA LessGold ==
  ASSUME NEW r, RunOK(r), NEW n \in 0..r.gold
  PROVE  Kept(r, [r EXCEPT !.gold = @ - n])
<1> DEFINE q == [r EXCEPT !.gold = @ - n]
<1>1. RunShape(q) /\ SameCards(r, q) /\ q.hp = r.hp /\ q.max = r.max /\ q.purge = r.purge
      /\ q.gold = r.gold - n
  BY DEF RunOK, Body, RunShape, RunFields, SameCards
<1> HIDE DEF q
<1>2. Vital(q) /\ Alive(r, q)
  BY <1>1 DEF RunOK, Body, Vital, Alive
<1>3. Kept(r, q)
  BY <1>1, <1>2, BodyOfSame, KeptOfSame DEF RunOK, Doored
<1> QED BY <1>3 DEF q

\* What a run is, for a body that counts with it.
LEMMA Numbers ==
  ASSUME NEW id, NEW w, Speaks(w, id)
  PROVE  /\ RunOK(w.run) /\ w.run.max \in Nat /\ w.run.hp \in Nat /\ w.run.gold \in Nat
         /\ w.run.hp <= w.run.max /\ w.run.max > 0
         /\ w.ev.a \in Int /\ w.ev.b \in Int /\ w.ev.c \in Int /\ w.ev.d \in Int /\ w.ev.screen \in Int
         /\ Kept(w.run, w.run) /\ LootOK(w.loot)
  BY DEF Speaks, Talk, Safe, Common, RunOK, Body, Vital, EvShape, Kept, Alive

-----------------------------------------------------------------------------
\* The dialogs, one by one.
AllSafe(worlds) == \A v \in worlds : Safe(v)

\* The dialogs that write down what they will use without looking again.
Writers == {"WorldOfGoop", "WeMeetAgain", "DrugDealer", "DeadAdventurer", "Falling", "Wheel"}

\* Every dialog has pages.
LEMMA LastPage == ASSUME NEW id PROVE FinalPage(id) \in Nat /\ FinalPage(id) >= 1
  BY DEF FinalPage

\* A step of a dialog, wherever its plain pages are.
LEMMA Steps ==
  ASSUME NEW id, NEW w, Speaks(w, id), NEW s \in 0..FinalPage(id), Plain(id, s)
  PROVE  /\ Speaks(At(w, s), id) /\ Safe(At(w, s))
         /\ At(w, s).run = w.run /\ At(w, s).phase = w.phase /\ At(w, s).ev.screen = s
         /\ \A R : (\A r \in R : Kept(w.run, r)) => AllSafe(Turn(w, s, R))
         /\ w.phase = "dialog" /\ (id = "Wheel" => s = 3) /\ id # "DrugDealer" =>
              \A kind \in GridsOf(id) \ {"pair_second"} : Safe(OpenGrid(At(w, s), kind))
<1>1. /\ Speaks(At(w, s), id)
      /\ At(w, s).run = w.run /\ At(w, s).phase = w.phase /\ At(w, s).ev.screen = s
  BY AtSpeaks, LastPage
<1>2. \A R : (\A r \in R : Kept(w.run, r)) => AllSafe(Turn(w, s, R))
  BY TurnSpeaks, LastPage DEF AllSafe, Speaks, Talk
<1>3. w.phase = "dialog" /\ (id = "Wheel" => s = 3) /\ id # "DrugDealer" =>
        \A kind \in GridsOf(id) \ {"pair_second"} : Safe(OpenGrid(At(w, s), kind))
  BY <1>1, GridSafe DEF Asked
<1> QED BY <1>1, <1>2, <1>3 DEF Speaks, Talk

\* The ways out, and the price in health.
LEMMA WaysOut ==
  ASSUME NEW id, NEW w, Asked(w, id)
  PROVE  /\ AllSafe(Leave(w)) /\ Safe(w) /\ Speaks(w, id)
         /\ \A kind \in GridsOf(id) \ {"pair_second"} :
              (id = "Wheel" => w.ev.screen = 3) /\ (id = "DrugDealer" => w.ev.screen = 0) => Safe(OpenGrid(w, kind))
         /\ \A n \in Int : \A owner :
              LET v == apply_event_damage(w, n, owner)
              IN  Talked(w, v, id) /\ Safe(v) /\ Harmed(w, v)
<1>1. AllSafe(Leave(w)) /\ Safe(w) /\ Speaks(w, id)
  BY LeaveSafe DEF AllSafe, Asked, Speaks, Talk
<1>2. \A kind \in GridsOf(id) \ {"pair_second"} :
        (id = "Wheel" => w.ev.screen = 3) /\ (id = "DrugDealer" => w.ev.screen = 0) => Safe(OpenGrid(w, kind))
  BY GridSafe
<1>3. \A n \in Int : \A owner :
        LET v == apply_event_damage(w, n, owner)
        IN  Talked(w, v, id) /\ Safe(v) /\ Harmed(w, v)
  BY HurtSpeaks DEF Talked, Speaks, Talk
<1> QED BY <1>1, <1>2, <1>3

\* A page turned with another run.
LEMMA Turned ==
  ASSUME NEW id, NEW w, Speaks(w, id), NEW s \in 0..FinalPage(id), Plain(id, s), NEW r, Kept(w.run, r)
  PROVE  Speaks(At(On(w, r), s), id) /\ Safe(At(On(w, r), s))
<1>1. At(On(w, r), s) = [w EXCEPT !.run = r, !.ev.screen = s]
  BY DEF At, On, Speaks, Talk, Safe, Common, WShape, WorldFields
<1>2. At(On(w, r), s) \in Turn(w, s, {r})
  BY <1>1 DEF Turn
<1> QED BY <1>2, TurnSpeaks, LastPage DEF Speaks, Talk

\* A grid opened before the page is turned.
LEMMA GridThenPage ==
  ASSUME NEW id, NEW w, Speaks(w, id), NEW kind, NEW s
  PROVE  At(OpenGrid(w, kind), s) = OpenGrid(At(w, s), kind)
  BY DEF At, OpenGrid, Speaks, Talk, Safe, Common, WShape, WorldFields, EvShape, EvFields

\* A dialog whose grid is open, and what the grid's pick leaves.
Gridded(w, id) == Talk(w) /\ w.phase = "dialog" /\ w.ev.id = id

\* The grid closes on the run it has changed.
LEMMA GridShut ==
  ASSUME NEW id, NEW w, Gridded(w, id), Plain(id, w.ev.screen), NEW q, Kept(w.run, q)
  PROVE  /\ Speaks(On([w EXCEPT !.ev.grid = "none"], q), id)
         /\ On([w EXCEPT !.ev.grid = "none"], q).phase = "dialog"
<1> DEFINE v == On([w EXCEPT !.ev.grid = "none"], q)
<1>1. /\ WShape(v) /\ v.run = q /\ v.ev = [w.ev EXCEPT !.grid = "none"] /\ v.phase = w.phase
      /\ v.loot = w.loot /\ v.room = w.room /\ v.pend = w.pend
  BY DEF On, Gridded, Talk, Safe, Common, WShape, WorldFields
<1> HIDE DEF v
<1>2. EvShape(v.ev) /\ v.ev.id = id /\ v.ev.screen = w.ev.screen /\ v.ev.grid = "none"
  BY <1>1 DEF Gridded, Talk, Safe, Common, EvShape, EvFields
<1>3. v.ev.screen \in 0..FinalPage(id) /\ LootOK(v.loot)
  BY <1>1, <1>2 DEF Gridded, Talk, Safe, Common, DialogOK, EvOK
<1>4. Speaks(v, id)
  BY <1>1, <1>2, <1>3, Rebuilt DEF Gridded
<1> QED BY <1>1, <1>4 DEF v, Gridded

\* The cards a grid shows are cards of the deck.
LEMMA GridInDeck ==
  ASSUME NEW r, NEW kind, NEW held PROVE GridCards(r, kind, held) \subseteq DOMAIN r.deck
  BY DEF GridCards, Upgradeable, Purgeable, PurgeableUnbottled

PickGrids == {"purge", "upgrade", "transformable"}

\* A pick of one of the three common grids.
LEMMA PickSpeaks ==
  ASSUME NEW id, NEW w, Gridded(w, id), Plain(id, w.ev.screen), w.ev.grid \in PickGrids,
         NEW i \in event_grid_card_legal(w)
  PROVE  \A v \in Picked(w, i) : Speaks(v, id) /\ Safe(v)
<1>1. i \in DOMAIN w.run.deck
  BY GridInDeck DEF event_grid_card_legal
<1>2. RunOK(w.run)
  BY DEF Gridded, Talk, Safe, Common
<1>3. \A q : Kept(w.run, q) => Speaks(On([w EXCEPT !.ev.grid = "none"], q), id)
  BY GridShut
<1>4. /\ Kept(w.run, RemoveCard(w.run, i)) /\ Kept(w.run, UpgradeCard(w.run, i))
      /\ \A q \in Transform(w.run, i) : Kept(w.run, q)
  BY <1>1, <1>2, Moves
<1>5. \A v \in Picked(w, i) : Speaks(v, id)
  BY <1>3, <1>4 DEF Picked, PickGrids
<1> QED BY <1>5 DEF Speaks, Talk

\* Big Fish: a cure, a higher ceiling, or a relic with its curse.
LEMMA BigFishSafe ==
  ASSUME NEW w, Asked(w, "BigFish"), NEW o \in BigFishMenu(w)
  PROVE  AllSafe(BigFish(w, o))
<1>1. 1 \in 0..FinalPage("BigFish") /\ Plain("BigFish", 1)
  BY DEF FinalPage, Plain
<1>2. RunOK(w.run) /\ w.run.max \in Nat
  BY Numbers DEF Asked
<1>3. /\ Kept(w.run, Heal(w.run, w.run.max \div 3)) /\ Kept(w.run, RaiseMax(w.run, 5))
      /\ \A r \in RelicWithCurse(w.run) : Kept(w.run, r)
  BY <1>2, Moves
<1> QED BY <1>1, <1>3, Steps, WaysOut DEF BigFish, BigFishMenu, Asked

\* The Cleric: paid for a cure or a removal.
LEMMA ClericSafe ==
  ASSUME NEW w, Asked(w, "Cleric"), NEW o \in ClericMenu(w)
  PROVE  AllSafe(Cleric(w, o))
<1> DEFINE r == w.run
           Paid(n) == [r EXCEPT !.gold = @ - n]
<1>1. 1 \in 0..FinalPage("Cleric") /\ Plain("Cleric", 1) /\ "purge" \in GridsOf("Cleric")
      /\ Plain("Cleric", 0)
  BY DEF FinalPage, Plain, GridsOf
<1>2. RunOK(r) /\ r.max \in Nat /\ r.gold \in Nat
  BY Numbers DEF Asked
<1>3. ASSUME NEW n \in 0..r.gold PROVE Kept(r, Paid(n))
  BY <1>2, <1>3, LessGold
<1>4. CASE w.ev.screen # 0
  BY <1>4, WaysOut DEF Cleric
<1>5. CASE w.ev.screen = 0 /\ o = 0
  <2>1. r.gold >= 35 /\ Percent(r.max, 25) \in Int
    BY <1>2, <1>5 DEF ClericMenu, Percent
  <2>2. Kept(r, Paid(35))
    BY <2>1, <1>2, <1>3
  <2>3. Kept(r, Heal(Paid(35), Percent(r.max, 25)))
    BY <2>1, <2>2, MoveOn, Moves
  <2> QED BY <1>1, <1>5, <2>3, Steps DEF Cleric, Asked
<1>6. CASE w.ev.screen = 0 /\ o = 1
  <2>1. r.gold >= cleric_purify_cost(r) /\ cleric_purify_cost(r) \in Nat
    BY <1>2, <1>6 DEF ClericMenu, cleric_purify_cost
  <2>2. Kept(r, Paid(cleric_purify_cost(r)))
    BY <2>1, <1>2, <1>3
  <2>3. Asked(On(w, Paid(cleric_purify_cost(r))), "Cleric")
    BY <2>2, <1>1, <1>6, OnSpeaks DEF Asked
  <2> QED BY <1>1, <1>6, <2>3, Steps, WaysOut DEF Cleric, Asked, AllSafe
<1>7. CASE w.ev.screen = 0 /\ o = 2
  BY <1>1, <1>7, Steps DEF Cleric, Asked, AllSafe
<1> QED BY <1>4, <1>5, <1>6, <1>7 DEF ClericMenu

\* The pages of the dialogs of the first act that write nothing down.
LEMMA GoldenIdolSafe ==
  ASSUME NEW w, Asked(w, "GoldenIdol"), NEW o \in GoldenIdolMenu(w)
  PROVE  AllSafe(GoldenIdol(w, o))
<1> DEFINE r == w.run
           n == Percent(r.max, IF r.hard THEN 35 ELSE 25)
           smashed == apply_event_damage(w, n, "none")
<1>1. {1, 2} \subseteq 0..FinalPage("GoldenIdol") /\ FinalPage("GoldenIdol") = 2
      /\ Plain("GoldenIdol", 1) /\ Plain("GoldenIdol", 2)
  BY DEF FinalPage, Plain
<1>2. RunOK(r) /\ r.max \in Nat /\ w.ev.screen \in 0..2
  BY <1>1, Numbers DEF Asked, Speaks, Talk, Safe, DialogOK, EvOK
<1>3. n \in Int /\ Most(1, Percent(r.max, IF r.hard THEN 10 ELSE 8)) \in Int
  BY <1>2 DEF Percent, Most
<1>4. Speaks(smashed, "GoldenIdol") /\ Safe(smashed)
  BY <1>3, WaysOut DEF Talked
<1>5. /\ Kept(r, AddCard(r, "regret"))
      /\ Kept(r, LowerMax(r, Most(1, Percent(r.max, IF r.hard THEN 10 ELSE 8))))
      /\ \A q \in Acquire(r, OrCirclet(r, "golden_idol")) : Kept(r, q)
  BY <1>2, <1>3, Moves
<1>6. Safe(At(smashed, 2))
  BY <1>1, <1>4, Steps
<1> HIDE DEF smashed, n
<1>7. IfAlive(smashed, {At(smashed, 2)}) \subseteq {smashed, At(smashed, 2)}
  BY DEF IfAlive
<1>8. CASE w.ev.screen = 0
  BY <1>1, <1>5, <1>8, Steps DEF GoldenIdol, GoldenIdolMenu, Asked, AllSafe
<1>9. CASE w.ev.screen = 1
  BY <1>1, <1>4, <1>5, <1>6, <1>7, <1>9, Steps
     DEF GoldenIdol, GoldenIdolMenu, Asked, AllSafe, smashed, n
<1>10. CASE w.ev.screen = 2
  BY <1>10, WaysOut DEF GoldenIdol
<1> QED BY <1>2, <1>8, <1>9, <1>10

\* Golden Wing: a wound for a removal, or gold.
LEMMA GoldenWingSafe ==
  ASSUME NEW w, Asked(w, "GoldenWing"), NEW o \in GoldenWingMenu(w)
  PROVE  AllSafe(GoldenWing(w, o))
<1> DEFINE r == w.run
           cut == apply_event_damage(w, 7, "player")
<1>1. {1, 2} \subseteq 0..FinalPage("GoldenWing") /\ FinalPage("GoldenWing") = 2
      /\ Plain("GoldenWing", 1) /\ Plain("GoldenWing", 2) /\ "purge" \in GridsOf("GoldenWing")
  BY DEF FinalPage, Plain, GridsOf
<1>2. RunOK(r) /\ w.ev.screen \in 0..2
  BY <1>1, Numbers DEF Asked, Speaks, Talk, Safe, DialogOK, EvOK
<1>4. Speaks(cut, "GoldenWing") /\ Safe(cut)
  BY WaysOut DEF Talked
<1>5. Kept(r, GainGold(r, 50))
  BY <1>2, Moves
<1>6. Safe(At(cut, 1))
  BY <1>1, <1>4, Steps
<1> HIDE DEF cut
<1>7. IfAlive(cut, {At(cut, 1)}) \subseteq {cut, At(cut, 1)}
  BY DEF IfAlive
<1>8. CASE w.ev.screen = 0
  BY <1>1, <1>4, <1>5, <1>6, <1>7, <1>8, Steps DEF GoldenWing, GoldenWingMenu, Asked, AllSafe, cut
<1>9. CASE w.ev.screen = 1
  BY <1>1, <1>9, Steps, WaysOut DEF GoldenWing, GoldenWingMenu, Asked, AllSafe
<1>10. CASE w.ev.screen = 2
  BY <1>10, WaysOut DEF GoldenWing
<1> QED BY <1>2, <1>8, <1>9, <1>10

\* The World of Goop: the gold it takes is still in the purse.
LEMMA WorldOfGoopSafe ==
  ASSUME NEW w, Asked(w, "WorldOfGoop"), NEW o \in WorldOfGoopMenu(w)
  PROVE  AllSafe(WorldOfGoop(w, o))
<1> DEFINE r == w.run
           hurt == apply_event_damage(w, 11, "player")
           rich == On(hurt, GainGold(hurt.run, 75))
<1>1. 1 \in 0..FinalPage("WorldOfGoop") /\ Plain("WorldOfGoop", 1)
  BY DEF FinalPage, Plain
<1>4. Speaks(hurt, "WorldOfGoop") /\ Safe(hurt) /\ hurt.phase \in {"dialog", "over"} /\ Harmed(w, hurt)
  BY WaysOut DEF Talked
<1>2. CASE w.ev.screen # 0
  BY <1>2, WaysOut DEF WorldOfGoop
<1>3. CASE w.ev.screen = 0 /\ o = 1
  <2>1. RunOK(r) /\ w.ev.a \in 0..r.gold
    BY <1>3, Numbers DEF Asked, Speaks, Talk, Safe, DialogOK, EvOK, SpecialOf
  <2>2. Kept(r, [r EXCEPT !.gold = @ - w.ev.a])
    BY <2>1, LessGold
  <2> QED BY <1>1, <1>3, <2>2, Steps DEF WorldOfGoop, Asked
<1>5. CASE w.ev.screen = 0 /\ o = 0
  <2>1. RunOK(hurt.run) /\ Kept(hurt.run, GainGold(hurt.run, 75))
    BY <1>4, Moves DEF Harmed
  <2>2. CASE hurt.phase = "over"
    <3>1. Safe(rich)
      BY <1>4, <2>1, <2>2, OnSpeaks DEF Speaks, Talk
    <3> QED BY <1>5, <2>2, <3>1 DEF WorldOfGoop, AllSafe
  <2>3. CASE hurt.phase = "dialog"
    <3>1. Safe(At(rich, 1))
      BY <1>1, <1>4, <2>1, Turned
    <3> QED BY <1>5, <2>3, <3>1 DEF WorldOfGoop, AllSafe
  <2> QED BY <1>4, <2>2, <2>3
<1> QED BY <1>2, <1>3, <1>5 DEF WorldOfGoopMenu

\* Outside the writers every page is plain.
LEMMA AlwaysPlain == ASSUME NEW id, id \notin Writers, NEW s PROVE Plain(id, s)
  BY DEF Plain, Writers

\* What follows a wound is done to the living only.
LEMMA AliveSafe ==
  ASSUME NEW w, Safe(w), NEW S, w.run.hp > 0 => AllSafe(S)
  PROVE  AllSafe(IfAlive(w, S))
  BY DEF IfAlive, AllSafe

\* The page a dialog is on.
LEMMA PageOf ==
  ASSUME NEW id, NEW w, Asked(w, id)
  PROVE  w.ev.screen \in 0..FinalPage(id) /\ w.run.hp > 0 /\ w.ev.id = id /\ SpecialOf(w.ev, w.run)
  BY DEF Asked, Speaks, Talk, Safe, DialogOK, EvOK

\* The Ssssserpent's gold and its curse.
LEMMA LiarsGameSafe ==
  ASSUME NEW w, Asked(w, "LiarsGame"), NEW o \in LiarsGameMenu(w)
  PROVE  AllSafe(LiarsGame(w, o))
<1> DEFINE r == w.run
           n == IF r.hard THEN 150 ELSE 175
<1>1. {1, 2, 3} \subseteq 0..FinalPage("LiarsGame") /\ \A s : Plain("LiarsGame", s)
  BY DEF FinalPage, Plain
<1>2. Kept(r, AddCard(r, "regret"))
  BY Numbers, Moves DEF Asked
<1>3. Kept(r, GainGold(AddCard(r, "regret"), n))
  BY <1>2, MoveOn, Moves
<1>4. CASE w.ev.screen = 0
  BY <1>1, <1>4, Steps DEF LiarsGame, Asked, AllSafe
<1>5. CASE w.ev.screen = 1
  BY <1>1, <1>3, <1>5, Steps DEF LiarsGame, Asked
<1>6. CASE w.ev.screen \notin {0, 1}
  BY <1>6, WaysOut DEF LiarsGame
<1> QED BY <1>4, <1>5, <1>6

\* The Living Wall: one of three grids.
LEMMA LivingWallSafe ==
  ASSUME NEW w, Asked(w, "LivingWall"), NEW o \in LivingWallMenu(w)
  PROVE  AllSafe(LivingWall(w, o))
<1>1. 1 \in 0..FinalPage("LivingWall") /\ (\A s : Plain("LivingWall", s))
      /\ {"purge", "transformable", "upgrade"} \subseteq GridsOf("LivingWall")
  BY DEF FinalPage, Plain, GridsOf
<1> QED BY <1>1, Steps, WaysOut DEF LivingWall, LivingWallMenu, Asked, AllSafe

\* The Mushrooms: a fight, or a cure and a curse.
LEMMA MushroomsSafe ==
  ASSUME NEW w, Asked(w, "Mushrooms"), NEW o \in MushroomsMenu(w)
  PROVE  AllSafe(Mushrooms(w, o))
<1> DEFINE r == w.run
           gilt == add_event_combat_gold_reward(ClearLoot(w), 20)
           spoils == add_event_combat_relic_reward(gilt, OrCirclet(w.run, "odd_mushroom"))
<1>1. {1, 2} \subseteq 0..FinalPage("Mushrooms") /\ FinalPage("Mushrooms") = 2 /\ \A s : Plain("Mushrooms", s)
  BY DEF FinalPage, Plain
<1>2. RunOK(r) /\ r.max \div 4 \in Int /\ w.ev.screen \in 0..2
  BY <1>1, Numbers, PageOf DEF Asked
<1>3. Kept(r, Heal(r, r.max \div 4))
  BY <1>2, Moves
<1>4. Kept(r, AddCard(Heal(r, r.max \div 4), "parasite"))
  BY <1>3, MoveOn, Moves
<1>5. Asked(ClearLoot(w), "Mushrooms")
  BY ClearSpeaks DEF Asked
<1>6. Asked(gilt, "Mushrooms")
  BY <1>5, GoldSpeaks DEF Asked
<1>7. Asked(spoils, "Mushrooms")
  BY <1>6, RelicRowSpeaks DEF Asked
<1>8. Safe(enter_event_combat(spoils, "lair"))
  BY <1>7, EnterSafe
<1>9. CASE w.ev.screen = 1
  BY <1>8, <1>9 DEF Mushrooms, AllSafe
<1>10. CASE w.ev.screen = 0
  BY <1>1, <1>4, <1>10, Steps DEF Mushrooms, MushroomsMenu, Asked, AllSafe
<1>11. CASE w.ev.screen = 2
  BY <1>11, WaysOut DEF Mushrooms
<1> QED BY <1>2, <1>9, <1>10, <1>11

\* Scrap Ooze: the price rises with every try, and may kill.
LEMMA ScrapOozeSafe ==
  ASSUME NEW w, Asked(w, "ScrapOoze"), NEW o \in ScrapOozeMenu(w)
  PROVE  AllSafe(ScrapOoze(w, o))
<1> DEFINE hurt == apply_event_damage(w, w.ev.b, "none")
           e == [hurt.ev EXCEPT !.a = w.ev.a + 10, !.b = w.ev.b + 1]
           missed == [hurt EXCEPT !.ev.a = w.ev.a + 10, !.ev.b = w.ev.b + 1]
<1>1. 1 \in 0..FinalPage("ScrapOoze") /\ \A s : Plain("ScrapOoze", s)
  BY DEF FinalPage, Plain
<1>2. w.ev.a \in Int /\ w.ev.b \in Int
  BY Numbers DEF Asked
<1>3. Speaks(hurt, "ScrapOoze") /\ Harmed(w, hurt) /\ Talked(w, hurt, "ScrapOoze")
  BY <1>2, WaysOut DEF Talked
<1> HIDE DEF hurt
<1>4. \A r \in EventRelicRuns(hurt.run) : Kept(hurt.run, r)
  BY <1>3, Moves DEF Harmed
<1>5. AllSafe(Turn(hurt, 1, EventRelicRuns(hurt.run)))
  BY <1>1, <1>3, <1>4, Steps
<1>6. missed = [hurt EXCEPT !.run = hurt.run, !.ev = e]
  BY <1>3 DEF Speaks, Talk, Safe, Common, WShape, WorldFields
<1>7. EvShape(e) /\ e.id = hurt.ev.id /\ e.screen = hurt.ev.screen /\ e.grid = hurt.ev.grid
  <2>1. EvShape(hurt.ev)
    BY <1>3 DEF Speaks, Talk, Safe, Common
  <2>2. w.ev.a + 10 \in Int /\ w.ev.b + 1 \in Int
    BY <1>2
  <2> QED BY <2>1, <2>2 DEF EvShape, EvFields
<1> HIDE DEF e
<1>8. hurt.phase = "dialog" => hurt.ev = w.ev
  BY <1>3 DEF Talked
<1>9. Safe(missed)
  <2>1. w.ev.screen \in 0..FinalPage("ScrapOoze")
    BY PageOf
  <2>2. Kept(hurt.run, hurt.run)
    BY <1>3, Numbers
  <2>3. Talk(hurt) /\ (hurt.phase = "dialog" => /\ hurt.ev.id = "ScrapOoze" /\ e.id = "ScrapOoze"
                                                /\ e.screen \in 0..FinalPage("ScrapOoze")
                                                /\ e.grid = "none" /\ Plain("ScrapOoze", e.screen))
    BY <1>1, <1>3, <1>7, <1>8, <2>1 DEF Speaks
  <2>4. Safe([hurt EXCEPT !.run = hurt.run, !.ev = e])
    BY <1>7, <2>2, <2>3, EventSpeaks
  <2> HIDE DEF missed
  <2> QED BY <1>6, <2>4
<1> HIDE DEF missed
<1>10. CASE w.ev.screen # 0
  BY <1>10, WaysOut DEF ScrapOoze
<1>11. CASE w.ev.screen = 0 /\ o = 1
  BY <1>1, <1>11, Steps DEF ScrapOoze, Asked, AllSafe
<1>12. CASE w.ev.screen = 0 /\ o = 0
  <2>1. ScrapOoze(w, o) \subseteq Turn(hurt, 1, EventRelicRuns(hurt.run)) \cup {missed}
    BY <1>12 DEF ScrapOoze, hurt, missed
  <2> QED BY <1>5, <1>9, <2>1 DEF AllSafe
<1> QED BY <1>10, <1>11, <1>12 DEF ScrapOozeMenu

\* The Shining Light: a wound, then upgrades for the living.
LEMMA ShiningLightSafe ==
  ASSUME NEW w, Asked(w, "ShiningLight"), NEW o \in ShiningLightMenu(w)
  PROVE  AllSafe(ShiningLight(w, o))
<1> DEFINE n == RoundedPercent(w.run.max, IF w.run.hard THEN 30 ELSE 20)
           hurt == apply_event_damage(w, n, "player")
<1>1. 1 \in 0..FinalPage("ShiningLight") /\ \A s : Plain("ShiningLight", s)
  BY DEF FinalPage, Plain
<1>2. n \in Int
  BY Numbers DEF Asked, RoundedPercent
<1>3. Speaks(hurt, "ShiningLight") /\ Harmed(w, hurt)
  BY <1>2, WaysOut DEF Talked
<1>4. \A q \in UpgradeSome(hurt.run, Upgradeable(hurt.run), 2) : Kept(hurt.run, q)
  BY <1>3, Moves DEF Harmed
<1>5. AllSafe(Turn(hurt, 1, UpgradeSome(hurt.run, Upgradeable(hurt.run), 2)))
  BY <1>1, <1>3, <1>4, Steps
<1> QED BY <1>1, <1>5, Steps, WaysOut DEF ShiningLight, ShiningLightMenu, Asked, AllSafe

\* The finds that come with the Dead Adventurer's fight, as a fold.
DeadOp(p, a, x) ==
  IF x < p[1].ev.b + 1 THEN a
  ELSE CASE p[1].ev.board[x] = "gold" -> {add_event_combat_gold_reward(v, 30) : v \in a}
         [] p[1].ev.board[x] = "relic" -> UNION {RelicRowRuns(v) : v \in a}
         [] OTHER -> a
DeadGood(p, n, a) == \A v \in a : Asked(v, "DeadAdventurer") /\ v.ev.screen = 1
DeadFold == INSTANCE FoldFacts WITH Op <- DeadOp, Good <- DeadGood

\* dead_add_remaining_combat_rewards is that fold.
LEMMA DeadFolds ==
  ASSUME NEW p
  PROVE  dead_add_remaining_combat_rewards(p[1]) = DeadFold!Folded(p, {p[1]}, <<1, 2, 3>>)
  BY Zenon DEF DeadFold!Folded, dead_add_remaining_combat_rewards, DeadOp, 
     DeadFold!MapThenFoldSet, FoldLeft, MapThenFoldSet, DeadFold!Greatest, Max

\* A relic drawn for the reward screen.
LEMMA RelicRowsSafe ==
  ASSUME NEW id, NEW w, Asked(w, id), Plain(id, w.ev.screen)
  PROVE  \A v \in RelicRowRuns(w) : Asked(v, id) /\ v.ev = w.ev
<1> DEFINE d(t) == DrawRelic(w.run, t, FALSE)
           u(t) == add_event_combat_relic_reward(On(w, d(t).run), d(t).got)
<1>1. ASSUME NEW t PROVE Asked(u(t), id) /\ u(t).ev = w.ev
  <2>1. Kept(w.run, d(t).run)
    BY Numbers, Moves DEF Asked
  <2> HIDE DEF d
  <2>2. Asked(On(w, d(t).run), id) /\ On(w, d(t).run).ev = w.ev
    BY <2>1, OnSpeaks DEF Asked
  <2> QED BY <2>2, RelicRowSpeaks DEF Asked
<1>2. RelicRowRuns(w) = {u(t) : t \in RollTiers}
  BY DEF RelicRowRuns
<1> HIDE DEF u
<1> QED BY <1>1, <1>2

\* The finds not yet made are added to the fight's rewards.
LEMMA DeadRewards ==
  ASSUME NEW w, Asked(w, "DeadAdventurer"), w.ev.screen = 1
  PROVE  \A v \in dead_add_remaining_combat_rewards(w) : Asked(v, "DeadAdventurer")
<1> DEFINE p == <<w>>
           seq == <<1, 2, 3>>
<1>1. p[1] = w /\ Len(seq) = 3
  OBVIOUS
<1>2. dead_add_remaining_combat_rewards(w) = DeadFold!Folded(p, {w}, seq)
  BY <1>1, DeadFolds
<1>3. DeadGood(p, 0, {w})
  BY DEF DeadGood
<1>4. ASSUME NEW i \in 1..Len(seq), NEW a, DeadGood(p, i - 1, a)
      PROVE  DeadGood(p, i, DeadOp(p, a, seq[i]))
  <2>1. \A v \in a : /\ Asked(add_event_combat_gold_reward(v, 30), "DeadAdventurer")
                     /\ add_event_combat_gold_reward(v, 30).ev.screen = 1
    BY <1>4, GoldSpeaks DEF DeadGood, Asked
  <2>2. \A v \in a : \A u \in RelicRowRuns(v) : Asked(u, "DeadAdventurer") /\ u.ev.screen = 1
    <3>1. Plain("DeadAdventurer", 1)
      BY DEF Plain
    <3> QED BY <1>4, <3>1, RelicRowsSafe DEF DeadGood
  <2>3. DeadOp(p, a, seq[i]) \in {a, {add_event_combat_gold_reward(v, 30) : v \in a},
                                 UNION {RelicRowRuns(v) : v \in a}}
    BY DEF DeadOp
  <2> QED BY <1>4, <2>1, <2>2, <2>3 DEF DeadGood
<1>5. seq \in Seq(1..3)
  OBVIOUS
<1> HIDE DEF seq, p
<1>6. DeadGood(p, Len(seq), DeadFold!Folded(p, {w}, seq))
  BY <1>3, <1>4, <1>5, DeadFold!FoldKeeps
<1> QED BY <1>2, <1>6 DEF DeadGood

\* A search that finds nothing, gold or a relic.
LEMMA SearchSafe ==
  ASSUME NEW w, Asked(w, "DeadAdventurer"), w.ev.screen = 0, NEW r, Kept(w.run, r)
  PROVE  LET n == w.ev.b + 1
             searched == [w EXCEPT !.ev.b = n, !.ev.screen = IF n = 3 THEN 2 ELSE 0]
         IN  Safe(On(searched, r))
<1> DEFINE n == w.ev.b + 1
           s == IF n = 3 THEN 2 ELSE 0
           e == [w.ev EXCEPT !.b = n, !.screen = s]
           v == On([w EXCEPT !.ev.b = n, !.ev.screen = s], r)
<1>1. w.ev.b \in 0..2 /\ w.ev.board \in [1..3 -> {"gold", "nothing", "relic"}]
  BY PageOf DEF SpecialOf
<1>2. n \in 1..3 /\ s \in {0, 2} /\ (s = 0 => n \in 0..2)
  BY <1>1
<1> HIDE DEF n, s
<1>3. /\ WShape(v) /\ v.run = r /\ v.ev = e /\ v.phase = w.phase
      /\ v.loot = w.loot /\ v.room = w.room /\ v.pend = w.pend
  BY DEF On, Asked, Speaks, Talk, Safe, Common, WShape, WorldFields
<1> HIDE DEF v
<1>4. EvShape(e) /\ e.id = w.ev.id /\ e.screen = s /\ e.grid = w.ev.grid /\ e.b = n /\ e.board = w.ev.board
  <2>1. EvShape(w.ev)
    BY DEF Asked, Speaks, Talk, Safe, Common
  <2>2. n \in Int /\ s \in Int
    BY <1>2
  <2> QED BY <2>1, <2>2 DEF EvShape, EvFields
<1> HIDE DEF e
<1>5. EvOK(v.ev, v.run)
  BY <1>1, <1>2, <1>3, <1>4 DEF EvOK, SpecialOf, Asked, Speaks, Talk, Safe, DialogOK, FinalPage
<1>6. Safe(v)
  BY <1>3, <1>4, <1>5 DEF Asked, Speaks, Talk, Safe, Common, DialogOK, Kept, Alive
<1> QED BY <1>6 DEF v, n, s

\* The Dead Adventurer: searches, and the fight one of them may wake.
LEMMA DeadAdventurerSafe ==
  ASSUME NEW w, Asked(w, "DeadAdventurer"), NEW o \in DeadAdventurerMenu(w)
  PROVE  AllSafe(DeadAdventurer(w, o))
<1> DEFINE n == w.ev.b + 1
           find == w.ev.board[n]
           searched == [w EXCEPT !.ev.b = n, !.ev.screen = IF n = 3 THEN 2 ELSE 0]
           gilt == add_event_combat_gold_reward(w, 25)
<1>1. {1, 2} \subseteq 0..FinalPage("DeadAdventurer") /\ FinalPage("DeadAdventurer") = 2
      /\ Plain("DeadAdventurer", 1) /\ Plain("DeadAdventurer", 2)
  BY DEF FinalPage, Plain
<1>2. w.ev.screen \in 0..2
  BY <1>1, PageOf
<1>3. CASE w.ev.screen = 1
  <2>1. \A v \in dead_add_remaining_combat_rewards(w) : \A foes :
          Safe([enter_event_combat(v, foes) EXCEPT !.ev = NoEvent])
    BY <1>3, DeadRewards, EnterSafe
  <2> QED BY <1>3, <2>1 DEF DeadAdventurer, AllSafe
<1>4. CASE w.ev.screen = 2
  BY <1>4, WaysOut DEF DeadAdventurer
<1>5. CASE w.ev.screen = 0 /\ o = 1
  BY <1>1, <1>5, Steps DEF DeadAdventurer, Asked, AllSafe
<1>6. CASE w.ev.screen = 0 /\ o = 0
  <2>1. Safe(At(gilt, 1))
    <3>1. Speaks(gilt, "DeadAdventurer")
      BY GoldSpeaks DEF Asked
    <3> QED BY <1>1, <3>1, Steps
  <2>2. \A r : Kept(w.run, r) => Safe(On(searched, r))
    BY <1>6, SearchSafe
  <2>3. On(searched, w.run) = searched
    BY DEF On, Asked, Speaks, Talk, Safe, Common, WShape, WorldFields
  <2>4. find \in {"gold", "nothing", "relic"}
    BY <1>6, PageOf DEF SpecialOf
  <2>5. /\ Kept(w.run, w.run) /\ Kept(w.run, GainGold(w.run, 30))
        /\ \A r \in EventRelicRuns(w.run) : Kept(w.run, r)
    BY Numbers, Moves DEF Asked
  <2>6. DeadAdventurer(w, o) \subseteq {At(gilt, 1), searched, On(searched, GainGold(w.run, 30))}
                                        \cup {On(searched, r) : r \in EventRelicRuns(w.run)}
    BY <1>6, <2>4 DEF DeadAdventurer
  <2> HIDE DEF gilt, searched
  <2> QED BY <2>1, <2>2, <2>3, <2>5, <2>6 DEF AllSafe
<1> QED BY <1>2, <1>3, <1>4, <1>5, <1>6 DEF DeadAdventurerMenu

\* A page whose grid opens when there is a card for it.
LEMMA GridOrPage ==
  ASSUME NEW id, NEW w, Asked(w, id), NEW s \in 0..FinalPage(id), Plain(id, s),
         NEW kind \in GridsOf(id) \ {"pair_second"}, id = "Wheel" => s = 3, id # "DrugDealer", NEW v
  PROVE  LET c == grid_has_card(v, kind)
         IN  /\ Safe(At(IF c THEN OpenGrid(w, kind) ELSE w, s))
             /\ Safe(IF c THEN OpenGrid(At(w, s), kind) ELSE At(w, s))
<1>1. Safe(OpenGrid(At(w, s), kind)) /\ Safe(At(w, s))
  BY Steps DEF Asked
<1>2. At(OpenGrid(w, kind), s) = OpenGrid(At(w, s), kind)
  BY GridThenPage DEF Asked
<1>3. CASE grid_has_card(v, kind)
  BY <1>1, <1>2, <1>3
<1>4. CASE ~grid_has_card(v, kind)
  BY <1>1, <1>4
<1> QED BY <1>3, <1>4

-----------------------------------------------------------------------------
\* The dialogs of the second act.
LEMMA AddictSafe ==
  ASSUME NEW w, Asked(w, "Addict"), NEW o \in AddictMenu(w)
  PROVE  AllSafe(Addict(w, o))
<1> DEFINE r == w.run
           d(t) == DrawScreenless(r, t)
           bought == UNION {Acquire(LoseGold(d(t).run, 85), d(t).got) : t \in RollTiers}
<1>1. 1 \in 0..FinalPage("Addict") /\ \A s : Plain("Addict", s)
  BY DEF FinalPage, Plain
<1>2. RunOK(r) /\ \A q \in RelicWithCurse(r) : Kept(r, q)
  BY Numbers, Moves DEF Asked
<1>3. ASSUME NEW t PROVE \A q \in Acquire(LoseGold(d(t).run, 85), d(t).got) : Kept(r, q)
  <2>1. Kept(r, d(t).run)
    BY <1>2, Moves
  <2> HIDE DEF d
  <2>2. Kept(r, LoseGold(d(t).run, 85))
    BY <2>1, MoveOn, Moves
  <2> QED BY <2>2, MoveOn, Moves
<1>4. AllSafe(Turn(w, 1, bought))
  <2>1. \A q \in bought : Kept(r, q)
    BY <1>3
  <2> HIDE DEF bought
  <2> QED BY <1>1, <2>1, Steps DEF Asked
<1>5. CASE w.ev.screen # 0 \/ o = 2
  BY <1>5, WaysOut DEF Addict
<1>6. CASE w.ev.screen = 0 /\ o = 0
  BY <1>4, <1>6 DEF Addict
<1>7. CASE w.ev.screen = 0 /\ o = 1
  BY <1>1, <1>2, <1>7, Steps DEF Addict, Asked
<1> QED BY <1>5, <1>6, <1>7 DEF AddictMenu

\* Ancient Writing: a removal, or the strikes and defends upgraded.
LEMMA BackToBasicsSafe ==
  ASSUME NEW w, Asked(w, "BackToBasics"), NEW o \in BackToBasicsMenu(w)
  PROVE  AllSafe(BackToBasics(w, o))
<1>1. 1 \in 0..FinalPage("BackToBasics") /\ (\A s : Plain("BackToBasics", s))
      /\ "purge" \in GridsOf("BackToBasics")
  BY DEF FinalPage, Plain, GridsOf
<1>2. \A s : Kept(w.run, UpgradeSet(w.run, s))
  BY Numbers, Moves DEF Asked
<1>3. CASE w.ev.screen # 0
  BY <1>3, WaysOut DEF BackToBasics
<1>4. CASE w.ev.screen = 0 /\ o = 0
  <2> DEFINE v == At(IF grid_has_card(w.run, "purge") THEN OpenGrid(w, "purge") ELSE w, 1)
  <2>1. Safe(v)
    BY <1>1, GridOrPage
  <2>2. BackToBasics(w, o) = {v}
    BY <1>4 DEF BackToBasics
  <2> QED BY <2>1, <2>2 DEF AllSafe
<1>5. CASE w.ev.screen = 0 /\ o = 1
  <2> DEFINE starters == {i \in Upgradeable(w.run) : w.run.deck[i].k \in {"strike", "defend"}}
  <2>1. BackToBasics(w, o) = Turn(w, 1, {UpgradeSet(w.run, starters)})
    BY <1>5 DEF BackToBasics
  <2> HIDE DEF starters
  <2> QED BY <1>1, <1>2, <2>1, Steps DEF Asked
<1> QED BY <1>3, <1>4, <1>5 DEF BackToBasicsMenu

\* The Old Beggar: a removal for gold.
LEMMA BeggarSafe ==
  ASSUME NEW w, Asked(w, "Beggar"), NEW o \in BeggarMenu(w)
  PROVE  AllSafe(Beggar(w, o))
<1>1. {1, 2} \subseteq 0..FinalPage("Beggar") /\ FinalPage("Beggar") = 2 /\ (\A s : Plain("Beggar", s))
      /\ "purge" \in GridsOf("Beggar")
  BY DEF FinalPage, Plain, GridsOf
<1>2. Kept(w.run, LoseGold(w.run, 75)) /\ w.ev.screen \in 0..2
  BY <1>1, Numbers, Moves, PageOf DEF Asked
<1>3. CASE w.ev.screen = 0
  <2>1. AllSafe(Turn(w, 1, {LoseGold(w.run, 75)})) /\ Safe(At(w, 2))
    BY <1>1, <1>2, Steps DEF Asked
  <2>2. o \in {0, 1}
    BY <1>3 DEF BeggarMenu
  <2> QED BY <1>3, <2>1, <2>2 DEF Beggar, AllSafe
<1>4. CASE w.ev.screen = 1
  <2> DEFINE v == At(IF grid_has_card(w.run, "purge") THEN OpenGrid(w, "purge") ELSE w, 2)
  <2>1. Safe(v)
    BY <1>1, GridOrPage
  <2>2. Beggar(w, o) = {v}
    BY <1>4 DEF Beggar
  <2> QED BY <2>1, <2>2 DEF AllSafe
<1>5. CASE w.ev.screen = 2
  BY <1>5, WaysOut DEF Beggar
<1> QED BY <1>2, <1>3, <1>4, <1>5

\* The Cursed Tome: every page turned is a wound, and the book comes to the living.
LEMMA CursedTomeSafe ==
  ASSUME NEW w, Asked(w, "CursedTome"), NEW o \in CursedTomeMenu(w)
  PROVE  AllSafe(CursedTome(w, o))
<1> DEFINE cost == CASE w.ev.screen \in 1..3 -> w.ev.screen
                     [] w.ev.screen = 4 /\ o # 0 -> 3
                     [] OTHER -> IF w.run.hard THEN 15 ELSE 10
           hurt == apply_event_damage(w, cost, "none")
           Found(b) == OpenLoot(add_event_combat_relic_reward(ClearLoot(hurt), b))
<1>1. FinalPage("CursedTome") = 5 /\ \A s : Plain("CursedTome", s)
  BY DEF FinalPage, Plain
<1>2. w.ev.screen \in 0..5
  BY <1>1, PageOf
<1>3. cost \in Int
  BY <1>2
<1>4. Speaks(hurt, "CursedTome") /\ Safe(hurt)
  BY <1>3, WaysOut DEF Talked
<1>5. CASE w.ev.screen = 0
  BY <1>1, <1>5, Steps DEF CursedTome, Asked, AllSafe
<1>6. CASE w.ev.screen \in 1..3 \/ (w.ev.screen = 4 /\ o # 0)
  <2> HIDE DEF hurt
  <2>1. w.ev.screen + 1 \in 0..5
    BY <1>2, <1>6
  <2>4. Safe(At(hurt, w.ev.screen + 1))
    BY <1>1, <1>4, <2>1, Steps
  <2>2. AllSafe(IfAlive(hurt, {At(hurt, w.ev.screen + 1)}))
    BY <1>4, <2>4 DEF AllSafe, IfAlive
  <2>3. CursedTome(w, o) = IfAlive(hurt, {At(hurt, w.ev.screen + 1)})
    BY <1>6 DEF CursedTome, hurt
  <2> QED BY <2>2, <2>3
<1>7. CASE w.ev.screen = 4 /\ o = 0
  <2>1. ASSUME NEW b, hurt.run.hp > 0 PROVE Safe(Found(b))
    <3> HIDE DEF hurt
    <3>1. Speaks(ClearLoot(hurt), "CursedTome") /\ ClearLoot(hurt).run = hurt.run
      BY <1>4, ClearSpeaks
    <3>2. LET v == add_event_combat_relic_reward(ClearLoot(hurt), b)
          IN  Speaks(v, "CursedTome") /\ v.run = hurt.run
      BY <3>1, RelicRowSpeaks
    <3> QED BY <2>1, <3>2, OpenLootSafe DEF Speaks
  <2>2. CursedTome(w, o) = IfAlive(hurt, {Found(b) : b \in tome_random_book(w.run)})
    BY <1>7 DEF CursedTome
  <2> HIDE DEF Found, hurt
  <2>3. AllSafe(IfAlive(hurt, {Found(b) : b \in tome_random_book(w.run)}))
    BY <1>4, <2>1, AliveSafe DEF AllSafe
  <2> QED BY <2>2, <2>3
<1>8. CASE w.ev.screen = 5
  BY <1>8, WaysOut DEF CursedTome
<1> QED BY <1>2, <1>5, <1>6, <1>7, <1>8

\* The first of the two cards is a card of the deck still when the second is
\* chosen: a grid that is open lets nothing else happen to the deck.
LEMMA DrugDealerSafe ==
  ASSUME NEW w, Asked(w, "DrugDealer"), NEW o \in DrugDealerMenu(w)
  PROVE  AllSafe(DrugDealer(w, o))
<1>1. 1 \in 0..FinalPage("DrugDealer") /\ Plain("DrugDealer", 1)
      /\ "transformable_any" \in GridsOf("DrugDealer")
  BY DEF FinalPage, Plain, GridsOf
<1>2. /\ Kept(w.run, AddCard(w.run, "trick"))
      /\ \A q \in Acquire(w.run, OrCirclet(w.run, "mutagenic")) : Kept(w.run, q)
  BY Numbers, Moves DEF Asked
<1>3. CASE w.ev.screen # 0
  BY <1>3, WaysOut DEF DrugDealer
<1>4. CASE w.ev.screen = 0 /\ o = 1
  BY <1>1, <1>4, WaysOut DEF DrugDealer, AllSafe
<1>5. CASE w.ev.screen = 0 /\ o \in {0, 2}
  BY <1>1, <1>2, <1>5, Steps DEF DrugDealer, Asked
<1> QED BY <1>3, <1>4, <1>5 DEF DrugDealerMenu

\* The Augmenter's grid: the first card is remembered, both are transformed.
LEMMA DrugDealerPickSafe ==
  ASSUME NEW w, Gridded(w, "DrugDealer"), w.ev.grid = "transformable_any",
         NEW i \in event_grid_card_legal(w)
  PROVE  AllSafe(DrugDealerPick(w, i))
<1> DEFINE r == w.run
           first == w.ev.a
           k1 == r.deck[first].k
           k2 == r.deck[i].k
           once == RemoveCard(r, Most(first, i))
           left == RemoveCard(once, Least(first, i))
           done == [w EXCEPT !.ev.grid = "none", !.ev.a = 0, !.ev.screen = 1]
           e == [w.ev EXCEPT !.grid = "none", !.a = 0, !.screen = 1]
<1>1. 1 \in 0..FinalPage("DrugDealer") /\ Plain("DrugDealer", 1)
  BY DEF FinalPage, Plain
<1>2. /\ RunOK(r) /\ r.hp > 0 /\ EvShape(w.ev) /\ w.ev.id = "DrugDealer" /\ WShape(w)
      /\ EvOK(w.ev, r) /\ LootOK(w.loot) /\ w.room = "event" /\ w.pend = "none" /\ Talk(w)
  BY DEF Gridded, Talk, Safe, Common, DialogOK
<1>3. i \in DOMAIN r.deck /\ DOMAIN r.deck = 1..Len(r.deck) /\ Len(r.deck) \in Nat
  BY <1>2, GridInDeck, DeckPlaces DEF event_grid_card_legal, RunOK, Body
<1>4. CASE first = 0
  <2> DEFINE v == [w EXCEPT !.ev.a = i]
             f == [w.ev EXCEPT !.a = i]
  <2>1. /\ WShape(v) /\ v.run = r /\ v.ev = f /\ v.phase = w.phase
        /\ v.loot = w.loot /\ v.room = w.room /\ v.pend = w.pend
    BY <1>2 DEF WShape, WorldFields
  <2>2. EvShape(f) /\ f.id = "DrugDealer" /\ f.grid = w.ev.grid /\ f.screen = w.ev.screen /\ f.a = i
    BY <1>2, <1>3 DEF EvShape, EvFields
  <2>3. EvOK(f, r)
    BY <1>2, <1>3, <2>2 DEF EvOK, SpecialOf, GridsOf
  <2>4. DrugDealerPick(w, i) = {v}
    BY <1>3, <1>4 DEF DrugDealerPick
  <2> HIDE DEF v, f
  <2>5. Safe(v)
    BY <1>2, <2>1, <2>2, <2>3 DEF Gridded, Talk, Safe, Common, DialogOK
  <2> QED BY <2>4, <2>5 DEF AllSafe
<1>5. CASE first = i
  <2>1. DrugDealerPick(w, i) = {w}
    BY <1>3, <1>5 DEF DrugDealerPick
  <2> QED BY <1>2, <2>1 DEF AllSafe, Talk
<1>7. w.ev.screen = 0
  BY <1>2 DEF EvOK, SpecialOf
<1>6. CASE first \notin {0, i}
  <2>1. first \in DOMAIN r.deck
    BY <1>2, <1>6, <1>7 DEF EvOK, SpecialOf
  <2>2. /\ Most(first, i) \in DOMAIN r.deck /\ Least(first, i) \in 1..(Len(r.deck) - 1)
    BY <1>3, <1>6, <2>1 DEF Most, Least
  <2>3. Kept(r, once) /\ Len(once.deck) = Len(r.deck) - 1
    BY <1>2, <2>2, RemoveKeeps DEF Doored
  <2>4. Least(first, i) \in DOMAIN once.deck
    BY <2>2, <2>3, DeckPlaces DEF Kept, RunOK, Body
  <2> HIDE DEF once
  <2>5. Kept(r, left)
    BY <2>3, <2>4, MoveOn, Moves
  <2> HIDE DEF left
  <2>6. ASSUME NEW n1, NEW n2 PROVE Kept(r, AddCard(AddCard(left, n1), n2))
    <3>1. Kept(r, AddCard(left, n1))
      BY <2>5, MoveOn, Moves
    <3> QED BY <3>1, MoveOn, Moves
  <2>7. \A q : On(done, q) = [w EXCEPT !.run = q, !.ev = e]
    BY <1>2 DEF On, WShape, WorldFields
  <2>8. EvShape(e) /\ e.id = "DrugDealer" /\ e.screen = 1 /\ e.grid = "none"
    <3>1. w.ev.b \in Int /\ w.ev.c \in Int /\ w.ev.d \in Int
      BY <1>2 DEF EvShape
    <3>2. e = [x \in EvFields |-> e[x]] /\ e.id = "DrugDealer" /\ e.screen = 1 /\ e.grid = "none"
          /\ e.a = 0 /\ e.b = w.ev.b /\ e.c = w.ev.c /\ e.d = w.ev.d
      BY <1>2 DEF EvShape, EvFields
    <3> HIDE DEF e
    <3> QED BY <3>1, <3>2 DEF EvShape
  <2> HIDE DEF e, done
  <2>9. \A q : Kept(r, q) => Safe(On(done, q))
    <3> SUFFICES ASSUME NEW q, Kept(r, q) PROVE Safe(On(done, q))
      OBVIOUS
    <3>1. /\ w.ev.id = "DrugDealer" /\ e.id = "DrugDealer" /\ e.screen \in 0..FinalPage("DrugDealer")
          /\ e.grid = "none" /\ Plain("DrugDealer", e.screen)
      BY <1>1, <1>2, <2>8
    <3>2. Safe([w EXCEPT !.run = q, !.ev = e])
      BY <1>2, <2>8, <3>1, EventSpeaks
    <3> QED BY <2>7, <3>2
  <2>10. DrugDealerPick(w, i) = {On(done, AddCard(AddCard(left, n1), n2)) :
                                  n1 \in TransformsOf(k1), n2 \in TransformsOf(k2)}
    BY <1>3, <1>6 DEF DrugDealerPick, done, left, once
  <2> HIDE DEF k1, k2
  <2> QED BY <2>6, <2>9, <2>10 DEF AllSafe
<1> QED BY <1>4, <1>5, <1>6, <1>7

\* What a dialog puts on the reward screen leaves it asked as before.
LEMMA Prizes ==
  ASSUME NEW id, NEW w, Asked(w, id)
  PROVE  /\ Asked(ClearLoot(w), id) /\ ClearLoot(w).run = w.run /\ ClearLoot(w).ev = w.ev
         /\ \A x : LET v == add_event_combat_relic_reward(w, x)
                   IN  Asked(v, id) /\ v.run = w.run /\ v.ev = w.ev
         /\ \A n \in Int : LET v == add_event_combat_gold_reward(w, n)
                           IN  Asked(v, id) /\ v.run = w.run /\ v.ev = w.ev
         /\ \A r : Kept(w.run, r) /\ Plain(id, w.ev.screen) =>
              Asked(On(w, r), id) /\ On(w, r).run = r /\ On(w, r).ev = w.ev
<1>1. Speaks(w, id) /\ w.phase = "dialog"
  BY DEF Asked
<1>2. Asked(ClearLoot(w), id) /\ ClearLoot(w).run = w.run /\ ClearLoot(w).ev = w.ev
  BY <1>1, ClearSpeaks DEF Asked
<1>3. ASSUME NEW x
      PROVE  LET v == add_event_combat_relic_reward(w, x)
             IN  Asked(v, id) /\ v.run = w.run /\ v.ev = w.ev
  BY <1>1, RelicRowSpeaks DEF Asked
<1>4. ASSUME NEW n \in Int
      PROVE  LET v == add_event_combat_gold_reward(w, n)
             IN  Asked(v, id) /\ v.run = w.run /\ v.ev = w.ev
  BY <1>1, GoldSpeaks DEF Asked
<1>5. ASSUME NEW r, Kept(w.run, r), Plain(id, w.ev.screen)
      PROVE  Asked(On(w, r), id) /\ On(w, r).run = r /\ On(w, r).ev = w.ev
  BY <1>1, <1>5, OnSpeaks DEF Asked
<1> QED BY <1>2, <1>3, <1>4, <1>5

\* The price of the altar is paid by a run the five max hp have come to.
LEMMA ForgottenAltarSafe ==
  ASSUME NEW w, Asked(w, "ForgottenAltar"), NEW o \in ForgottenAltarMenu(w)
  PROVE  AllSafe(ForgottenAltar(w, o))
<1> DEFINE r == w.run
           grown == On(w, RaiseMax(r, 5))
           bled == apply_event_damage(grown, w.ev.a, "none")
<1>1. 1 \in 0..FinalPage("ForgottenAltar") /\ (\A s : Plain("ForgottenAltar", s))
  BY DEF FinalPage, Plain
<1>2. RunOK(r) /\ w.ev.a \in Int
  BY Numbers DEF Asked
<1>3. /\ \A q \in Acquire(r, "circlet") : Kept(r, q)
      /\ Kept(r, SwapRelic(r, "golden_idol", "bloody_idol"))
      /\ Kept(r, AddCard(r, "regret")) /\ Kept(r, RaiseMax(r, 5))
  BY <1>2, Moves, SwapKept
<1>4. CASE w.ev.screen # 0
  BY <1>4, WaysOut DEF ForgottenAltar
<1>5. CASE w.ev.screen = 0 /\ o = 0
  <2> DEFINE R == IF Owns(r, "bloody_idol") THEN Acquire(r, "circlet")
                  ELSE {SwapRelic(r, "golden_idol", "bloody_idol")}
  <2>1. \A q \in R : Kept(r, q)
    BY <1>3
  <2>2. ForgottenAltar(w, o) = Turn(w, 1, R)
    BY <1>5 DEF ForgottenAltar
  <2> HIDE DEF R
  <2> QED BY <1>1, <2>1, <2>2, Steps DEF Asked
<1>6. CASE w.ev.screen = 0 /\ o = 1
  <2>1. Asked(grown, "ForgottenAltar")
    BY <1>1, <1>3, Prizes
  <2> HIDE DEF grown
  <2>2. Speaks(bled, "ForgottenAltar") /\ Safe(bled)
    BY <1>2, <2>1, WaysOut DEF Talked
  <2>3. ForgottenAltar(w, o) = IfAlive(bled, {At(bled, 1)})
    BY <1>6 DEF ForgottenAltar, grown
  <2> HIDE DEF bled
  <2>4. Safe(At(bled, 1))
    BY <1>1, <2>2, Steps
  <2> QED BY <2>2, <2>3, <2>4, AliveSafe DEF AllSafe
<1>7. CASE w.ev.screen = 0 /\ o = 2
  BY <1>1, <1>3, <1>7, Steps DEF ForgottenAltar, Asked
<1> QED BY <1>4, <1>5, <1>6, <1>7 DEF ForgottenAltarMenu

\* The Ghosts: half of the ceiling for Apparitions.
LEMMA GhostsSafe ==
  ASSUME NEW w, Asked(w, "Ghosts"), NEW o \in GhostsMenu(w)
  PROVE  AllSafe(Ghosts(w, o))
<1> DEFINE r == w.run
           n == IF r.hard THEN 3 ELSE 5
           q == AddCards(LowerMax(r, w.ev.a), "trick", n)
<1>1. 1 \in 0..FinalPage("Ghosts") /\ (\A s : Plain("Ghosts", s))
  BY DEF FinalPage, Plain
<1>2. Kept(r, LowerMax(r, w.ev.a)) /\ n \in Nat
  BY Numbers, Moves DEF Asked
<1>3. Kept(r, q)
  <2> HIDE DEF n
  <2> QED BY <1>2, MoveOn, Moves
<1>4. CASE w.ev.screen # 0
  BY <1>4, WaysOut DEF Ghosts
<1>5. CASE w.ev.screen = 0 /\ o = 0
  <2>1. Ghosts(w, o) = Turn(w, 1, {q})
    BY <1>5 DEF Ghosts
  <2> HIDE DEF q
  <2> QED BY <1>1, <1>3, <2>1, Steps DEF Asked
<1>6. CASE w.ev.screen = 0 /\ o = 1
  BY <1>1, <1>6, Steps DEF Ghosts, Asked, AllSafe
<1> QED BY <1>4, <1>5, <1>6 DEF GhostsMenu

\* The Vampires: a part of the ceiling, or the vial, for bites in place of strikes.
LEMMA VampiresSafe ==
  ASSUME NEW w, Asked(w, "Vampires"), NEW o \in VampiresMenu(w)
  PROVE  AllSafe(Vampires(w, o))
<1> DEFINE r == w.run
<1>1. 1 \in 0..FinalPage("Vampires") /\ (\A s : Plain("Vampires", s))
  BY DEF FinalPage, Plain
<1>2. Kept(r, LowerMax(r, w.ev.a)) /\ Kept(r, LoseRelic(r, "blood_vial"))
  BY Numbers, Moves DEF Asked
<1>3. /\ Kept(r, vampires_replace_attacks(LowerMax(r, w.ev.a)))
      /\ Kept(r, vampires_replace_attacks(LoseRelic(r, "blood_vial")))
  BY <1>2, MoveOn, VampiresKeep DEF Doored
<1>4. AllSafe(Leave(w))
  BY WaysOut
<1>5. /\ AllSafe(Turn(w, 1, {vampires_replace_attacks(LowerMax(r, w.ev.a))}))
      /\ AllSafe(Turn(w, 1, {vampires_replace_attacks(LoseRelic(r, "blood_vial"))}))
      /\ AllSafe({At(w, 1)})
  BY <1>1, <1>3, Steps DEF Asked, AllSafe
<1>6. CASE w.ev.screen # 0
  BY <1>4, <1>6 DEF Vampires
<1>7. CASE w.ev.screen = 0 /\ o = 0
  BY <1>5, <1>7 DEF Vampires
<1>8. CASE w.ev.screen = 0 /\ o # 0 /\ o = 1 /\ Owns(r, "blood_vial")
  BY <1>5, <1>8 DEF Vampires
<1>9. CASE w.ev.screen = 0 /\ o # 0 /\ ~(o = 1 /\ Owns(r, "blood_vial"))
  BY <1>5, <1>9 DEF Vampires
<1> QED BY <1>6, <1>7, <1>8, <1>9

\* The dagger comes to the dead as well, whose run it leaves dead.
LEMMA NestSafe ==
  ASSUME NEW w, Asked(w, "Nest"), NEW o \in NestMenu(w)
  PROVE  AllSafe(Nest(w, o))
<1> DEFINE hurt == apply_event_damage(w, 6, "none")
           armed == On(hurt, AddCard(hurt.run, "trick"))
           n == IF w.run.hard THEN 50 ELSE 99
<1>1. {1, 2} \subseteq 0..FinalPage("Nest") /\ FinalPage("Nest") = 2 /\ (\A s : Plain("Nest", s))
  BY DEF FinalPage, Plain
<1>2. w.ev.screen \in 0..2 /\ Kept(w.run, GainGold(w.run, n))
  BY <1>1, Numbers, Moves, PageOf DEF Asked
<1>3. CASE w.ev.screen = 0
  BY <1>1, <1>3, Steps DEF Nest, Asked, AllSafe
<1>4. CASE w.ev.screen = 1 /\ o = 0
  <2>1. Nest(w, o) = Turn(w, 2, {GainGold(w.run, n)})
    BY <1>4 DEF Nest
  <2> HIDE DEF n
  <2> QED BY <1>1, <1>2, <2>1, Steps DEF Asked
<1>5. CASE w.ev.screen = 1 /\ o = 1
  <2>1. Speaks(hurt, "Nest") /\ Harmed(w, hurt)
    BY WaysOut DEF Talked
  <2>2. Nest(w, o) = {IF hurt.phase = "over" THEN armed ELSE At(armed, 2)}
    BY <1>5 DEF Nest
  <2> HIDE DEF hurt
  <2>3. Kept(hurt.run, AddCard(hurt.run, "trick"))
    BY <2>1, Numbers, Moves
  <2>4. Speaks(armed, "Nest")
    BY <1>1, <2>1, <2>3, OnSpeaks
  <2> HIDE DEF armed
  <2>5. Safe(armed) /\ Safe(At(armed, 2))
    BY <1>1, <2>4, Steps DEF Speaks, Talk
  <2> QED BY <2>2, <2>5 DEF AllSafe
<1>6. CASE w.ev.screen = 2
  BY <1>6, WaysOut DEF Nest
<1> QED BY <1>2, <1>3, <1>4, <1>5, <1>6 DEF NestMenu

\* The Library: a card, or a cure.
LEMMA LibrarySafe ==
  ASSUME NEW w, Asked(w, "Library"), NEW o \in LibraryMenu(w)
  PROVE  AllSafe(Library(w, o))
<1> DEFINE b == SetToSeq(RandomCards)
           e == [w.ev EXCEPT !.board = b, !.screen = 1]
<1>1. FinalPage("Library") = 2 /\ (\A s : Plain("Library", s))
  BY DEF FinalPage, Plain
<1>2. w.ev.screen \in 0..2
  BY <1>1, PageOf
<1>3. Kept(w.run, Heal(w.run, w.ev.a)) /\ (\A k : Kept(w.run, AddCard(w.run, k)))
  BY Numbers, Moves DEF Asked
<1>4. CASE w.ev.screen = 0 /\ o = 0
  <2>1. Talk(w) /\ WShape(w) /\ EvShape(w.ev) /\ Kept(w.run, w.run) /\ w.ev.id = "Library"
        /\ w.ev.grid = "none"
    BY Numbers DEF Asked, Speaks, Talk, Safe, Common
  <2>6. Library(w, o) = {[w EXCEPT !.ev.board = b, !.ev.screen = 1]}
    BY <1>4 DEF Library
  <2> HIDE DEF b
  <2>2. [w EXCEPT !.ev.board = b, !.ev.screen = 1] = [w EXCEPT !.run = w.run, !.ev = e]
    BY <2>1 DEF WShape, WorldFields
  <2>3. EvShape(e) /\ e.id = "Library" /\ e.screen = 1 /\ e.grid = "none"
    <3>1. w.ev.a \in Int /\ w.ev.b \in Int /\ w.ev.c \in Int /\ w.ev.d \in Int
      BY <2>1 DEF EvShape
    <3>2. e = [x \in EvFields |-> e[x]] /\ e.id = "Library" /\ e.screen = 1 /\ e.grid = "none"
          /\ e.a = w.ev.a /\ e.b = w.ev.b /\ e.c = w.ev.c /\ e.d = w.ev.d
      BY <2>1 DEF EvShape, EvFields
    <3> HIDE DEF e
    <3> QED BY <3>1, <3>2 DEF EvShape
  <2> HIDE DEF e
  <2>4. e.screen \in 0..FinalPage("Library") /\ Plain("Library", e.screen)
    BY <1>1, <2>3
  <2>5. Safe([w EXCEPT !.run = w.run, !.ev = e])
    BY <2>1, <2>3, <2>4, EventSpeaks
  <2> QED BY <2>2, <2>5, <2>6 DEF AllSafe
<1>5. CASE w.ev.screen = 0 /\ o = 1
  BY <1>1, <1>3, <1>5, Steps DEF Library, Asked
<1>6. CASE w.ev.screen = 1
  BY <1>1, <1>3, <1>6, Steps DEF Library, Asked
<1>7. CASE w.ev.screen = 2
  BY <1>7, WaysOut DEF Library
<1> QED BY <1>2, <1>4, <1>5, <1>6, <1>7 DEF LibraryMenu

\* The Mausoleum: a relic, and the curse that may come with it.
LEMMA MausoleumSafe ==
  ASSUME NEW w, Asked(w, "Mausoleum"), NEW o \in MausoleumMenu(w)
  PROVE  AllSafe(Mausoleum(w, o))
<1> DEFINE plain == {q \in EventRelicRuns(w.run) : ~w.run.hard}
           R == plain \cup RelicWithCurse(w.run)
<1>1. 1 \in 0..FinalPage("Mausoleum") /\ (\A s : Plain("Mausoleum", s))
  BY DEF FinalPage, Plain
<1>2. \A q \in R : Kept(w.run, q)
  BY Numbers, Moves DEF Asked
<1>3. CASE w.ev.screen # 0
  BY <1>3, WaysOut DEF Mausoleum
<1>4. CASE w.ev.screen = 0 /\ o = 0
  <2>1. Mausoleum(w, o) = Turn(w, 1, R)
    BY <1>4 DEF Mausoleum
  <2> HIDE DEF R
  <2> QED BY <1>1, <1>2, <2>1, Steps DEF Asked
<1>5. CASE w.ev.screen = 0 /\ o = 1
  BY <1>1, <1>5, Steps DEF Mausoleum, Asked, AllSafe
<1> QED BY <1>3, <1>4, <1>5 DEF MausoleumMenu

\* The Colosseum: its two fights, the dialog between them.
LEMMA ColosseumSafe ==
  ASSUME NEW w, Asked(w, "colosseum"), NEW o \in ColosseumMenu(w)
  PROVE  AllSafe(Colosseum(w, o))
<1> DEFINE rare == DrawRelic(w.run, "rare", FALSE)
           uncommon == DrawRelic(rare.run, "uncommon", FALSE)
           paid == On(w, uncommon.run)
           bare == ClearLoot(paid)
           one == add_event_combat_relic_reward(bare, rare.got)
           two == add_event_combat_relic_reward(one, uncommon.got)
           purse == add_event_combat_gold_reward(two, 100)
<1>1. FinalPage("colosseum") = 2 /\ (\A s : Plain("colosseum", s))
  BY DEF FinalPage, Plain
<1>2. w.ev.screen \in 0..2
  BY <1>1, PageOf
<1>3. CASE w.ev.screen = 0
  BY <1>1, <1>3, Steps DEF Colosseum, Asked, AllSafe
<1>4. CASE w.ev.screen = 1
  <2>1. Asked(At(w, 2), "colosseum")
    BY <1>1, Steps DEF Asked
  <2>2. Asked(ClearLoot(At(w, 2)), "colosseum")
    BY <2>1, Prizes
  <2>3. Safe(enter_event_combat(ClearLoot(At(w, 2)), "slavers"))
    BY <2>2, EnterSafe
  <2> QED BY <1>4, <2>3 DEF Colosseum, AllSafe
<1>5. CASE w.ev.screen = 2 /\ o # 1
  BY <1>5, WaysOut DEF Colosseum
<1>6. CASE w.ev.screen = 2 /\ o = 1
  <2>1. Kept(w.run, rare.run)
    BY Numbers, Moves DEF Asked
  <2>2. Colosseum(w, o) = {enter_event_combat([purse EXCEPT !.ev = NoEvent], "nobs")}
    BY <1>6 DEF Colosseum
  <2> HIDE DEF rare
  <2>3. Kept(w.run, uncommon.run)
    <3>1. RunOK(rare.run)
      BY <2>1, MoveOn
    <3>2. Kept(rare.run, uncommon.run)
      BY <3>1, Moves
    <3> QED BY <2>1, <3>2, MoveOn
  <2> HIDE DEF uncommon
  <2>4. Asked(paid, "colosseum")
    BY <1>1, <2>3, Prizes
  <2> HIDE DEF paid
  <2>5. Asked(bare, "colosseum")
    BY <2>4, Prizes
  <2> HIDE DEF bare
  <2>6. Asked(one, "colosseum")
    BY <2>5, Prizes
  <2> HIDE DEF one
  <2>7. Asked(two, "colosseum")
    BY <2>6, Prizes
  <2> HIDE DEF two
  <2>8. Asked(purse, "colosseum")
    BY <2>7, Prizes
  <2> HIDE DEF purse
  <2> QED BY <2>2, <2>8, EnterSafe DEF AllSafe
<1> QED BY <1>2, <1>3, <1>4, <1>5, <1>6

\* The Masked Bandits: the purse, or a fight.
LEMMA BanditsSafe ==
  ASSUME NEW w, Asked(w, "Bandits"), NEW o \in BanditsMenu(w)
  PROVE  AllSafe(Bandits(w, o))
<1> DEFINE x == OrCirclet(w.run, "red_mask")
           rich == add_event_combat_gold_reward(w, 25)
           spoils == add_event_combat_relic_reward(rich, x)
<1>1. FinalPage("Bandits") = 3 /\ (\A s : Plain("Bandits", s))
  BY DEF FinalPage, Plain
<1>2. w.ev.screen \in 0..3 /\ Kept(w.run, LoseGold(w.run, w.run.gold))
  BY <1>1, Numbers, Moves, PageOf DEF Asked
<1>3. CASE w.ev.screen = 0 /\ o = 0
  BY <1>1, <1>2, <1>3, Steps DEF Bandits, Asked
<1>4. CASE w.ev.screen = 0 /\ o = 1
  <2>1. Asked(rich, "Bandits")
    BY Prizes
  <2>2. Bandits(w, o) = {[enter_event_combat(spoils, "bandits") EXCEPT !.ev = NoEvent]}
    BY <1>4 DEF Bandits
  <2> HIDE DEF rich, x
  <2>3. Asked(spoils, "Bandits")
    BY <2>1, Prizes
  <2> HIDE DEF spoils
  <2>4. Safe([enter_event_combat(spoils, "bandits") EXCEPT !.ev = NoEvent])
    BY <2>3, EnterSafe
  <2> QED BY <2>2, <2>4 DEF AllSafe
<1>5. CASE w.ev.screen \in 1..2
  <2>1. Safe(At(w, w.ev.screen + 1))
    BY <1>1, <1>5, Steps DEF Asked
  <2> QED BY <1>5, <2>1 DEF Bandits, AllSafe
<1>6. CASE w.ev.screen = 3
  BY <1>6, WaysOut DEF Bandits
<1> QED BY <1>2, <1>3, <1>4, <1>5, <1>6 DEF BanditsMenu

\* A dialog that writes something down.
LEMMA Noted ==
  ASSUME NEW w, Talk(w), w.phase = "dialog", NEW r, Kept(w.run, r), NEW e, EvShape(e), EvOK(e, r)
  PROVE  LET v == [w EXCEPT !.run = r, !.ev = e]
         IN  /\ Talk(v) /\ Safe(v) /\ v.phase = "dialog" /\ v.ev = e /\ v.run = r
             /\ v.loot = w.loot /\ (e.grid = "none" => Asked(v, e.id))
<1> DEFINE v == [w EXCEPT !.run = r, !.ev = e]
<1>1. /\ WShape(v) /\ v.run = r /\ v.ev = e /\ v.phase = w.phase /\ v.loot = w.loot
      /\ v.room = w.room /\ v.pend = w.pend
  BY DEF Talk, Safe, Common, WShape, WorldFields
<1> HIDE DEF v
<1>2. Talk(v) /\ Safe(v)
  BY <1>1 DEF Talk, Safe, Common, DialogOK, Kept, Alive
<1>3. e.grid = "none" => Asked(v, e.id)
  BY <1>1, <1>2 DEF Asked, Speaks
<1> QED BY <1>1, <1>2, <1>3 DEF v

\* The card that falls is one the deck has held since the dialog opened.
LEMMA FallingSafe ==
  ASSUME NEW w, Asked(w, "Falling"), NEW o \in FallingMenu(w)
  PROVE  AllSafe(Falling(w, o))
<1> DEFINE r == w.run
<1>1. FinalPage("Falling") = 2 /\ Plain("Falling", 2)
  BY DEF FinalPage, Plain
<1>2. w.ev.screen \in 0..2 /\ SpecialOf(w.ev, r) /\ w.ev.id = "Falling" /\ RunOK(r)
  BY <1>1, PageOf, Numbers DEF Asked
<1>3. CASE w.ev.screen = 0
  <2> DEFINE e == [w.ev EXCEPT !.screen = 1]
  <2>1. Talk(w) /\ WShape(w) /\ EvShape(w.ev) /\ EvOK(w.ev, r) /\ w.ev.grid = "none" /\ Kept(r, r)
        /\ w.phase = "dialog"
    BY Numbers DEF Asked, Speaks, Talk, Safe, Common, DialogOK
  <2>2. At(w, 1) = [w EXCEPT !.run = r, !.ev = e]
    BY <2>1 DEF At, WShape, WorldFields
  <2>3. /\ EvShape(e) /\ e.id = "Falling" /\ e.screen = 1 /\ e.grid = "none"
        /\ e.a = w.ev.a /\ e.b = w.ev.b /\ e.c = w.ev.c
    BY <1>2, <2>1 DEF EvShape, EvFields
  <2> HIDE DEF e
  <2>4. EvOK(e, r)
    BY <1>1, <1>2, <1>3, <2>1, <2>3 DEF EvOK, SpecialOf
  <2>5. Safe([w EXCEPT !.run = r, !.ev = e])
    BY <2>1, <2>3, <2>4, Noted
  <2>6. Falling(w, o) = {At(w, 1)}
    BY <1>3 DEF Falling
  <2> QED BY <2>2, <2>5, <2>6 DEF AllSafe
<1>4. CASE w.ev.screen = 1
  <2> DEFINE i == CASE o = 0 -> w.ev.b [] o = 1 -> w.ev.c [] o = 2 -> w.ev.a
             q == IF i = 0 THEN r ELSE RemoveCard(r, i)
  <2>1. o \in {0, 1, 2}
    BY DEF FallingMenu
  <2>2. i \in {0} \cup DOMAIN r.deck
    BY <1>2, <1>4, <2>1 DEF SpecialOf
  <2>3. Falling(w, o) = Turn(w, 2, {q})
    <3> USE DEF Falling
    <3>1. CASE o = 0
      BY <1>4, <3>1
    <3>2. CASE o = 1
      BY <1>4, <3>2
    <3>3. CASE o = 2
      BY <1>4, <3>3
    <3> QED BY <2>1, <3>1, <3>2, <3>3
  <2> HIDE DEF i
  <2>4. Kept(r, q)
    BY <1>2, <2>2, Moves
  <2> HIDE DEF q
  <2> QED BY <1>1, <2>3, <2>4, Steps DEF Asked
<1>5. CASE w.ev.screen = 2
  BY <1>5, WaysOut DEF Falling
<1> QED BY <1>2, <1>3, <1>4, <1>5

\* Mind Bloom: a boss's fight, upgrades, gold or a cure, each at its price.
LEMMA MindBloomSafe ==
  ASSUME NEW w, Asked(w, "MindBloom"), NEW o \in MindBloomMenu(w)
  PROVE  AllSafe(MindBloom(w, o))
<1> DEFINE r == w.run
           d == DrawRelic(r, "rare", FALSE)
           drawn == On(w, d.run)
           bare == ClearLoot(drawn)
           rich == add_event_combat_gold_reward(bare, 50)
           spoils == add_event_combat_relic_reward(rich, d.got)
           whole == UpgradeSet(r, Upgradeable(r))
           R == IF w.ev.a = 0 THEN {AddCards(GainGold(r, 999), "regret", 2)}
                ELSE {AddCard(Heal(r, r.max), "regret")}
<1>1. 1 \in 0..FinalPage("MindBloom") /\ (\A s : Plain("MindBloom", s))
  BY DEF FinalPage, Plain
<1>2. RunOK(r) /\ r.max \in Int
  BY Numbers DEF Asked
<1>3. /\ Kept(r, d.run) /\ Kept(r, whole) /\ Kept(r, GainGold(r, 999)) /\ Kept(r, Heal(r, r.max))
  <2>1. Kept(r, d.run)
    BY <1>2, Moves
  <2>2. Kept(r, whole)
    BY <1>2, Moves
  <2>3. Kept(r, GainGold(r, 999)) /\ Kept(r, Heal(r, r.max))
    BY <1>2, Moves
  <2> QED BY <2>1, <2>2, <2>3
<1>4. CASE w.ev.screen # 0
  BY <1>4, WaysOut DEF MindBloom
<1>5. CASE w.ev.screen = 0 /\ o = 0
  <2>1. MindBloom(w, o) = {[enter_event_combat(spoils, "boss") EXCEPT !.ev = NoEvent]}
    BY <1>5 DEF MindBloom
  <2> HIDE DEF d
  <2>2. Asked(drawn, "MindBloom")
    BY <1>1, <1>3, Prizes
  <2> HIDE DEF drawn
  <2>3. Asked(bare, "MindBloom")
    BY <2>2, Prizes
  <2> HIDE DEF bare
  <2> DEFINE gold == 50
  <2>4. Asked(rich, "MindBloom")
    <3>1. gold \in Int
      OBVIOUS
    <3> HIDE DEF gold
    <3>2. Asked(add_event_combat_gold_reward(bare, gold), "MindBloom")
      BY <2>3, <3>1, Prizes
    <3> QED BY <3>2 DEF gold
  <2> HIDE DEF rich
  <2>5. Asked(spoils, "MindBloom")
    BY <2>4, Prizes
  <2> HIDE DEF spoils
  <2>6. Safe([enter_event_combat(spoils, "boss") EXCEPT !.ev = NoEvent])
    BY <2>5, EnterSafe
  <2> QED BY <2>1, <2>6 DEF AllSafe
<1>6. CASE w.ev.screen = 0 /\ o = 1
  <2>1. MindBloom(w, o) = Turn(w, 1, Acquire(whole, "bloom"))
    BY <1>6 DEF MindBloom
  <2> HIDE DEF whole
  <2>2. \A q \in Acquire(whole, "bloom") : Kept(r, q)
    <3>1. RunOK(whole)
      BY <1>3, MoveOn
    <3>2. \A q \in Acquire(whole, "bloom") : Kept(whole, q)
      BY <3>1, Moves
    <3> QED BY <1>3, <3>2, MoveOn
  <2> QED BY <1>1, <2>1, <2>2, Steps DEF Asked
<1>7. CASE w.ev.screen = 0 /\ o = 2
  <2>1. MindBloom(w, o) = Turn(w, 1, R)
    BY <1>7 DEF MindBloom
  <2>2. Kept(r, AddCards(GainGold(r, 999), "regret", 2))
    BY <1>3, MoveOn, Moves
  <2>3. Kept(r, AddCard(Heal(r, r.max), "regret"))
    BY <1>3, MoveOn, Moves
  <2>4. \A q \in R : Kept(r, q)
    BY <2>2, <2>3
  <2> HIDE DEF R
  <2> QED BY <1>1, <2>1, <2>4, Steps DEF Asked
<1> QED BY <1>4, <1>5, <1>6, <1>7 DEF MindBloomMenu

\* The Moai Head: a cure for some of the ceiling, or gold for the idol.
LEMMA MoaiSafe ==
  ASSUME NEW w, Asked(w, "Moai"), NEW o \in MoaiMenu(w)
  PROVE  AllSafe(Moai(w, o))
<1> DEFINE low == LowerMax(w.run, w.ev.a)
           lost == LoseRelic(w.run, "golden_idol")
<1>1. 1 \in 0..FinalPage("Moai") /\ (\A s : Plain("Moai", s))
  BY DEF FinalPage, Plain
<1>2. Kept(w.run, low) /\ Kept(w.run, lost)
  BY Numbers, Moves DEF Asked
<1>3. Kept(w.run, Heal(low, low.max)) /\ Kept(w.run, GainGold(lost, 333))
  <2> HIDE DEF low, lost
  <2>1. RunOK(low) /\ RunOK(lost) /\ low.max \in Int
    BY <1>2, MoveOn DEF RunOK, Body, Vital
  <2> QED BY <1>2, <2>1, MoveOn, Moves
<1>4. CASE w.ev.screen # 0
  BY <1>4, WaysOut DEF Moai
<1>5. CASE w.ev.screen = 0 /\ o = 0
  <2>1. Moai(w, o) = Turn(w, 1, {Heal(low, low.max)})
    BY <1>5 DEF Moai
  <2> QED BY <1>1, <1>3, <2>1, Steps DEF Asked
<1>6. CASE w.ev.screen = 0 /\ o = 1
  BY <1>1, <1>3, <1>6, Steps DEF Moai, Asked
<1>7. CASE w.ev.screen = 0 /\ o = 2
  BY <1>1, <1>7, Steps DEF Moai, Asked, AllSafe
<1> QED BY <1>4, <1>5, <1>6, <1>7 DEF MoaiMenu

\* The Mysterious Sphere: a fight for a relic.
LEMMA SphereSafe ==
  ASSUME NEW w, Asked(w, "Sphere"), NEW o \in SphereMenu(w)
  PROVE  AllSafe(Sphere(w, o))
<1> DEFINE r == w.run
           d == DrawScreenless(r, "rare")
           drawn == On(w, d.run)
           bare == ClearLoot(drawn)
           rich == add_event_combat_gold_reward(bare, 45)
           spoils == add_event_combat_relic_reward(rich, d.got)
<1>1. FinalPage("Sphere") = 2 /\ (\A s : Plain("Sphere", s))
  BY DEF FinalPage, Plain
<1>2. w.ev.screen \in 0..2 /\ Kept(r, d.run)
  BY <1>1, Numbers, Moves, PageOf DEF Asked
<1>3. CASE w.ev.screen = 0
  <2>1. Safe(At(w, 1)) /\ Safe(At(w, 2))
    BY <1>1, Steps DEF Asked
  <2>2. Sphere(w, o) = {At(w, IF o = 0 THEN 1 ELSE 2)}
    BY <1>3 DEF Sphere
  <2> QED BY <2>1, <2>2 DEF AllSafe
<1>4. CASE w.ev.screen = 1
  <2>1. Sphere(w, o) = {[enter_event_combat(spoils, "orb_walkers") EXCEPT !.ev = NoEvent]}
    BY <1>4 DEF Sphere
  <2> HIDE DEF d
  <2>2. Asked(drawn, "Sphere")
    BY <1>1, <1>2, Prizes
  <2> HIDE DEF drawn
  <2>3. Asked(bare, "Sphere")
    BY <2>2, Prizes
  <2> HIDE DEF bare
  <2>4. Asked(rich, "Sphere")
    BY <2>3, Prizes
  <2> HIDE DEF rich
  <2>5. Asked(spoils, "Sphere")
    BY <2>4, Prizes
  <2> HIDE DEF spoils
  <2>6. Safe([enter_event_combat(spoils, "orb_walkers") EXCEPT !.ev = NoEvent])
    BY <2>5, EnterSafe
  <2> QED BY <2>1, <2>6 DEF AllSafe
<1>5. CASE w.ev.screen = 2
  BY <1>5, WaysOut DEF Sphere
<1> QED BY <1>2, <1>3, <1>4, <1>5

\* A row of cards, the eggs asked about each.
LEMMA CardsRowOK == ASSUME NEW r PROVE RowOK(CardsRow(r))
<1> DEFINE S == {Hatched(r, Fresh(k, 0)) : k \in RandomCards}
<1>1. \A c \in S : IsCard(c)
  BY FreshIsCard, HatchedIsCard
<1>2. CardsRow(r) = [Row("cards", 0, "none") EXCEPT !.cards = S]
  BY DEF CardsRow
<1> HIDE DEF S
<1> QED BY <1>1, <1>2 DEF Row, RowOK, RowFields, RowKinds

\* The Sensory Stone: rows of cards, paid for with health.
LEMMA SensorySafe ==
  ASSUME NEW w, Asked(w, "Sensory"), NEW o \in SensoryMenu(w)
  PROVE  AllSafe(Sensory(w, o))
<1> DEFINE offer == [i \in 1..(o + 1) |-> CardsRow(w.run)]
           l == [rows |-> offer, open |-> 0]
           seen == [w EXCEPT !.loot = l]
           hit == apply_event_damage(seen, 5 * o, "none")
           hurt == [hit EXCEPT !.ev = NoEvent]
<1>1. FinalPage("Sensory") = 1 /\ (\A s : Plain("Sensory", s))
  BY DEF FinalPage, Plain
<1>2. w.ev.screen \in 0..1
  BY <1>1, PageOf
<1>3. CASE w.ev.screen = 0
  BY <1>1, <1>3, Steps DEF Sensory, Asked, AllSafe
<1>4. CASE w.ev.screen = 1
  <2>1. o \in 0..2 /\ o + 1 \in Nat /\ 5 * o \in Int
    BY <1>4 DEF SensoryMenu
  <2>2. LootOK(l)
    <3>1. offer \in Seq({CardsRow(w.run)})
      BY <2>1
    <3>2. \A row \in {CardsRow(w.run)} : RowOK(row)
      BY CardsRowOK
    <3>3. l = [x \in {"rows", "open"} |-> l[x]] /\ l.rows = offer /\ l.open = 0
      OBVIOUS
    <3> HIDE DEF offer, l
    <3>4. Len(offer) \in Nat
      BY <3>1
    <3> QED BY <3>1, <3>2, <3>3, <3>4 DEF LootOK
  <2>3. Sensory(w, o) = IfAlive(hurt, {OpenLoot(hurt)})
    BY <1>4 DEF Sensory
  <2> HIDE DEF l
  <2>4. Asked(seen, "Sensory")
    BY <2>2, LootSpeaks DEF Asked
  <2> HIDE DEF seen
  <2>5. Talk(hit) /\ Safe(hit)
    BY <2>1, <2>4, WaysOut DEF Talked, Speaks
  <2> HIDE DEF hit
  <2>6. WShape(hit) /\ hurt.run = hit.run /\ hurt.phase = hit.phase /\ hurt.loot = hit.loot
        /\ WShape(hurt) /\ hurt.ev = NoEvent /\ OpenLoot(hurt) = OpenLoot(hit)
    BY <2>5 DEF Talk, Safe, Common, WShape, WorldFields, OpenLoot
  <2>7. CASE hit.run.hp > 0
    <3>1. Safe(OpenLoot(hurt))
      BY <2>5, <2>6, <2>7, OpenLootSafe
    <3> QED BY <2>3, <2>6, <2>7, <3>1 DEF IfAlive, AllSafe
  <2>8. CASE ~(hit.run.hp > 0)
    <3>1. EvShape(NoEvent)
      BY DEF NoEvent, EvShape, EvFields
    <3> HIDE DEF hurt
    <3>2. Safe(hurt)
      BY <2>5, <2>6, <2>8, <3>1 DEF Talk, Safe, Common, Spoken
    <3> QED BY <2>3, <2>6, <2>8, <3>2 DEF IfAlive, AllSafe
  <2> QED BY <2>7, <2>8
<1> QED BY <1>2, <1>3, <1>4

\* The Tomb of Lord Red Mask: gold for the masked, the mask for the purse.
LEMMA TombSafe ==
  ASSUME NEW w, Asked(w, "Tomb"), NEW o \in TombMenu(w)
  PROVE  AllSafe(Tomb(w, o))
<1> DEFINE r == w.run
           poor == LoseGold(r, r.gold)
<1>1. 1 \in 0..FinalPage("Tomb") /\ (\A s : Plain("Tomb", s))
  BY DEF FinalPage, Plain
<1>2. Kept(r, GainGold(r, 222)) /\ Kept(r, poor)
  BY Numbers, Moves DEF Asked
<1>3. \A q \in Acquire(poor, "red_mask") : Kept(r, q)
  <2> HIDE DEF poor
  <2>1. RunOK(poor)
    BY <1>2, MoveOn
  <2>2. \A q \in Acquire(poor, "red_mask") : Kept(poor, q)
    BY <2>1, Moves
  <2> QED BY <1>2, <2>2, MoveOn
<1>4. CASE w.ev.screen = 0 /\ o = 0 /\ Owns(r, "red_mask")
  BY <1>1, <1>2, <1>4, Steps DEF Tomb, Asked
<1>5. CASE w.ev.screen = 0 /\ o = 1 /\ ~Owns(r, "red_mask")
  BY <1>1, <1>3, <1>5, Steps DEF Tomb, Asked
<1>6. CASE /\ ~(w.ev.screen = 0 /\ o = 0 /\ Owns(r, "red_mask"))
           /\ ~(w.ev.screen = 0 /\ o = 1 /\ ~Owns(r, "red_mask"))
  <2>1. Tomb(w, o) = Leave(w)
    BY <1>6 DEF Tomb
  <2> QED BY <2>1, WaysOut
<1> QED BY <1>4, <1>5, <1>6

\* The Winding Halls: cards for health, a cure for a curse, or a lower ceiling.
LEMMA WindingSafe ==
  ASSUME NEW w, Asked(w, "Winding"), NEW o \in WindingMenu(w)
  PROVE  AllSafe(Winding(w, o))
<1> DEFINE r == w.run
           last == At(w, 2)
           mad == apply_event_damage(last, w.ev.a, "none")
<1>1. FinalPage("Winding") = 2 /\ (\A s : Plain("Winding", s))
  BY DEF FinalPage, Plain
<1>2. w.ev.screen \in 0..2 /\ w.ev.a \in Int /\ Kept(r, Heal(r, w.ev.b)) /\ Kept(r, LowerMax(r, w.ev.c))
  BY <1>1, Numbers, Moves, PageOf DEF Asked
<1>3. Kept(r, AddCard(Heal(r, w.ev.b), "regret"))
  BY <1>2, MoveOn, Moves
<1>4. CASE w.ev.screen = 0
  BY <1>1, <1>4, Steps DEF Winding, Asked, AllSafe
<1>5. CASE w.ev.screen = 1 /\ o = 0
  <2>1. Asked(last, "Winding")
    BY <1>1, Steps DEF Asked
  <2>2. Winding(w, o) = {On(mad, AddCards(mad.run, "trick", 2))}
    BY <1>5 DEF Winding
  <2> HIDE DEF last
  <2>3. Speaks(mad, "Winding")
    BY <1>2, <2>1, WaysOut DEF Talked
  <2> HIDE DEF mad
  <2>4. Kept(mad.run, AddCards(mad.run, "trick", 2))
    BY <2>3, Numbers, Moves
  <2>5. Speaks(On(mad, AddCards(mad.run, "trick", 2)), "Winding")
    BY <1>1, <2>3, <2>4, OnSpeaks
  <2> QED BY <2>2, <2>5 DEF AllSafe, Speaks, Talk
<1>6. CASE w.ev.screen = 1 /\ o = 1
  BY <1>1, <1>3, <1>6, Steps DEF Winding, Asked
<1>7. CASE w.ev.screen = 1 /\ o = 2
  BY <1>1, <1>2, <1>7, Steps DEF Winding, Asked
<1>8. CASE w.ev.screen = 2
  BY <1>8, WaysOut DEF Winding
<1> QED BY <1>2, <1>4, <1>5, <1>6, <1>7, <1>8 DEF WindingMenu

\* The Heart's dialog goes on to its end.
LEMMA HeartSafe ==
  ASSUME NEW w, Asked(w, "Heart"), NEW o \in HeartMenu(w)
  PROVE  AllSafe(Heart(w, o))
<1> DEFINE s == IF door_is_open(w.run) THEN 4 ELSE 3
           won == [w EXCEPT !.ev = NoEvent, !.phase = "over"]
<1>1. FinalPage("Heart") = 4 /\ (\A t : Plain("Heart", t))
  BY DEF FinalPage, Plain
<1>2. w.ev.screen \in 0..4
  BY <1>1, PageOf
<1>3. CASE w.ev.screen \in {0, 1}
  <2>1. Safe(At(w, w.ev.screen + 1))
    BY <1>1, <1>3, Steps DEF Asked
  <2> QED BY <1>3, <2>1 DEF Heart, AllSafe
<1>4. CASE w.ev.screen = 2
  <2>1. Heart(w, o) = {At(w, s)} /\ s \in 0..4
    BY <1>4 DEF Heart
  <2> HIDE DEF s
  <2> QED BY <1>1, <2>1, Steps DEF Asked, AllSafe
<1>5. CASE w.ev.screen = 3
  <2>1. /\ WShape(won) /\ won.run = w.run /\ won.ev = NoEvent /\ won.phase = "over"
        /\ won.loot = w.loot
    BY DEF Asked, Speaks, Talk, Safe, Common, WShape, WorldFields
  <2>2. EvShape(NoEvent)
    BY DEF NoEvent, EvShape, EvFields
  <2>3. Heart(w, o) = {won}
    BY <1>5 DEF Heart
  <2> HIDE DEF won
  <2>4. Safe(won)
    BY <2>1, <2>2 DEF Asked, Speaks, Talk, Safe, Common, Spoken
  <2> QED BY <2>3, <2>4 DEF AllSafe
<1>6. CASE w.ev.screen = 4
  BY <1>6, WaysOut DEF Heart
<1> QED BY <1>2, <1>3, <1>4, <1>5, <1>6

\* A word the dialog writes down and looks at again without trusting it.
LEMMA Worded ==
  ASSUME NEW id, NEW w, Speaks(w, id), w.phase = "dialog" => Plain(id, w.ev.screen), NEW n \in Int
  PROVE  \A v \in {[w EXCEPT !.ev.a = n], [w EXCEPT !.ev.b = n], [w EXCEPT !.ev.c = n]} :
           Speaks(v, id) /\ v.run = w.run /\ v.phase = w.phase /\ v.ev.screen = w.ev.screen
<1> SUFFICES ASSUME NEW v \in {[w EXCEPT !.ev.a = n], [w EXCEPT !.ev.b = n], [w EXCEPT !.ev.c = n]}
             PROVE  Speaks(v, id) /\ v.run = w.run /\ v.phase = w.phase /\ v.ev.screen = w.ev.screen
  OBVIOUS
<1>1. WShape(w) /\ EvShape(w.ev) /\ Talk(w) /\ LootOK(w.loot) /\ Kept(w.run, w.run)
  BY Numbers DEF Speaks, Talk, Safe, Common
<1>2. /\ WShape(v) /\ v.run = w.run /\ v.phase = w.phase /\ v.loot = w.loot
      /\ v.room = w.room /\ v.pend = w.pend
  BY <1>1 DEF WShape, WorldFields
<1>3. /\ v.ev \in {[w.ev EXCEPT !.a = n], [w.ev EXCEPT !.b = n], [w.ev EXCEPT !.c = n]}
  BY <1>1 DEF WShape, WorldFields
<1>4. EvShape(v.ev) /\ v.ev.id = w.ev.id /\ v.ev.grid = w.ev.grid /\ v.ev.screen = w.ev.screen
  BY <1>1, <1>3 DEF EvShape, EvFields
<1>5. w.phase = "dialog" => w.ev.screen \in 0..FinalPage(id) /\ w.ev.id = id /\ w.ev.grid = "none"
  BY DEF Speaks, Talk, Safe, DialogOK, EvOK
<1>6. Speaks(v, id)
  BY <1>1, <1>2, <1>4, <1>5, Rebuilt
<1> QED BY <1>2, <1>4, <1>6

\* A grid that closes on another page.
LEMMA GridDone ==
  ASSUME NEW id, NEW w, Gridded(w, id), NEW s \in 0..FinalPage(id), Plain(id, s), FinalPage(id) \in Nat,
         NEW q, Kept(w.run, q)
  PROVE  Safe(On([w EXCEPT !.ev.grid = "none", !.ev.screen = s], q))
<1> DEFINE v == On([w EXCEPT !.ev.grid = "none", !.ev.screen = s], q)
           e == [w.ev EXCEPT !.grid = "none", !.screen = s]
<1>1. /\ WShape(v) /\ v.run = q /\ v.ev = e /\ v.phase = w.phase
      /\ v.loot = w.loot /\ v.room = w.room /\ v.pend = w.pend
  BY DEF On, Gridded, Talk, Safe, Common, WShape, WorldFields
<1> HIDE DEF v
<1>2. EvShape(w.ev) /\ w.ev.id = id /\ s \in Int
  BY DEF Gridded, Talk, Safe, Common
<1>3. EvShape(e) /\ e.id = id /\ e.screen = s /\ e.grid = "none"
  BY <1>2 DEF EvShape, EvFields
<1> HIDE DEF e
<1>4. LootOK(v.loot) /\ Talk(w)
  BY <1>1 DEF Gridded, Talk, Safe, Common
<1>5. Speaks(v, id)
  BY <1>1, <1>2, <1>3, <1>4, Rebuilt
<1> QED BY <1>5 DEF v, Speaks, Talk

-----------------------------------------------------------------------------
\* A card of the board turned over for good.
LEMMA BoardTurned ==
  ASSUME NEW w, WShape(w), EvShape(w.ev), NEW first
  PROVE  LET v == [w EXCEPT !.ev.board[first].taken = TRUE]
         IN  /\ WShape(v) /\ v.run = w.run /\ v.phase = w.phase /\ v.loot = w.loot
             /\ v.room = w.room /\ v.pend = w.pend /\ EvShape(v.ev) /\ v.ev.id = w.ev.id
             /\ v.ev.grid = w.ev.grid /\ v.ev.screen = w.ev.screen
<1> DEFINE b == [w.ev.board EXCEPT ![first].taken = TRUE]
           e == [w.ev EXCEPT !.board = b]
           v == [w EXCEPT !.ev.board[first].taken = TRUE]
<1>1. v = [w EXCEPT !.ev = e]
  BY DEF WShape, WorldFields, EvShape, EvFields
<1> HIDE DEF b, v
<1>2. EvShape(e) /\ e.id = w.ev.id /\ e.grid = w.ev.grid /\ e.screen = w.ev.screen
  BY DEF EvShape, EvFields
<1> HIDE DEF e
<1>3. /\ WShape(v) /\ v.run = w.run /\ v.phase = w.phase /\ v.loot = w.loot
      /\ v.room = w.room /\ v.pend = w.pend /\ v.ev = e
  BY <1>1 DEF WShape, WorldFields
<1> QED BY <1>2, <1>3 DEF v

\* The shrines.
LEMMA MatchAndKeepSafe ==
  ASSUME NEW w, Asked(w, "MatchAndKeep"), NEW o \in MatchAndKeepMenu(w)
  PROVE  AllSafe(MatchAndKeep(w, o))
<1> DEFINE i == o + 1
           first == w.ev.b
           pair == w.ev.board[first].k = w.ev.board[i].k
           flipped == [w EXCEPT !.ev.board[first].taken = TRUE, !.ev.board[i].taken = TRUE]
           kept == AddCard(w.run, w.ev.board[i].k)
           base == IF pair THEN On(flipped, kept) ELSE w
           tried == [base EXCEPT !.ev.a = @ - 1, !.ev.b = 0]
<1>1. FinalPage("MatchAndKeep") = 3 /\ (\A s : Plain("MatchAndKeep", s))
  BY DEF FinalPage, Plain
<1>2. w.ev.screen \in 0..3 /\ Kept(w.run, kept) /\ Kept(w.run, w.run)
  BY <1>1, Numbers, Moves, PageOf DEF Asked
<1>10. w.ev.b \in Int /\ w.ev.screen \in {0, 1, 2, 3}
  BY <1>2, Numbers DEF Asked
<1> HIDE DEF flipped, base, tried
<1>3. CASE w.ev.screen < 2
  <2>3. w.ev.screen + 1 \in 0..3 /\ ~(w.ev.screen > 2) /\ w.ev.screen # 2
    BY <1>10, <1>3
  <2>1. Safe(At(w, w.ev.screen + 1))
    BY <1>1, <2>3, Steps DEF Asked
  <2>2. MatchAndKeep(w, o) = {At(w, w.ev.screen + 1)}
    BY <1>3, <2>3, Zenon DEF MatchAndKeep
  <2> QED BY <2>1, <2>2 DEF AllSafe
<1>4. CASE w.ev.screen > 2
  <2>2. ~(w.ev.screen < 2) /\ w.ev.screen # 2
    BY <1>10, <1>4
  <2>1. MatchAndKeep(w, o) = Leave(w)
    BY <1>4, <2>2, Zenon DEF MatchAndKeep
  <2> QED BY <2>1, WaysOut
<1>5. CASE w.ev.screen = 2 /\ first = 0
  <2>1. MatchAndKeep(w, o) = {[w EXCEPT !.ev.b = i]}
    BY <1>5 DEF MatchAndKeep
  <2>2. i \in Int
    BY <1>5 DEF MatchAndKeepMenu
  <2> HIDE DEF i
  <2>3. Speaks([w EXCEPT !.ev.b = i], "MatchAndKeep")
    BY <1>1, <2>2, Worded DEF Asked
  <2> QED BY <2>1, <2>3 DEF AllSafe, Speaks, Talk
<1>6. CASE w.ev.screen = 2 /\ first # 0
  <2>1. MatchAndKeep(w, o) = {IF tried.ev.a <= 0 THEN At(tried, 3) ELSE tried}
    <3>1. ~(w.ev.screen < 2) /\ ~(w.ev.screen > 2)
      BY <1>10, <1>6
    <3> QED BY <1>6, <3>1, Zenon DEF MatchAndKeep, tried, base, flipped
  <2>2. WShape(w) /\ EvShape(w.ev) /\ Talk(w) /\ LootOK(w.loot) /\ w.phase = "dialog"
        /\ w.ev.id = "MatchAndKeep" /\ w.ev.grid = "none"
    BY DEF Asked, Speaks, Talk, Safe, Common
  <2> HIDE DEF i
  <2> DEFINE half == [w EXCEPT !.ev.board[first].taken = TRUE]
  <2>3. flipped = [half EXCEPT !.ev.board[i].taken = TRUE]
    BY DEF flipped
  <2>4. /\ WShape(half) /\ half.run = w.run /\ half.phase = w.phase /\ half.loot = w.loot
        /\ half.room = w.room /\ half.pend = w.pend /\ EvShape(half.ev)
        /\ half.ev.id = w.ev.id /\ half.ev.grid = w.ev.grid /\ half.ev.screen = w.ev.screen
    BY <2>2, BoardTurned
  <2> HIDE DEF half
  <2>6. /\ WShape(flipped) /\ flipped.run = w.run /\ flipped.phase = w.phase /\ flipped.loot = w.loot
        /\ flipped.room = w.room /\ flipped.pend = w.pend /\ EvShape(flipped.ev)
        /\ flipped.ev.id = w.ev.id /\ flipped.ev.grid = w.ev.grid /\ flipped.ev.screen = w.ev.screen
    BY <2>3, <2>4, BoardTurned
  <2> HIDE DEF kept, pair
  <2>7. /\ WShape(base) /\ Kept(w.run, base.run) /\ base.phase = w.phase /\ base.loot = w.loot
        /\ base.room = w.room /\ base.pend = w.pend /\ EvShape(base.ev)
        /\ base.ev.id = "MatchAndKeep" /\ base.ev.grid = "none" /\ base.ev.screen = 2
    <3>1. CASE pair
      BY <1>2, <1>6, <2>2, <2>6, <3>1 DEF On, WShape, WorldFields, base
    <3>2. CASE ~pair
      BY <1>2, <1>6, <2>2, <3>2 DEF base
    <3> QED BY <3>1, <3>2
  <2>8. /\ WShape(tried) /\ tried.run = base.run /\ tried.phase = base.phase /\ tried.loot = base.loot
        /\ tried.room = base.room /\ tried.pend = base.pend
        /\ tried.ev = [base.ev EXCEPT !.a = base.ev.a - 1, !.b = 0]
    BY <2>7 DEF WShape, WorldFields, tried
  <2>9. base.ev.a - 1 \in Int
    BY <2>7 DEF EvShape
  <2>10. EvShape(tried.ev) /\ tried.ev.id = "MatchAndKeep" /\ tried.ev.grid = "none"
         /\ tried.ev.screen = 2
    <3> DEFINE n == base.ev.a - 1
               f == [base.ev EXCEPT !.a = n, !.b = 0]
    <3>1. n \in Int /\ 0 \in Int
      BY <2>9
    <3>3. base.ev.b \in Int /\ base.ev.c \in Int /\ base.ev.d \in Int
      BY <2>7 DEF EvShape
    <3> HIDE DEF n
    <3>2. EvShape(f) /\ f.id = "MatchAndKeep" /\ f.grid = "none" /\ f.screen = 2
      <4>1. /\ f = [x \in EvFields |-> f[x]] /\ f.a = n /\ f.b = 0 /\ f.c = base.ev.c /\ f.d = base.ev.d
            /\ f.id = "MatchAndKeep" /\ f.grid = "none" /\ f.screen = 2
        BY <2>7 DEF EvShape, EvFields
      <4> HIDE DEF f
      <4> QED BY <3>1, <3>3, <4>1 DEF EvShape
    <3> QED BY <2>8, <3>2 DEF n
  <2>13. /\ Kept(w.run, tried.run) /\ LootOK(tried.loot) /\ tried.room = w.room /\ tried.pend = w.pend
         /\ tried.phase = w.phase /\ tried.ev.screen \in 0..FinalPage("MatchAndKeep")
    BY <1>1, <2>2, <2>7, <2>8, <2>10
  <2>11. Speaks(tried, "MatchAndKeep")
    BY <1>1, <2>2, <2>8, <2>10, <2>13, Rebuilt
  <2>12. Safe(tried) /\ Safe(At(tried, 3))
    BY <1>1, <2>11, Steps DEF Speaks, Talk
  <2> QED BY <2>1, <2>12 DEF AllSafe
<1> QED BY <1>2, <1>3, <1>4, <1>5, <1>6

\* The Golden Shrine: gold, and more of it with a curse.
LEMMA GoldenShrineSafe ==
  ASSUME NEW w, Asked(w, "GoldenShrine"), NEW o \in GoldenShrineMenu(w)
  PROVE  AllSafe(GoldenShrine(w, o))
<1> DEFINE r == w.run
           n == IF r.hard THEN 50 ELSE 100
<1>1. 1 \in 0..FinalPage("GoldenShrine") /\ (\A s : Plain("GoldenShrine", s))
  BY DEF FinalPage, Plain
<1>2. Kept(r, GainGold(r, n)) /\ Kept(r, GainGold(r, 275))
  BY Numbers, Moves DEF Asked
<1>3. Kept(r, AddCard(GainGold(r, 275), "regret"))
  BY <1>2, MoveOn, Moves
<1>4. CASE w.ev.screen # 0
  BY <1>4, WaysOut DEF GoldenShrine
<1>5. CASE w.ev.screen = 0 /\ o = 0
  <2>1. GoldenShrine(w, o) = Turn(w, 1, {GainGold(r, n)})
    BY <1>5 DEF GoldenShrine
  <2> HIDE DEF n
  <2> QED BY <1>1, <1>2, <2>1, Steps DEF Asked
<1>6. CASE w.ev.screen = 0 /\ o = 1
  BY <1>1, <1>3, <1>6, Steps DEF GoldenShrine, Asked
<1>7. CASE w.ev.screen = 0 /\ o = 2
  BY <1>1, <1>7, Steps DEF GoldenShrine, Asked, AllSafe
<1> QED BY <1>4, <1>5, <1>6, <1>7 DEF GoldenShrineMenu

\* The three shrines that open a grid.
LEMMA ShrineSafe ==
  ASSUME NEW id \in {"Transmogrifier", "Purifier", "UpgradeShrine"}, NEW w, Asked(w, id), NEW o,
         NEW kind \in {"purge", "upgrade", "transformable"}
  PROVE  AllSafe(Shrine(w, o, kind))
<1>1. /\ 1 \in 0..FinalPage(id) /\ (\A s : Plain(id, s)) /\ kind \in GridsOf(id) \ {"pair_second"}
      /\ id # "Wheel" /\ id # "DrugDealer"
  BY DEF FinalPage, Plain, GridsOf
<1>2. Safe(At(w, 1)) /\ Safe(OpenGrid(At(w, 1), kind))
  BY <1>1, Steps DEF Asked
<1>3. CASE w.ev.screen # 0
  BY <1>3, WaysOut DEF Shrine
<1>4. CASE w.ev.screen = 0 /\ o = 0 /\ grid_has_card(w.run, kind)
  BY <1>2, <1>4 DEF Shrine, AllSafe
<1>5. CASE w.ev.screen = 0 /\ ~(o = 0 /\ grid_has_card(w.run, kind))
  BY <1>2, <1>5 DEF Shrine, AllSafe
<1> QED BY <1>3, <1>4, <1>5

\* The wheel's field is fixed on one page and paid on the next but one.
LEMMA WheelSafe ==
  ASSUME NEW w, Asked(w, "Wheel"), NEW o \in WheelMenu(w)
  PROVE  AllSafe(Wheel(w, o))
<1> DEFINE r == w.run
           cost == Percent(r.max, IF r.hard THEN 15 ELSE 10)
           hurt == apply_event_damage(w, cost, "none")
           d(t) == DrawScreenless(r, t)
           gift(t) == OpenLoot(add_event_combat_relic_reward(ClearLoot(On(w, d(t).run)), d(t).got))
<1>1. FinalPage("Wheel") = 3 /\ Plain("Wheel", 3) /\ Plain("Wheel", 0) /\ "purge" \in GridsOf("Wheel")
  BY DEF FinalPage, Plain, GridsOf
<1>2. /\ w.ev.screen \in 0..3 /\ RunOK(r) /\ r.max \in Nat /\ SpecialOf(w.ev, r)
      /\ w.ev.id = "Wheel" /\ r.hp > 0 /\ Kept(r, r)
  BY <1>1, PageOf, Numbers DEF Asked
<1>3. /\ Talk(w) /\ WShape(w) /\ EvShape(w.ev) /\ EvOK(w.ev, r) /\ w.ev.grid = "none"
      /\ w.phase = "dialog"
  BY DEF Asked, Speaks, Talk, Safe, Common, DialogOK
<1>4. CASE w.ev.screen = 0
  <2>1. ASSUME NEW n \in 0..5 PROVE Safe(At([w EXCEPT !.ev.a = n], 1))
    <3> DEFINE e == [w.ev EXCEPT !.a = n, !.screen = 1]
    <3>1. At([w EXCEPT !.ev.a = n], 1) = [w EXCEPT !.run = r, !.ev = e]
      BY <1>3 DEF At, WShape, WorldFields
    <3>2. EvShape(e) /\ e.id = "Wheel" /\ e.screen = 1 /\ e.grid = "none" /\ e.a = n
      <4>1. /\ e = [x \in EvFields |-> e[x]] /\ e.a = n /\ e.b = w.ev.b /\ e.c = w.ev.c
            /\ e.d = w.ev.d /\ e.id = "Wheel" /\ e.grid = "none" /\ e.screen = 1
        BY <1>2, <1>3 DEF EvShape, EvFields
      <4>2. n \in Int /\ w.ev.b \in Int /\ w.ev.c \in Int /\ w.ev.d \in Int
        BY <1>3 DEF EvShape
      <4> HIDE DEF e
      <4> QED BY <4>1, <4>2 DEF EvShape
    <3> HIDE DEF e
    <3>3. EvOK(e, r)
      BY <1>1, <1>2, <1>3, <3>2 DEF EvOK, SpecialOf
    <3>4. Safe([w EXCEPT !.run = r, !.ev = e])
      BY <1>2, <1>3, <3>2, <3>3, Noted
    <3> QED BY <3>1, <3>4
  <2>2. Wheel(w, o) = {At([w EXCEPT !.ev.a = n], 1) : n \in 0..5}
    BY <1>4 DEF Wheel
  <2> QED BY <2>1, <2>2 DEF AllSafe
<1>5. CASE w.ev.screen = 1
  <2> DEFINE q == IF w.ev.a = 0 THEN GainGold(r, 100) ELSE r
             e == [w.ev EXCEPT !.screen = 2]
  <2>1. Kept(r, q)
    BY <1>2, Moves
  <2>2. Wheel(w, o) = {[w EXCEPT !.run = q, !.ev.screen = 2]}
    BY <1>5 DEF Wheel, Turn
  <2> HIDE DEF q
  <2>3. [w EXCEPT !.run = q, !.ev.screen = 2] = [w EXCEPT !.run = q, !.ev = e]
    BY <1>3 DEF WShape, WorldFields
  <2>4. EvShape(e) /\ e.id = "Wheel" /\ e.screen = 2 /\ e.grid = "none" /\ e.a = w.ev.a
    BY <1>2, <1>3 DEF EvShape, EvFields
  <2> HIDE DEF e
  <2>5. EvOK(e, q)
    BY <1>1, <1>2, <1>3, <1>5, <2>4 DEF EvOK, SpecialOf
  <2>6. Safe([w EXCEPT !.run = q, !.ev = e])
    BY <1>3, <2>1, <2>4, <2>5, Noted
  <2> QED BY <2>2, <2>3, <2>6 DEF AllSafe
<1>6. CASE w.ev.screen = 2
  <2>1. w.ev.a \in 0..5
    BY <1>2, <1>6 DEF SpecialOf
  <2>2. Safe(At(w, 3)) /\ \A q : Kept(r, q) => AllSafe(Turn(w, 3, {q}))
    BY <1>1, Steps DEF Asked
  <2>3. CASE w.ev.a = 0
    BY <1>6, <2>2, <2>3 DEF Wheel, AllSafe
  <2>4. CASE w.ev.a = 1
    <3>1. ASSUME NEW t PROVE Safe(gift(t))
      <4>1. Kept(r, d(t).run)
        BY <1>2, Moves
      <4> DEFINE got == d(t).got
                 q == d(t).run
      <4> HIDE DEF q, got
      <4>2. On(w, q) = [w EXCEPT !.run = q, !.ev = w.ev]
        BY <1>3 DEF On, WShape, WorldFields
      <4>3. EvOK(w.ev, q)
        BY <1>2, <1>3, <1>6 DEF EvOK, SpecialOf
      <4>8. Kept(r, q)
        BY <4>1 DEF q
      <4> DEFINE e == w.ev
      <4>10. EvShape(e) /\ EvOK(e, q) /\ e.id = "Wheel" /\ e.grid = "none"
        BY <1>2, <1>3, <4>3
      <4> HIDE DEF e
      <4>12. Kept(w.run, q)
        BY <4>8
      <4>11. Asked([w EXCEPT !.run = q, !.ev = e], e.id)
        BY <1>3, <4>12, <4>10, Noted
      <4>9. /\ [w EXCEPT !.run = q, !.ev = w.ev].run = q
            /\ Asked([w EXCEPT !.run = q, !.ev = w.ev], "Wheel")
        BY <1>3, <4>10, <4>11 DEF e, WShape, WorldFields
      <4>4. Asked(On(w, q), "Wheel") /\ On(w, q).run = q
        BY <4>2, <4>9
      <4>5. Asked(ClearLoot(On(w, q)), "Wheel")
        BY <4>4, Prizes
      <4> DEFINE v == add_event_combat_relic_reward(ClearLoot(On(w, q)), got)
      <4>6. Asked(v, "Wheel")
        BY <4>5, Prizes
      <4> HIDE DEF v
      <4>7. Safe(OpenLoot(v))
        BY <4>6, PageOf, OpenLootSafe DEF Asked, Speaks
      <4> QED BY <4>7 DEF v, q, got
    <3>2. Wheel(w, o) = {gift(t) : t \in RollTiers}
      BY <1>6, <2>4 DEF Wheel
    <3> HIDE DEF gift
    <3> QED BY <3>1, <3>2 DEF AllSafe
  <2>5. CASE w.ev.a = 2
    <3>1. Kept(r, Heal(r, r.max))
      BY <1>2, Moves
    <3> QED BY <1>6, <2>2, <2>5, <3>1 DEF Wheel
  <2>6. CASE w.ev.a = 3
    <3>1. Kept(r, AddCard(r, "regret"))
      BY <1>2, Moves
    <3> QED BY <1>6, <2>2, <2>6, <3>1 DEF Wheel
  <2>7. CASE w.ev.a = 4
    <3> DEFINE v == At(IF grid_has_card(r, "purge") THEN OpenGrid(w, "purge") ELSE w, 3)
    <3>1. Safe(v)
      BY <1>1, GridOrPage
    <3>2. Wheel(w, o) = {v}
      BY <1>6, <2>7 DEF Wheel
    <3> QED BY <3>1, <3>2 DEF AllSafe
  <2>8. CASE w.ev.a = 5
    <3>1. cost \in Int
      BY <1>2 DEF Percent
    <3>2. Speaks(hurt, "Wheel")
      BY <3>1, WaysOut DEF Talked
    <3>3. Wheel(w, o) = {At(hurt, 3)}
      BY <1>6, <2>8 DEF Wheel
    <3> HIDE DEF hurt
    <3>4. Safe(At(hurt, 3))
      BY <1>1, <3>2, Steps
    <3> QED BY <3>3, <3>4 DEF AllSafe
  <2> QED BY <2>1, <2>3, <2>4, <2>5, <2>6, <2>7, <2>8
<1>7. CASE w.ev.screen = 3
  BY <1>7, WaysOut DEF Wheel
<1> QED BY <1>2, <1>4, <1>5, <1>6, <1>7

\* What was asked of the Skull comes to the dead as well.
LEMMA SkullSafe ==
  ASSUME NEW w, Asked(w, "Skull"), NEW o \in SkullMenu(w)
  PROVE  AllSafe(Skull(w, o))
<1> DEFINE paid(n) == apply_event_damage(w, n, "none")
           potion == [paid(w.ev.a) EXCEPT !.ev.a = @ + 1]
           gold == [paid(w.ev.b) EXCEPT !.ev.b = @ + 1]
           card == [paid(w.ev.c) EXCEPT !.ev.c = @ + 1]
<1>1. FinalPage("Skull") = 2 /\ (\A s : Plain("Skull", s))
  BY DEF FinalPage, Plain
<1>2. w.ev.screen \in 0..2 /\ w.ev.a \in Int /\ w.ev.b \in Int /\ w.ev.c \in Int
  BY <1>1, PageOf, Numbers DEF Asked
<1>3. ASSUME NEW n \in Int PROVE Speaks(paid(n), "Skull")
  BY <1>3, WaysOut DEF Talked
<1>4. ASSUME NEW v, Speaks(v, "Skull"),
             NEW u \in {[v EXCEPT !.ev.a = @ + 1], [v EXCEPT !.ev.b = @ + 1], [v EXCEPT !.ev.c = @ + 1]}
      PROVE  Speaks(u, "Skull")
  <2> DEFINE a == v.ev.a + 1
             b == v.ev.b + 1
             c == v.ev.c + 1
  <2>1. a \in Int /\ b \in Int /\ c \in Int
    BY <1>4, Numbers
  <2>2. u \in {[v EXCEPT !.ev.a = a], [v EXCEPT !.ev.b = b], [v EXCEPT !.ev.c = c]}
    BY <1>4
  <2> HIDE DEF a, b, c
  <2>3. /\ Speaks([v EXCEPT !.ev.a = a], "Skull") /\ Speaks([v EXCEPT !.ev.b = b], "Skull")
        /\ Speaks([v EXCEPT !.ev.c = c], "Skull")
    BY <1>1, <1>4, <2>1, Worded
  <2> QED BY <2>2, <2>3
<1>5. Speaks(potion, "Skull") /\ Speaks(gold, "Skull") /\ Speaks(card, "Skull")
  <2>1. Speaks(paid(w.ev.a), "Skull") /\ Speaks(paid(w.ev.b), "Skull") /\ Speaks(paid(w.ev.c), "Skull")
    BY <1>2, <1>3
  <2> HIDE DEF paid
  <2> QED BY <1>4, <2>1
<1>6. Safe(At(paid(kSkullBaseCost), 2))
  <2>1. Speaks(paid(kSkullBaseCost), "Skull")
    BY <1>3 DEF kSkullBaseCost
  <2> HIDE DEF paid
  <2> QED BY <1>1, <2>1, Steps
<1>7. CASE w.ev.screen = 0
  BY <1>1, <1>7, Steps DEF Skull, Asked, AllSafe
<1>8. CASE w.ev.screen = 2
  BY <1>8, WaysOut DEF Skull
<1>9. CASE w.ev.screen = 1 /\ o = 0
  <2>1. Skull(w, o) = IF Owns(w.run, "sozu") THEN {potion}
                      ELSE {On(potion, PutPotion(potion.run, p)) : p \in RandomPotions}
    BY <1>9 DEF Skull
  <2> HIDE DEF potion
  <2>2. ASSUME NEW p PROVE Safe(On(potion, PutPotion(potion.run, p)))
    <3>1. Kept(potion.run, PutPotion(potion.run, p))
      BY <1>5, Numbers, Moves
    <3> QED BY <1>1, <1>5, <3>1, OnSpeaks DEF Speaks, Talk
  <2> QED BY <1>5, <2>1, <2>2 DEF AllSafe, Speaks, Talk
<1>10. CASE w.ev.screen = 1 /\ o = 1
  <2>1. Skull(w, o) = {On(gold, GainGold(gold.run, 90))}
    BY <1>10 DEF Skull
  <2> HIDE DEF gold
  <2>2. Kept(gold.run, GainGold(gold.run, 90))
    BY <1>5, Numbers, Moves
  <2>3. Safe(On(gold, GainGold(gold.run, 90)))
    BY <1>1, <1>5, <2>2, OnSpeaks DEF Speaks, Talk
  <2> QED BY <2>1, <2>3 DEF AllSafe
<1>11. CASE w.ev.screen = 1 /\ o = 2
  <2>1. Skull(w, o) = {On(card, AddCard(card.run, k)) : k \in RandomCards}
    BY <1>11 DEF Skull
  <2> HIDE DEF card
  <2>2. ASSUME NEW k PROVE Safe(On(card, AddCard(card.run, k)))
    <3>1. Kept(card.run, AddCard(card.run, k))
      BY <1>5, Numbers, Moves
    <3> QED BY <1>1, <1>5, <3>1, OnSpeaks DEF Speaks, Talk
  <2> QED BY <2>1, <2>2 DEF AllSafe
<1>12. CASE w.ev.screen = 1 /\ o = 3
  <2>1. Skull(w, o) = {At(paid(kSkullBaseCost), 2)}
    BY <1>12 DEF Skull
  <2> HIDE DEF paid
  <2> QED BY <1>6, <2>1 DEF AllSafe
<1> QED BY <1>2, <1>7, <1>8, <1>9, <1>10, <1>11, <1>12 DEF SkullMenu

\* The Joust: a bet that is lost or won.
LEMMA JoustSafe ==
  ASSUME NEW w, Asked(w, "Joust"), NEW o \in JoustMenu(w)
  PROVE  AllSafe(Joust(w, o))
<1> DEFINE won == CASE w.ev.a = 1 /\ w.ev.b = 1 -> GainGold(w.run, 250)
                    [] w.ev.a = 0 /\ w.ev.b = 0 -> GainGold(w.run, 100)
                    [] OTHER -> w.run
           bet == [w EXCEPT !.ev.a = o]
<1>1. FinalPage("Joust") = 4 /\ (\A s : Plain("Joust", s))
  BY DEF FinalPage, Plain
<1>2. /\ w.ev.screen \in 0..4 /\ Kept(w.run, LoseGold(w.run, 50)) /\ Kept(w.run, GainGold(w.run, 250))
      /\ Kept(w.run, GainGold(w.run, 100)) /\ Kept(w.run, w.run)
  BY <1>1, Numbers, Moves, PageOf DEF Asked
<1>3. Kept(w.run, won)
  BY <1>2
<1>4. CASE w.ev.screen = 0
  BY <1>1, <1>4, Steps DEF Joust, Asked, AllSafe
<1>5. CASE w.ev.screen = 1
  <2>1. o \in Int
    BY <1>5 DEF JoustMenu
  <2>2. Speaks(bet, "Joust") /\ bet.run = w.run
    BY <1>1, <2>1, Worded DEF Asked
  <2>3. Joust(w, o) = Turn(bet, 2, {LoseGold(w.run, 50)})
    BY <1>5 DEF Joust
  <2> HIDE DEF bet
  <2> QED BY <1>1, <1>2, <2>2, <2>3, Steps
<1>6. CASE w.ev.screen = 2
  <2>1. ASSUME NEW n \in {0, 1} PROVE Safe(At([w EXCEPT !.ev.b = n], 3))
    <3>1. n \in Int
      OBVIOUS
    <3>2. Speaks([w EXCEPT !.ev.b = n], "Joust")
      BY <1>1, <3>1, Worded DEF Asked
    <3> QED BY <1>1, <3>2, Steps
  <2>2. Joust(w, o) = {At([w EXCEPT !.ev.b = n], 3) : n \in {0, 1}}
    BY <1>6 DEF Joust
  <2> QED BY <2>1, <2>2 DEF AllSafe
<1>7. CASE w.ev.screen = 3
  <2>1. Joust(w, o) = Turn(w, 4, {won})
    BY <1>7 DEF Joust
  <2> HIDE DEF won
  <2> QED BY <1>1, <1>3, <2>1, Steps DEF Asked
<1>8. CASE w.ev.screen = 4
  BY <1>8, WaysOut DEF Joust
<1> QED BY <1>2, <1>4, <1>5, <1>6, <1>7, <1>8

\* N'loth: one of two relics held for the gift.
LEMMA NlothSafe ==
  ASSUME NEW w, Asked(w, "Nloth"), NEW o \in NlothMenu(w)
  PROVE  AllSafe(Nloth(w, o))
<1> DEFINE x == w.ev.board[o + 1]
           lost == LoseRelic(w.run, x)
           R == IF Owns(w.run, "nloths_gift") THEN Acquire(w.run, "circlet")
                ELSE Acquire(lost, "nloths_gift")
<1>1. 1 \in 0..FinalPage("Nloth") /\ (\A s : Plain("Nloth", s))
  BY DEF FinalPage, Plain
<1>2. Kept(w.run, lost) /\ \A q \in Acquire(w.run, "circlet") : Kept(w.run, q)
  BY Numbers, Moves DEF Asked
<1>3. \A q \in Acquire(lost, "nloths_gift") : Kept(w.run, q)
  <2> HIDE DEF lost
  <2>1. RunOK(lost)
    BY <1>2, MoveOn
  <2>2. \A q \in Acquire(lost, "nloths_gift") : Kept(lost, q)
    BY <2>1, Moves
  <2> QED BY <1>2, <2>2, MoveOn
<1>4. CASE w.ev.screen # 0
  BY <1>4, WaysOut DEF Nloth
<1>5. CASE w.ev.screen = 0 /\ o = 2
  BY <1>1, <1>5, Steps DEF Nloth, Asked, AllSafe
<1>6. CASE w.ev.screen = 0 /\ o \in {0, 1}
  <2>1. Nloth(w, o) = Turn(w, 1, R)
    BY <1>6 DEF Nloth
  <2>2. \A q \in R : Kept(w.run, q)
    BY <1>2, <1>3
  <2> HIDE DEF R
  <2> QED BY <1>1, <2>1, <2>2, Steps DEF Asked
<1> QED BY <1>4, <1>5, <1>6 DEF NlothMenu

\* The Duplicator opens its grid.
LEMMA DuplicatorSafe ==
  ASSUME NEW w, Asked(w, "Duplicator"), NEW o \in DuplicatorMenu(w)
  PROVE  AllSafe(Duplicator(w, o))
<1>1. /\ 1 \in 0..FinalPage("Duplicator") /\ (\A s : Plain("Duplicator", s))
      /\ "duplicate" \in GridsOf("Duplicator")
  BY DEF FinalPage, Plain, GridsOf
<1>2. Safe(At(w, 1)) /\ Safe(OpenGrid(w, "duplicate"))
  BY <1>1, Steps, WaysOut DEF Asked
<1>3. CASE w.ev.screen # 0
  BY <1>3, WaysOut DEF Duplicator
<1>4. CASE w.ev.screen = 0
  <2> DEFINE v == IF o = 0 /\ w.run.deck # <<>> THEN OpenGrid(w, "duplicate") ELSE At(w, 1)
  <2>1. Safe(v)
    BY <1>2
  <2>2. Duplicator(w, o) = {v}
    BY <1>4 DEF Duplicator
  <2> QED BY <2>1, <2>2 DEF AllSafe
<1> QED BY <1>3, <1>4

\* The card picked is in the deck twice.
LEMMA DuplicatorPickSafe ==
  ASSUME NEW w, Gridded(w, "Duplicator"), NEW i \in event_grid_card_legal(w)
  PROVE  AllSafe(DuplicatorPick(w, i))
<1> DEFINE c == w.run.deck[i]
           q == AddCopy(w.run, Fresh(c.k, c.up))
<1>1. 1 \in 0..FinalPage("Duplicator") /\ (\A s : Plain("Duplicator", s)) /\ FinalPage("Duplicator") \in Nat
  BY DEF FinalPage, Plain
<1>2. Kept(w.run, q)
  BY FreshIsCard, CopyKeeps DEF Doored, Gridded, Talk, Safe, Common
<1>3. DuplicatorPick(w, i) = {On([w EXCEPT !.ev.grid = "none", !.ev.screen = 1], q)}
  BY DEF DuplicatorPick
<1> HIDE DEF q
<1>4. Safe(On([w EXCEPT !.ev.grid = "none", !.ev.screen = 1], q))
  BY <1>1, <1>2, GridDone
<1> QED BY <1>3, <1>4 DEF AllSafe

-----------------------------------------------------------------------------
\* The dialogs of every act.
LEMMA BlacksmithSafe ==
  ASSUME NEW w, Asked(w, "Blacksmith"), NEW o \in BlacksmithMenu(w)
  PROVE  AllSafe(Blacksmith(w, o))
<1> DEFINE cursed == AddCard(w.run, "regret")
<1>1. /\ 1 \in 0..FinalPage("Blacksmith") /\ (\A s : Plain("Blacksmith", s))
      /\ "upgrade" \in GridsOf("Blacksmith")
  BY DEF FinalPage, Plain, GridsOf
<1>2. Kept(w.run, cursed)
  BY Numbers, Moves DEF Asked
<1>3. \A q \in Acquire(cursed, "warped_tongs") : Kept(w.run, q)
  <2> HIDE DEF cursed
  <2>1. RunOK(cursed)
    BY <1>2, MoveOn
  <2>2. \A q \in Acquire(cursed, "warped_tongs") : Kept(cursed, q)
    BY <2>1, Moves
  <2> QED BY <1>2, <2>2, MoveOn
<1>4. CASE w.ev.screen # 0
  BY <1>4, WaysOut DEF Blacksmith
<1>5. CASE w.ev.screen = 0 /\ o = 0
  BY <1>1, <1>5, Steps DEF Blacksmith, Asked, AllSafe
<1>6. CASE w.ev.screen = 0 /\ o = 1
  BY <1>1, <1>3, <1>6, Steps DEF Blacksmith, Asked
<1>7. CASE w.ev.screen = 0 /\ o = 2
  BY <1>1, <1>7, Steps DEF Blacksmith, Asked, AllSafe
<1> QED BY <1>4, <1>5, <1>6, <1>7 DEF BlacksmithMenu

\* The Bonfire Spirits ask for a card.
LEMMA BonfireSafe ==
  ASSUME NEW w, Asked(w, "Bonfire"), NEW o \in BonfireMenu(w)
  PROVE  AllSafe(Bonfire(w, o))
<1>1. FinalPage("Bonfire") = 2 /\ (\A s : Plain("Bonfire", s)) /\ "purge" \in GridsOf("Bonfire")
  BY DEF FinalPage, Plain, GridsOf
<1>2. w.ev.screen \in 0..2
  BY <1>1, PageOf
<1>3. CASE w.ev.screen = 0
  BY <1>1, <1>3, Steps DEF Bonfire, Asked, AllSafe
<1>4. CASE w.ev.screen = 1
  <2> DEFINE v == IF grid_has_card(w.run, "purge") THEN OpenGrid(w, "purge") ELSE At(w, 2)
  <2>1. Safe(At(w, 2)) /\ Safe(OpenGrid(w, "purge"))
    BY <1>1, Steps, WaysOut DEF Asked
  <2>2. Bonfire(w, o) = {v}
    BY <1>4 DEF Bonfire
  <2> QED BY <2>1, <2>2 DEF AllSafe
<1>5. CASE w.ev.screen = 2
  BY <1>5, WaysOut DEF Bonfire
<1> QED BY <1>2, <1>3, <1>4, <1>5

\* What the fire pays leaves the deck as it is: the card to be taken is where
\* it was.
LEMMA BonfireDeck ==
  ASSUME NEW r, RunOK(r), NEW k PROVE \A q \in bonfire_pay_reward(r, k) : q.deck = r.deck
<1> DEFINE x == OrCirclet(r, "spirit_poop")
           held == [r EXCEPT !.relics = @ \cup {x}]
<1>1. x \in {"circlet", "spirit_poop"}
  BY DEF OrCirclet
<1>2. held.deck = r.deck
  BY DEF RunOK, Body, RunShape, RunFields
<1>3. Acquire(r, x) = {held}
  <2> HIDE DEF x
  <2>1. x \notin ScreenRelics
    BY <1>1 DEF ScreenRelics, Bottles, BottleType
  <2>2. WithCounter(held, x) = held
    BY <1>1 DEF WithCounter
  <2> HIDE DEF held
  <2>3. EquippedRuns(held, x) = {held}
    BY <1>1 DEF EquippedRuns
  <2> QED BY <2>1, <2>2, <2>3 DEF Acquire, held
<1>4. r.max \in Nat /\ r.max + 10 \in Int /\ Body(r)
  BY DEF RunOK, Body, Vital
<1>7. ASSUME NEW q, Body(q), NEW n \in Int PROVE Heal(q, n).deck = q.deck
  <2>1. SameCards(q, Heal(q, n))
    BY <1>7, HealKeeps
  <2> QED BY <2>1 DEF SameCards
<1>5. Heal(r, 5).deck = r.deck /\ Heal(r, r.max).deck = r.deck
  BY <1>4, <1>7
<1>6. Heal(RaiseMax(r, 10), r.max + 10).deck = r.deck
  <2>1. Body(RaiseMax(r, 10)) /\ SameCards(r, RaiseMax(r, 10))
    BY <1>4, RaiseKeeps
  <2> QED BY <1>4, <1>7, <2>1 DEF SameCards
<1> HIDE DEF held, x
<1> QED BY <1>2, <1>3, <1>5, <1>6 DEF bonfire_pay_reward, x

\* The card burnt pays by its rarity, and leaves the deck.
LEMMA BonfirePickSafe ==
  ASSUME NEW w, Gridded(w, "Bonfire"), NEW i \in event_grid_card_legal(w)
  PROVE  AllSafe(BonfirePick(w, i))
<1> DEFINE k == w.run.deck[i].k
           done == [w EXCEPT !.ev.grid = "none", !.ev.screen = 2]
<1>1. 2 \in 0..FinalPage("Bonfire") /\ (\A s : Plain("Bonfire", s)) /\ FinalPage("Bonfire") \in Nat
  BY DEF FinalPage, Plain
<1>2. i \in DOMAIN w.run.deck /\ RunOK(w.run)
  BY GridInDeck DEF event_grid_card_legal, Gridded, Talk, Safe, Common
<1>3. ASSUME NEW q \in bonfire_pay_reward(w.run, k) PROVE Kept(w.run, RemoveCard(q, i))
  <2> HIDE DEF k
  <2>1. Kept(w.run, q) /\ q.deck = w.run.deck
    BY <1>2, BonfireKeeps, BonfireDeck
  <2> QED BY <1>2, <2>1, MoveOn, Moves
<1>4. BonfirePick(w, i) = {On(done, RemoveCard(q, i)) : q \in bonfire_pay_reward(w.run, k)}
  BY DEF BonfirePick
<1>5. \A q : Kept(w.run, q) => Safe(On(done, q))
  BY <1>1, GridDone
<1> HIDE DEF k, done
<1> QED BY <1>3, <1>4, <1>5 DEF AllSafe

\* The Face Trader: gold for a wound, or a face.
LEMMA FaceTraderSafe ==
  ASSUME NEW w, Asked(w, "FaceTrader"), NEW o \in FaceTraderMenu(w)
  PROVE  AllSafe(FaceTrader(w, o))
<1> DEFINE r == w.run
           faces == IF Faces \ r.relics = {} THEN {"circlet"} ELSE Faces \ r.relics
           rich == On(w, GainGold(r, w.ev.a))
           touched == apply_event_damage(rich, w.ev.b, "none")
           R == UNION {Acquire(r, x) : x \in faces}
<1>1. FinalPage("FaceTrader") = 2 /\ (\A s : Plain("FaceTrader", s))
  BY DEF FinalPage, Plain
<1>2. /\ w.ev.screen \in 0..2 /\ Kept(r, GainGold(r, w.ev.a)) /\ w.ev.b \in Int
      /\ \A x : \A q \in Acquire(r, x) : Kept(r, q)
  BY <1>1, Numbers, Moves, PageOf DEF Asked
<1>3. CASE w.ev.screen = 0
  BY <1>1, <1>3, Steps DEF FaceTrader, Asked, AllSafe
<1>4. CASE w.ev.screen = 2
  BY <1>4, WaysOut DEF FaceTrader
<1>5. CASE w.ev.screen = 1 /\ o = 0
  <2>1. Asked(rich, "FaceTrader")
    BY <1>1, <1>2, Prizes
  <2>2. FaceTrader(w, o) = {At(touched, 2)}
    BY <1>5 DEF FaceTrader
  <2> HIDE DEF rich
  <2>3. Speaks(touched, "FaceTrader")
    BY <1>2, <2>1, WaysOut DEF Talked
  <2> HIDE DEF touched
  <2>4. Safe(At(touched, 2))
    BY <1>1, <2>3, Steps
  <2> QED BY <2>2, <2>4 DEF AllSafe
<1>6. CASE w.ev.screen = 1 /\ o = 1
  <2>1. FaceTrader(w, o) = Turn(w, 2, R)
    BY <1>6 DEF FaceTrader
  <2>2. \A q \in R : Kept(r, q)
    BY <1>2
  <2> HIDE DEF R
  <2> QED BY <1>1, <2>1, <2>2, Steps DEF Asked
<1>7. CASE w.ev.screen = 1 /\ o = 2
  BY <1>1, <1>7, Steps DEF FaceTrader, Asked, AllSafe
<1> QED BY <1>2, <1>3, <1>4, <1>5, <1>6, <1>7 DEF FaceTraderMenu

\* The Fountain washes the curses off.
LEMMA FountainSafe ==
  ASSUME NEW w, Asked(w, "Fountain"), NEW o \in FountainMenu(w)
  PROVE  AllSafe(Fountain(w, o))
<1>1. 1 \in 0..FinalPage("Fountain") /\ (\A s : Plain("Fountain", s))
  BY DEF FinalPage, Plain
<1>2. Kept(w.run, Washed(w.run))
  BY Numbers, WashKeeps DEF Asked, Doored
<1>3. CASE w.ev.screen # 0
  BY <1>3, WaysOut DEF Fountain
<1>4. CASE w.ev.screen = 0 /\ o = 0
  <2>1. Fountain(w, o) = Turn(w, 1, {Washed(w.run)})
    BY <1>4 DEF Fountain
  <2> QED BY <1>1, <1>2, <2>1, Steps DEF Asked
<1>5. CASE w.ev.screen = 0 /\ o = 1
  <2>1. Fountain(w, o) = {At(w, 1)}
    BY <1>5 DEF Fountain
  <2> QED BY <1>1, <2>1, Steps DEF Asked, AllSafe
<1> QED BY <1>3, <1>4, <1>5 DEF FountainMenu

\* A screen of potions.
LEMMA PotionScreensSafe ==
  ASSUME NEW id, NEW w, Asked(w, id), NEW n \in Nat
  PROVE  AllSafe(PotionScreens(w, n))
<1> SUFFICES ASSUME NEW f \in [1..n -> RandomPotions]
             PROVE  Safe(OpenLoot([w EXCEPT !.loot = [rows |-> [i \in 1..n |-> Row("potion", 0, f[i])],
                                                      open |-> 0]]))
  BY DEF AllSafe, PotionScreens
<1> DEFINE rows == [i \in 1..n |-> Row("potion", 0, f[i])]
           l == [rows |-> rows, open |-> 0]
           S == {Row("potion", 0, x) : x \in RandomPotions}
           seen == [w EXCEPT !.loot = l]
<1>1. rows \in Seq(S)
  OBVIOUS
<1>2. \A row \in S : RowOK(row)
  BY SomeRows DEF RowKinds
<1> HIDE DEF rows, S
<1>3. LootOK(l)
  <2>1. l = [x \in {"rows", "open"} |-> l[x]] /\ l.rows = rows /\ l.open = 0 /\ Len(rows) \in Nat
    BY <1>1
  <2> HIDE DEF l
  <2> QED BY <1>1, <1>2, <2>1 DEF LootOK
<1> HIDE DEF l
<1>4. Speaks(seen, id) /\ seen.run = w.run
  BY <1>3, LootSpeaks DEF Asked
<1> HIDE DEF seen
<1>5. Safe(OpenLoot(seen))
  BY <1>4, PageOf, OpenLootSafe DEF Speaks
<1> QED BY <1>5 DEF seen, l, rows

\* The Lab: a screen of potions.
LEMMA LabSafe ==
  ASSUME NEW w, Asked(w, "Lab"), NEW o \in LabMenu(w)
  PROVE  AllSafe(Lab(w, o))
<1> DEFINE n == IF w.run.hard THEN 2 ELSE 3
<1>1. CASE w.ev.screen # 0
  BY <1>1, WaysOut DEF Lab
<1>2. CASE w.ev.screen = 0
  <2>1. Lab(w, o) = PotionScreens(w, n) /\ n \in Nat
    BY <1>2 DEF Lab
  <2> HIDE DEF n
  <2> QED BY <2>1, PotionScreensSafe
<1> QED BY <1>1, <1>2

\* A Note For Yourself: a card for another.
LEMMA NoteSafe ==
  ASSUME NEW w, Asked(w, "Note"), NEW o \in NoteMenu(w)
  PROVE  AllSafe(Note(w, o))
<1> DEFINE last == At(w, 2)
           taken == On(last, AddCardOnTop(w.run, "power"))
           v == IF grid_has_card(taken.run, "purge") THEN OpenGrid(taken, "purge") ELSE taken
<1>1. FinalPage("Note") = 2 /\ (\A s : Plain("Note", s)) /\ "purge" \in GridsOf("Note")
  BY DEF FinalPage, Plain, GridsOf
<1>2. w.ev.screen \in 0..2 /\ Kept(w.run, AddCardOnTop(w.run, "power"))
  BY <1>1, Numbers, Moves, PageOf DEF Asked
<1>3. CASE w.ev.screen = 0
  BY <1>1, <1>3, Steps DEF Note, Asked, AllSafe
<1>4. CASE w.ev.screen = 2
  BY <1>4, WaysOut DEF Note
<1>5. CASE w.ev.screen = 1 /\ o = 0
  <2>1. Asked(last, "Note") /\ last.run = w.run
    BY <1>1, Steps DEF Asked
  <2>2. Note(w, o) = {v}
    BY <1>5 DEF Note
  <2> HIDE DEF last
  <2>3. Asked(taken, "Note")
    BY <1>1, <1>2, <2>1, Prizes
  <2> HIDE DEF taken
  <2>4. Safe(taken) /\ Safe(OpenGrid(taken, "purge"))
    BY <1>1, <2>3, WaysOut
  <2> QED BY <2>2, <2>4 DEF AllSafe
<1>6. CASE w.ev.screen = 1 /\ o = 1
  BY <1>1, <1>6, Steps DEF Note, Asked, AllSafe
<1> QED BY <1>2, <1>3, <1>4, <1>5, <1>6 DEF NoteMenu

\* The card he asks for is one the deck has held since the dialog opened.
LEMMA WeMeetAgainSafe ==
  ASSUME NEW w, Asked(w, "WeMeetAgain"), NEW o \in WeMeetAgainMenu(w)
  PROVE  AllSafe(WeMeetAgain(w, o))
<1> DEFINE r == w.run
<1>1. 1 \in 0..FinalPage("WeMeetAgain") /\ Plain("WeMeetAgain", 1)
  BY DEF FinalPage, Plain
<1>2. RunOK(r) /\ SpecialOf(w.ev, r) /\ w.ev.id = "WeMeetAgain" /\ w.ev.b \in Int
  BY PageOf, Numbers DEF Asked
<1>3. ASSUME NEW q, Kept(r, q) PROVE AllSafe(Turn(w, 1, EventRelicRuns(q)))
  <2>1. RunOK(q)
    BY <1>3, MoveOn
  <2>2. \A p \in EventRelicRuns(q) : Kept(q, p)
    BY <2>1, Moves
  <2>3. \A p \in EventRelicRuns(q) : Kept(r, p)
    BY <1>3, <2>2, MoveOn
  <2> QED BY <1>1, <2>3, Steps DEF Asked
<1>4. CASE w.ev.screen # 0
  BY <1>4, WaysOut DEF WeMeetAgain
<1>5. CASE w.ev.screen = 0 /\ o = 0
  <2>1. Kept(r, ClearSlot(r, w.ev.a))
    BY <1>2, Moves
  <2> QED BY <1>3, <1>5, <2>1 DEF WeMeetAgain
<1>6. CASE w.ev.screen = 0 /\ o = 1
  <2>1. Kept(r, LoseGold(r, w.ev.b))
    BY <1>2, Moves
  <2> QED BY <1>3, <1>6, <2>1 DEF WeMeetAgain
<1>7. CASE w.ev.screen = 0 /\ o = 2
  <2>1. w.ev.c \in DOMAIN r.deck
    BY <1>2, <1>7 DEF SpecialOf, WeMeetAgainMenu
  <2>2. Kept(r, RemoveCard(r, w.ev.c))
    BY <1>2, <2>1, Moves
  <2> QED BY <1>3, <1>7, <2>2 DEF WeMeetAgain
<1>8. CASE w.ev.screen = 0 /\ o = 3
  BY <1>1, <1>8, Steps DEF WeMeetAgain, Asked, AllSafe
<1> QED BY <1>4, <1>5, <1>6, <1>7, <1>8 DEF WeMeetAgainMenu

\* The Woman in Blue: potions for gold, or a blow.
LEMMA WomanInBlueSafe ==
  ASSUME NEW w, Asked(w, "WomanInBlue"), NEW o \in WomanInBlueMenu(w)
  PROVE  AllSafe(WomanInBlue(w, o))
<1> DEFINE r == w.run
           cost == CeilPercent(r.max, 5)
           hit == apply_event_damage(w, cost, "none")
           price == 20 + 10 * o
           paid == On(w, LoseGold(r, price))
<1>1. 1 \in 0..FinalPage("WomanInBlue") /\ (\A s : Plain("WomanInBlue", s))
  BY DEF FinalPage, Plain
<1>2. RunOK(r) /\ r.max \in Nat
  BY Numbers DEF Asked
<1>3. cost \in Int
  BY <1>2 DEF CeilPercent
<1>4. CASE w.ev.screen # 0
  BY <1>4, WaysOut DEF WomanInBlue
<1>5. CASE w.ev.screen = 0 /\ o \in 0..2
  <2>1. WomanInBlue(w, o) = PotionScreens(paid, o + 1)
    BY <1>5 DEF WomanInBlue
  <2>2. price \in Int /\ o + 1 \in Nat
    BY <1>5
  <2> HIDE DEF price
  <2>3. Kept(r, LoseGold(r, price))
    BY <1>2, <2>2, Moves
  <2>4. Asked(paid, "WomanInBlue")
    BY <1>1, <2>3, Prizes
  <2> HIDE DEF paid
  <2> QED BY <2>1, <2>2, <2>4, PotionScreensSafe
<1>6. CASE w.ev.screen = 0 /\ o = 3
  <2>1. Speaks(hit, "WomanInBlue") /\ Speaks(w, "WomanInBlue")
    BY <1>3, WaysOut DEF Talked
  <2> HIDE DEF hit
  <2>2. Safe(At(hit, 1)) /\ Safe(At(w, 1))
    BY <1>1, <2>1, Steps
  <2> DEFINE v == At(IF r.hard THEN hit ELSE w, 1)
  <2>3. WomanInBlue(w, o) = {v}
    BY <1>6 DEF WomanInBlue, hit
  <2>4. Safe(v)
    BY <2>2
  <2> QED BY <2>3, <2>4 DEF AllSafe
<1> QED BY <1>4, <1>5, <1>6 DEF WomanInBlueMenu

-----------------------------------------------------------------------------
\* The designer.
LEMMA UpgradedSafe ==
  ASSUME NEW w, Asked(w, "Designer"), NEW n
  PROVE  \A v \in designer_upgrade_random(w, n) : Speaks(v, "Designer") /\ Safe(v)
<1>1. \A s : Plain("Designer", s)
  BY DEF Plain
<1>2. \A q \in UpgradeSome(w.run, Upgradeable(w.run), n) : Kept(w.run, q)
  BY Numbers, Moves DEF Asked
<1> QED BY <1>1, <1>2, Prizes DEF designer_upgrade_random, Asked, Speaks, Talk

\* The Designer's services, each paid for.
LEMMA DesignerSafe ==
  ASSUME NEW w, Asked(w, "Designer"), NEW o \in DesignerMenu(w)
  PROVE  AllSafe(Designer(w, o))
<1> DEFINE r == w.run
           grid(v, kind) == IF grid_has_card(v.run, kind) THEN {OpenGrid(v, kind)} ELSE {At(v, 2)}
           adjusted == On(w, LoseGold(r, designer_adjust_cost(r)))
           cleaned == On(w, LoseGold(r, designer_clean_up_cost(r)))
           paid == On(w, LoseGold(r, designer_full_service_cost(r)))
           served == [paid EXCEPT !.ev.c = 2]
           hurt == apply_event_damage(w, IF r.hard THEN 5 ELSE 3, "none")
<1>1. FinalPage("Designer") = 2 /\ (\A s : Plain("Designer", s))
      /\ {"upgrade", "purge", "transformable"} \subseteq GridsOf("Designer") \ {"pair_second"}
  BY DEF FinalPage, Plain, GridsOf
<1>2. w.ev.screen \in 0..2 /\ RunOK(r)
  BY <1>1, PageOf, Numbers DEF Asked
<1>3. /\ Kept(r, LoseGold(r, designer_adjust_cost(r))) /\ Kept(r, LoseGold(r, designer_clean_up_cost(r)))
      /\ Kept(r, LoseGold(r, designer_full_service_cost(r)))
  <2>1. /\ designer_adjust_cost(r) \in Int /\ designer_clean_up_cost(r) \in Int
        /\ designer_full_service_cost(r) \in Int
    BY DEF designer_adjust_cost, designer_clean_up_cost, designer_full_service_cost
  <2> QED BY <1>2, <2>1, Moves
<1>4. Asked(adjusted, "Designer") /\ Asked(cleaned, "Designer") /\ Asked(paid, "Designer")
  BY <1>1, <1>3, Prizes
<1>5. Asked(served, "Designer")
  <2> DEFINE two == 2
             v == [paid EXCEPT !.ev.c = two]
  <2> HIDE DEF paid
  <2>1. two \in Int
    OBVIOUS
  <2> HIDE DEF two
  <2>2. v \in {[paid EXCEPT !.ev.a = two], [paid EXCEPT !.ev.b = two], [paid EXCEPT !.ev.c = two]}
    OBVIOUS
  <2>3. Speaks(v, "Designer") /\ v.phase = paid.phase
    BY <1>1, <1>4, <2>1, <2>2, Worded DEF Asked
  <2> QED BY <1>4, <2>3 DEF Asked, two, paid
<1>6. ASSUME NEW v, Asked(v, "Designer"), NEW kind \in {"upgrade", "purge", "transformable"}
      PROVE  AllSafe(grid(v, kind))
  <2>1. Safe(OpenGrid(v, kind)) /\ Safe(At(v, 2))
    BY <1>1, <1>6, WaysOut, Steps DEF Asked
  <2> QED BY <2>1 DEF AllSafe
<1>7. CASE w.ev.screen = 0
  BY <1>1, <1>7, Steps DEF Designer, Asked, AllSafe
<1>8. CASE w.ev.screen = 2
  BY <1>8, WaysOut DEF Designer
<1>9. CASE w.ev.screen = 1 /\ o = 0
  <2>1. Designer(w, o) = IF w.ev.a = 1 THEN grid(adjusted, "upgrade")
                         ELSE {At(v, 2) : v \in designer_upgrade_random(adjusted, 2)}
    BY <1>9 DEF Designer
  <2>2. \A v \in designer_upgrade_random(adjusted, 2) : Safe(At(v, 2))
    <3> HIDE DEF adjusted
    <3> QED BY <1>1, <1>4, UpgradedSafe, Steps
  <2>3. AllSafe(grid(adjusted, "upgrade"))
    BY <1>4, <1>6
  <2> HIDE DEF adjusted, grid
  <2> QED BY <2>1, <2>2, <2>3 DEF AllSafe
<1>10. CASE w.ev.screen = 1 /\ o = 1
  <2> DEFINE kind == IF w.ev.b = 1 THEN "purge" ELSE "transformable"
  <2>1. Designer(w, o) = grid(cleaned, kind)
    BY <1>10 DEF Designer
  <2>2. kind \in {"upgrade", "purge", "transformable"}
    OBVIOUS
  <2> HIDE DEF cleaned, kind
  <2> QED BY <1>4, <1>6, <2>1, <2>2
<1>11. CASE w.ev.screen = 1 /\ o = 2
  <2>1. Designer(w, o) = grid(served, "purge")
    BY <1>11 DEF Designer
  <2> HIDE DEF served
  <2> QED BY <1>5, <1>6, <2>1
<1>12. CASE w.ev.screen = 1 /\ o = 3
  <2>1. Speaks(hurt, "Designer")
    BY WaysOut DEF Talked
  <2>2. Designer(w, o) = {At(hurt, 2)}
    BY <1>12 DEF Designer
  <2> HIDE DEF hurt
  <2>3. Safe(At(hurt, 2))
    BY <1>1, <2>1, Steps
  <2> QED BY <2>2, <2>3 DEF AllSafe
<1> QED BY <1>2, <1>7, <1>8, <1>9, <1>10, <1>11, <1>12 DEF DesignerMenu

\* The designer's pair: the second card's place is taken as the first one's
\* removal leaves it.
LEMMA DesignerPairKept ==
  ASSUME NEW r, RunOK(r), NEW first \in DOMAIN r.deck, NEW i \in DOMAIN r.deck, i # first,
         NEW n1, NEW n2
  PROVE  LET left == RemoveCard(RemoveCard(r, first), IF i > first THEN i - 1 ELSE i)
         IN  Kept(r, AddCard(AddCard(left, n1), n2))
<1> DEFINE j == IF i > first THEN i - 1 ELSE i
           once == RemoveCard(r, first)
           left == RemoveCard(once, j)
<1>1. Kept(r, once) /\ Len(once.deck) = Len(r.deck) - 1
  BY RemoveKeeps DEF Doored
<1>2. DOMAIN r.deck = 1..Len(r.deck) /\ Len(r.deck) \in Nat
  BY DeckPlaces DEF RunOK, Body
<1> HIDE DEF once
<1>3. DOMAIN once.deck = 1..Len(once.deck)
  BY <1>1, DeckPlaces DEF Kept, RunOK, Body
<1>4. j \in DOMAIN once.deck
  BY <1>1, <1>2, <1>3
<1> HIDE DEF j
<1>5. Kept(r, left)
  BY <1>1, <1>4, MoveOn, Moves
<1> HIDE DEF left
<1>6. Kept(r, AddCard(left, n1))
  BY <1>5, MoveOn, Moves
<1>7. Kept(r, AddCard(AddCard(left, n1), n2))
  BY <1>6, MoveOn, Moves
<1> QED BY <1>7 DEF left, once, j

\* The designer's grids: the page after the last service, or the second card's
\* grid.
LEMMA DesignerPickSafe ==
  ASSUME NEW w, Gridded(w, "Designer"), NEW i \in event_grid_card_legal(w)
  PROVE  AllSafe(DesignerPick(w, i))
<1> DEFINE r == w.run
           first == w.ev.d
           k1 == r.deck[first].k
           k2 == r.deck[i].k
           left == RemoveCard(RemoveCard(r, first), IF i > first THEN i - 1 ELSE i)
           done == [w EXCEPT !.ev.grid = "none", !.ev.c = 0, !.ev.d = 0, !.ev.screen = 2]
           e == [w.ev EXCEPT !.grid = "none", !.c = 0, !.d = 0, !.screen = 2]
           pair == [w EXCEPT !.ev.grid = "pair_second", !.ev.d = i]
           f == [w.ev EXCEPT !.grid = "pair_second", !.d = i]
<1>1. FinalPage("Designer") = 2
      /\ GridsOf("Designer") = {"none", "upgrade", "purge", "transformable", "pair_second"}
  BY DEF FinalPage, GridsOf
<1>2. /\ RunOK(r) /\ r.hp > 0 /\ EvShape(w.ev) /\ w.ev.id = "Designer" /\ WShape(w)
      /\ EvOK(w.ev, r) /\ w.phase = "dialog" /\ Talk(w)
  BY DEF Gridded, Talk, Safe, Common, DialogOK
<1>3. i \in DOMAIN r.deck /\ DOMAIN r.deck = 1..Len(r.deck) /\ Len(r.deck) \in Nat
  BY <1>2, GridInDeck, DeckPlaces DEF event_grid_card_legal, RunOK, Body
<1>4. ASSUME NEW q, Kept(r, q) PROVE Safe(On(done, q)) /\ Asked(On(done, q), "Designer")
  <2>1. On(done, q) = [w EXCEPT !.run = q, !.ev = e]
    BY <1>2 DEF On, WShape, WorldFields
  <2>2. e = [x \in EvFields |-> e[x]] /\ e.id = "Designer" /\ e.screen = 2 /\ e.grid = "none"
        /\ e.a = w.ev.a /\ e.b = w.ev.b /\ e.c = 0 /\ e.d = 0
    BY <1>2 DEF EvShape, EvFields
  <2> HIDE DEF e, done
  <2>3. EvShape(e)
    BY <1>2, <2>2 DEF EvShape
  <2>4. EvOK(e, q)
    BY <1>1, <2>2 DEF EvOK, SpecialOf, Events
  <2>5. Safe([w EXCEPT !.run = q, !.ev = e]) /\ Asked([w EXCEPT !.run = q, !.ev = e], e.id)
    BY <1>2, <1>4, <2>2, <2>3, <2>4, Noted
  <2> QED BY <2>1, <2>2, <2>5
<1>5. CASE w.ev.grid = "upgrade"
  <2>1. DesignerPick(w, i) = {On(done, UpgradeCard(r, i))}
    BY <1>5 DEF DesignerPick
  <2>2. Kept(r, UpgradeCard(r, i))
    BY <1>2, Moves
  <2> HIDE DEF done
  <2> QED BY <1>4, <2>1, <2>2 DEF AllSafe
<1>6. CASE w.ev.grid = "purge"
  <2>1. DesignerPick(w, i) = IF w.ev.c = 2 THEN designer_upgrade_random(On(done, RemoveCard(r, i)), 1)
                             ELSE {On(done, RemoveCard(r, i))}
    BY <1>6 DEF DesignerPick
  <2>2. Kept(r, RemoveCard(r, i))
    BY <1>2, <1>3, Moves
  <2> HIDE DEF done
  <2>3. Safe(On(done, RemoveCard(r, i))) /\ Asked(On(done, RemoveCard(r, i)), "Designer")
    BY <1>4, <2>2
  <2>4. AllSafe(designer_upgrade_random(On(done, RemoveCard(r, i)), 1))
    BY <2>3, UpgradedSafe DEF AllSafe
  <2> QED BY <2>1, <2>3, <2>4 DEF AllSafe
<1>7. CASE w.ev.grid = "transformable"
  <2>1. DesignerPick(w, i) = IF GridCards(r, "pair_second", i) # {} THEN {pair}
                             ELSE {On(done, q) : q \in Transform(r, i)}
    BY <1>7 DEF DesignerPick
  <2>2. \A q \in Transform(r, i) : Kept(r, q)
    BY <1>2, <1>3, Moves
  <2>3. Safe(pair)
    <3>1. pair = [w EXCEPT !.run = r, !.ev = f]
      BY <1>2 DEF WShape, WorldFields
    <3>2. f = [x \in EvFields |-> f[x]] /\ f.id = "Designer" /\ f.screen = w.ev.screen
          /\ f.grid = "pair_second" /\ f.a = w.ev.a /\ f.b = w.ev.b /\ f.c = w.ev.c /\ f.d = i
      BY <1>2 DEF EvShape, EvFields
    <3> HIDE DEF f, pair
    <3>3. EvShape(f)
      BY <1>2, <1>3, <3>2 DEF EvShape
    <3>4. EvOK(f, r)
      BY <1>1, <1>2, <1>3, <3>2 DEF EvOK, SpecialOf, Events
    <3>5. Kept(r, r)
      BY <1>2, Moves
    <3> QED BY <1>2, <3>1, <3>3, <3>4, <3>5, Noted
  <2> HIDE DEF pair, done
  <2> QED BY <1>4, <2>1, <2>2, <2>3 DEF AllSafe
<1>8. CASE w.ev.grid = "pair_second"
  <2>1. DesignerPick(w, i) = {On(done, AddCard(AddCard(left, n1), n2)) :
                                n1 \in TransformsOf(k1), n2 \in TransformsOf(k2)}
    BY <1>8 DEF DesignerPick
  <2>2. first \in DOMAIN r.deck
    BY <1>2, <1>8 DEF EvOK, SpecialOf
  <2>3. i # first
    BY <1>8 DEF event_grid_card_legal, GridCards
  <2>4. \A n1, n2 : Kept(r, AddCard(AddCard(left, n1), n2))
    BY <1>2, <1>3, <2>2, <2>3, DesignerPairKept
  <2> HIDE DEF left, done, k1, k2
  <2> QED BY <1>4, <2>1, <2>4 DEF AllSafe
<1>9. w.ev.grid # "none"
  BY DEF event_grid_card_legal, GridCards
<1>10. w.ev.grid \in GridsOf("Designer")
  BY <1>2 DEF EvOK
<1> QED BY <1>1, <1>5, <1>6, <1>7, <1>8, <1>9, <1>10

-----------------------------------------------------------------------------
\* A grid of one of the three common kinds, and the page its pick turns to.
LEMMA PickThenPage ==
  ASSUME NEW id, NEW w, Gridded(w, id), Plain(id, w.ev.screen), w.ev.grid \in PickGrids,
         NEW i \in event_grid_card_legal(w)
  PROVE  \A v \in Picked(w, i) :
           Safe(v) /\ AllSafe(Leave(v)) /\ \A s \in 0..FinalPage(id) : Plain(id, s) => Safe(At(v, s))
<1> SUFFICES ASSUME NEW v \in Picked(w, i)
             PROVE  Safe(v) /\ AllSafe(Leave(v)) /\ \A s \in 0..FinalPage(id) : Plain(id, s) => Safe(At(v, s))
  OBVIOUS
<1>1. Speaks(v, id) /\ Safe(v)
  BY PickSpeaks
<1> QED BY <1>1, Steps, LeaveSafe DEF AllSafe, Speaks

\* A grid's pick, whatever the event.
LEMMA GridPickedSafe ==
  ASSUME NEW w, Safe(w), w.phase = "dialog", NEW i \in event_grid_card_legal(w)
  PROVE  AllSafe(GridPicked(w, i))
<1> DEFINE id == w.ev.id
<1>1. /\ Talk(w) /\ EvOK(w.ev, w.run) /\ w.ev.grid # "none" /\ Gridded(w, id)
      /\ w.ev.grid \in GridsOf(id)
  BY DEF Safe, DialogOK, Talk, event_grid_card_legal, GridCards, EvOK, Gridded
<1>0. w.ev.id = id
  OBVIOUS
<1> HIDE DEF id
<1>2. CASE id = "DrugDealer"
  <2>1. w.ev.grid = "transformable_any"
    BY <1>1, <1>2 DEF GridsOf
  <2>2. GridPicked(w, i) = DrugDealerPick(w, i)
    BY <1>0, <1>2 DEF GridPicked
  <2> QED BY <1>1, <1>2, <2>1, <2>2, DrugDealerPickSafe
<1>3. CASE id = "Duplicator"
  <2>2. GridPicked(w, i) = DuplicatorPick(w, i)
    BY <1>0, <1>3 DEF GridPicked
  <2> QED BY <1>1, <1>3, <2>2, DuplicatorPickSafe
<1>4. CASE id = "Designer"
  <2>2. GridPicked(w, i) = DesignerPick(w, i)
    BY <1>0, <1>4 DEF GridPicked
  <2> QED BY <1>1, <1>4, <2>2, DesignerPickSafe
<1>5. CASE id = "Bonfire"
  <2>2. GridPicked(w, i) = BonfirePick(w, i)
    BY <1>0, <1>5 DEF GridPicked
  <2> QED BY <1>1, <1>5, <2>2, BonfirePickSafe
<1>6. CASE id \notin {"DrugDealer", "Duplicator", "Designer", "Bonfire"}
  <2>1. w.ev.grid \in PickGrids /\ id \notin Writers \ {"Wheel"}
    BY <1>1, <1>6 DEF GridsOf, PickGrids, Writers
  <2>2. Plain(id, w.ev.screen)
    BY <1>0, <1>1, <2>1 DEF Plain, Writers, EvOK, SpecialOf
  <2>8. \A v \in Picked(w, i) :
          Safe(v) /\ AllSafe(Leave(v)) /\ \A s \in 0..FinalPage(id) : Plain(id, s) => Safe(At(v, s))
    BY <1>1, <2>1, <2>2, PickThenPage
  <2>4. CASE id = "Cleric"
    <3>1. GridPicked(w, i) = {At(v, 1) : v \in Picked(w, i)}
      BY <1>0, <2>4 DEF GridPicked, ClericPick
    <3>2. 1 \in 0..FinalPage(id) /\ Plain(id, 1)
      BY <2>4 DEF FinalPage, Plain
    <3> QED BY <2>8, <3>1, <3>2 DEF AllSafe
  <2>5. CASE id = "GoldenWing"
    <3>1. GridPicked(w, i) = {At(v, 2) : v \in Picked(w, i)}
      BY <1>0, <2>5 DEF GridPicked, GoldenWingPick
    <3>2. 2 \in 0..FinalPage(id) /\ Plain(id, 2)
      BY <2>5 DEF FinalPage, Plain
    <3> QED BY <2>8, <3>1, <3>2 DEF AllSafe
  <2>6. CASE id = "Beggar"
    <3>1. GridPicked(w, i) = UNION {Leave(v) : v \in Picked(w, i)}
      BY <1>0, <2>6 DEF GridPicked, BeggarPick
    <3> QED BY <2>8, <3>1 DEF AllSafe
  <2>7. CASE id \notin {"Cleric", "GoldenWing", "Beggar"}
    <3>1. GridPicked(w, i) = Picked(w, i)
      BY <1>0, <1>6, <2>7 DEF GridPicked
    <3> QED BY <2>8, <3>1 DEF AllSafe
  <2> QED BY <2>4, <2>5, <2>6, <2>7
<1> QED BY <1>2, <1>3, <1>4, <1>5, <1>6

-----------------------------------------------------------------------------
\* An option of a dialog, whatever the event.
LEMMA ChosenSafe ==
  ASSUME NEW w, Safe(w), w.phase = "dialog", w.ev.grid = "none", NEW o \in Menu(w)
  PROVE  AllSafe(Chosen(w, o))
<1>1. w.ev.id \in Events /\ Asked(w, w.ev.id)
  BY DEF Safe, DialogOK, EvOK, Asked, Speaks, Talk
<1> DEFINE id == w.ev.id
<1>2. w.ev.id = id
  OBVIOUS
<1> HIDE DEF id
<1>3. CASE id = "BigFish"
  <2>1. o \in BigFishMenu(w) /\ Chosen(w, o) = BigFish(w, o)
    BY <1>2, <1>3 DEF Menu, Chosen
  <2> QED BY <1>1, <1>2, <1>3, <2>1, BigFishSafe
<1>4. CASE id = "Cleric"
  <2>1. o \in ClericMenu(w) /\ Chosen(w, o) = Cleric(w, o)
    BY <1>2, <1>4 DEF Menu, Chosen
  <2> QED BY <1>1, <1>2, <1>4, <2>1, ClericSafe
<1>5. CASE id = "DeadAdventurer"
  <2>1. o \in DeadAdventurerMenu(w) /\ Chosen(w, o) = DeadAdventurer(w, o)
    BY <1>2, <1>5 DEF Menu, Chosen
  <2> QED BY <1>1, <1>2, <1>5, <2>1, DeadAdventurerSafe
<1>6. CASE id = "GoldenIdol"
  <2>1. o \in GoldenIdolMenu(w) /\ Chosen(w, o) = GoldenIdol(w, o)
    BY <1>2, <1>6 DEF Menu, Chosen
  <2> QED BY <1>1, <1>2, <1>6, <2>1, GoldenIdolSafe
<1>7. CASE id = "GoldenWing"
  <2>1. o \in GoldenWingMenu(w) /\ Chosen(w, o) = GoldenWing(w, o)
    BY <1>2, <1>7 DEF Menu, Chosen
  <2> QED BY <1>1, <1>2, <1>7, <2>1, GoldenWingSafe
<1>8. CASE id = "WorldOfGoop"
  <2>1. o \in WorldOfGoopMenu(w) /\ Chosen(w, o) = WorldOfGoop(w, o)
    BY <1>2, <1>8 DEF Menu, Chosen
  <2> QED BY <1>1, <1>2, <1>8, <2>1, WorldOfGoopSafe
<1>9. CASE id = "LiarsGame"
  <2>1. o \in LiarsGameMenu(w) /\ Chosen(w, o) = LiarsGame(w, o)
    BY <1>2, <1>9 DEF Menu, Chosen
  <2> QED BY <1>1, <1>2, <1>9, <2>1, LiarsGameSafe
<1>10. CASE id = "LivingWall"
  <2>1. o \in LivingWallMenu(w) /\ Chosen(w, o) = LivingWall(w, o)
    BY <1>2, <1>10 DEF Menu, Chosen
  <2> QED BY <1>1, <1>2, <1>10, <2>1, LivingWallSafe
<1>11. CASE id = "Mushrooms"
  <2>1. o \in MushroomsMenu(w) /\ Chosen(w, o) = Mushrooms(w, o)
    BY <1>2, <1>11 DEF Menu, Chosen
  <2> QED BY <1>1, <1>2, <1>11, <2>1, MushroomsSafe
<1>12. CASE id = "ScrapOoze"
  <2>1. o \in ScrapOozeMenu(w) /\ Chosen(w, o) = ScrapOoze(w, o)
    BY <1>2, <1>12 DEF Menu, Chosen
  <2> QED BY <1>1, <1>2, <1>12, <2>1, ScrapOozeSafe
<1>13. CASE id = "ShiningLight"
  <2>1. o \in ShiningLightMenu(w) /\ Chosen(w, o) = ShiningLight(w, o)
    BY <1>2, <1>13 DEF Menu, Chosen
  <2> QED BY <1>1, <1>2, <1>13, <2>1, ShiningLightSafe
<1>14. CASE id = "MatchAndKeep"
  <2>1. o \in MatchAndKeepMenu(w) /\ Chosen(w, o) = MatchAndKeep(w, o)
    BY <1>2, <1>14 DEF Menu, Chosen
  <2> QED BY <1>1, <1>2, <1>14, <2>1, MatchAndKeepSafe
<1>15. CASE id = "GoldenShrine"
  <2>1. o \in GoldenShrineMenu(w) /\ Chosen(w, o) = GoldenShrine(w, o)
    BY <1>2, <1>15 DEF Menu, Chosen
  <2> QED BY <1>1, <1>2, <1>15, <2>1, GoldenShrineSafe
<1>16. CASE id = "Transmogrifier"
  <2>1. Chosen(w, o) = Shrine(w, o, "transformable")
    BY <1>2, <1>16 DEF Chosen, Transmogrifier
  <2> QED BY <1>1, <1>2, <1>16, <2>1, ShrineSafe
<1>17. CASE id = "Purifier"
  <2>1. Chosen(w, o) = Shrine(w, o, "purge")
    BY <1>2, <1>17 DEF Chosen, Purifier
  <2> QED BY <1>1, <1>2, <1>17, <2>1, ShrineSafe
<1>18. CASE id = "UpgradeShrine"
  <2>1. Chosen(w, o) = Shrine(w, o, "upgrade")
    BY <1>2, <1>18 DEF Chosen, UpgradeShrine
  <2> QED BY <1>1, <1>2, <1>18, <2>1, ShrineSafe
<1>19. CASE id = "Wheel"
  <2>1. o \in WheelMenu(w) /\ Chosen(w, o) = Wheel(w, o)
    BY <1>2, <1>19 DEF Menu, Chosen
  <2> QED BY <1>1, <1>2, <1>19, <2>1, WheelSafe
<1>20. CASE id = "Addict"
  <2>1. o \in AddictMenu(w) /\ Chosen(w, o) = Addict(w, o)
    BY <1>2, <1>20 DEF Menu, Chosen
  <2> QED BY <1>1, <1>2, <1>20, <2>1, AddictSafe
<1>21. CASE id = "BackToBasics"
  <2>1. o \in BackToBasicsMenu(w) /\ Chosen(w, o) = BackToBasics(w, o)
    BY <1>2, <1>21 DEF Menu, Chosen
  <2> QED BY <1>1, <1>2, <1>21, <2>1, BackToBasicsSafe
<1>22. CASE id = "Beggar"
  <2>1. o \in BeggarMenu(w) /\ Chosen(w, o) = Beggar(w, o)
    BY <1>2, <1>22 DEF Menu, Chosen
  <2> QED BY <1>1, <1>2, <1>22, <2>1, BeggarSafe
<1>23. CASE id = "CursedTome"
  <2>1. o \in CursedTomeMenu(w) /\ Chosen(w, o) = CursedTome(w, o)
    BY <1>2, <1>23 DEF Menu, Chosen
  <2> QED BY <1>1, <1>2, <1>23, <2>1, CursedTomeSafe
<1>24. CASE id = "DrugDealer"
  <2>1. o \in DrugDealerMenu(w) /\ Chosen(w, o) = DrugDealer(w, o)
    BY <1>2, <1>24 DEF Menu, Chosen
  <2> QED BY <1>1, <1>2, <1>24, <2>1, DrugDealerSafe
<1>25. CASE id = "ForgottenAltar"
  <2>1. o \in ForgottenAltarMenu(w) /\ Chosen(w, o) = ForgottenAltar(w, o)
    BY <1>2, <1>25 DEF Menu, Chosen
  <2> QED BY <1>1, <1>2, <1>25, <2>1, ForgottenAltarSafe
<1>26. CASE id = "Ghosts"
  <2>1. o \in GhostsMenu(w) /\ Chosen(w, o) = Ghosts(w, o)
    BY <1>2, <1>26 DEF Menu, Chosen
  <2> QED BY <1>1, <1>2, <1>26, <2>1, GhostsSafe
<1>27. CASE id = "Vampires"
  <2>1. o \in VampiresMenu(w) /\ Chosen(w, o) = Vampires(w, o)
    BY <1>2, <1>27 DEF Menu, Chosen
  <2> QED BY <1>1, <1>2, <1>27, <2>1, VampiresSafe
<1>28. CASE id = "Nest"
  <2>1. o \in NestMenu(w) /\ Chosen(w, o) = Nest(w, o)
    BY <1>2, <1>28 DEF Menu, Chosen
  <2> QED BY <1>1, <1>2, <1>28, <2>1, NestSafe
<1>29. CASE id = "Library"
  <2>1. o \in LibraryMenu(w) /\ Chosen(w, o) = Library(w, o)
    BY <1>2, <1>29 DEF Menu, Chosen
  <2> QED BY <1>1, <1>2, <1>29, <2>1, LibrarySafe
<1>30. CASE id = "Mausoleum"
  <2>1. o \in MausoleumMenu(w) /\ Chosen(w, o) = Mausoleum(w, o)
    BY <1>2, <1>30 DEF Menu, Chosen
  <2> QED BY <1>1, <1>2, <1>30, <2>1, MausoleumSafe
<1>31. CASE id = "colosseum"
  <2>1. o \in ColosseumMenu(w) /\ Chosen(w, o) = Colosseum(w, o)
    BY <1>2, <1>31 DEF Menu, Chosen
  <2> QED BY <1>1, <1>2, <1>31, <2>1, ColosseumSafe
<1>32. CASE id = "Bandits"
  <2>1. o \in BanditsMenu(w) /\ Chosen(w, o) = Bandits(w, o)
    BY <1>2, <1>32 DEF Menu, Chosen
  <2> QED BY <1>1, <1>2, <1>32, <2>1, BanditsSafe
<1>33. CASE id = "Skull"
  <2>1. o \in SkullMenu(w) /\ Chosen(w, o) = Skull(w, o)
    BY <1>2, <1>33 DEF Menu, Chosen
  <2> QED BY <1>1, <1>2, <1>33, <2>1, SkullSafe
<1>34. CASE id = "Joust"
  <2>1. o \in JoustMenu(w) /\ Chosen(w, o) = Joust(w, o)
    BY <1>2, <1>34 DEF Menu, Chosen
  <2> QED BY <1>1, <1>2, <1>34, <2>1, JoustSafe
<1>35. CASE id = "Nloth"
  <2>1. o \in NlothMenu(w) /\ Chosen(w, o) = Nloth(w, o)
    BY <1>2, <1>35 DEF Menu, Chosen
  <2> QED BY <1>1, <1>2, <1>35, <2>1, NlothSafe
<1>36. CASE id = "Designer"
  <2>1. o \in DesignerMenu(w) /\ Chosen(w, o) = Designer(w, o)
    BY <1>2, <1>36 DEF Menu, Chosen
  <2> QED BY <1>1, <1>2, <1>36, <2>1, DesignerSafe
<1>37. CASE id = "Duplicator"
  <2>1. o \in DuplicatorMenu(w) /\ Chosen(w, o) = Duplicator(w, o)
    BY <1>2, <1>37 DEF Menu, Chosen
  <2> QED BY <1>1, <1>2, <1>37, <2>1, DuplicatorSafe
<1>38. CASE id = "Blacksmith"
  <2>1. o \in BlacksmithMenu(w) /\ Chosen(w, o) = Blacksmith(w, o)
    BY <1>2, <1>38 DEF Menu, Chosen
  <2> QED BY <1>1, <1>2, <1>38, <2>1, BlacksmithSafe
<1>39. CASE id = "Bonfire"
  <2>1. o \in BonfireMenu(w) /\ Chosen(w, o) = Bonfire(w, o)
    BY <1>2, <1>39 DEF Menu, Chosen
  <2> QED BY <1>1, <1>2, <1>39, <2>1, BonfireSafe
<1>40. CASE id = "FaceTrader"
  <2>1. o \in FaceTraderMenu(w) /\ Chosen(w, o) = FaceTrader(w, o)
    BY <1>2, <1>40 DEF Menu, Chosen
  <2> QED BY <1>1, <1>2, <1>40, <2>1, FaceTraderSafe
<1>41. CASE id = "Fountain"
  <2>1. o \in FountainMenu(w) /\ Chosen(w, o) = Fountain(w, o)
    BY <1>2, <1>41 DEF Menu, Chosen
  <2> QED BY <1>1, <1>2, <1>41, <2>1, FountainSafe
<1>42. CASE id = "Lab"
  <2>1. o \in LabMenu(w) /\ Chosen(w, o) = Lab(w, o)
    BY <1>2, <1>42 DEF Menu, Chosen
  <2> QED BY <1>1, <1>2, <1>42, <2>1, LabSafe
<1>43. CASE id = "Note"
  <2>1. o \in NoteMenu(w) /\ Chosen(w, o) = Note(w, o)
    BY <1>2, <1>43 DEF Menu, Chosen
  <2> QED BY <1>1, <1>2, <1>43, <2>1, NoteSafe
<1>44. CASE id = "WeMeetAgain"
  <2>1. o \in WeMeetAgainMenu(w) /\ Chosen(w, o) = WeMeetAgain(w, o)
    BY <1>2, <1>44 DEF Menu, Chosen
  <2> QED BY <1>1, <1>2, <1>44, <2>1, WeMeetAgainSafe
<1>45. CASE id = "WomanInBlue"
  <2>1. o \in WomanInBlueMenu(w) /\ Chosen(w, o) = WomanInBlue(w, o)
    BY <1>2, <1>45 DEF Menu, Chosen
  <2> QED BY <1>1, <1>2, <1>45, <2>1, WomanInBlueSafe
<1>46. CASE id = "Falling"
  <2>1. o \in FallingMenu(w) /\ Chosen(w, o) = Falling(w, o)
    BY <1>2, <1>46 DEF Menu, Chosen
  <2> QED BY <1>1, <1>2, <1>46, <2>1, FallingSafe
<1>47. CASE id = "MindBloom"
  <2>1. o \in MindBloomMenu(w) /\ Chosen(w, o) = MindBloom(w, o)
    BY <1>2, <1>47 DEF Menu, Chosen
  <2> QED BY <1>1, <1>2, <1>47, <2>1, MindBloomSafe
<1>48. CASE id = "Moai"
  <2>1. o \in MoaiMenu(w) /\ Chosen(w, o) = Moai(w, o)
    BY <1>2, <1>48 DEF Menu, Chosen
  <2> QED BY <1>1, <1>2, <1>48, <2>1, MoaiSafe
<1>49. CASE id = "Sphere"
  <2>1. o \in SphereMenu(w) /\ Chosen(w, o) = Sphere(w, o)
    BY <1>2, <1>49 DEF Menu, Chosen
  <2> QED BY <1>1, <1>2, <1>49, <2>1, SphereSafe
<1>50. CASE id = "Sensory"
  <2>1. o \in SensoryMenu(w) /\ Chosen(w, o) = Sensory(w, o)
    BY <1>2, <1>50 DEF Menu, Chosen
  <2> QED BY <1>1, <1>2, <1>50, <2>1, SensorySafe
<1>51. CASE id = "Tomb"
  <2>1. o \in TombMenu(w) /\ Chosen(w, o) = Tomb(w, o)
    BY <1>2, <1>51 DEF Menu, Chosen
  <2> QED BY <1>1, <1>2, <1>51, <2>1, TombSafe
<1>52. CASE id = "Winding"
  <2>1. o \in WindingMenu(w) /\ Chosen(w, o) = Winding(w, o)
    BY <1>2, <1>52 DEF Menu, Chosen
  <2> QED BY <1>1, <1>2, <1>52, <2>1, WindingSafe
<1>53. CASE id = "Heart"
  <2>1. o \in HeartMenu(w) /\ Chosen(w, o) = Heart(w, o)
    BY <1>2, <1>53 DEF Menu, Chosen
  <2> QED BY <1>1, <1>2, <1>53, <2>1, HeartSafe
<1> QED BY <1>1, <1>2, <1>3, <1>4, <1>5, <1>6, <1>7, <1>8, <1>9, <1>10, <1>11, <1>12, <1>13, <1>14,
          <1>15, <1>16, <1>17, <1>18, <1>19, <1>20, <1>21, <1>22, <1>23, <1>24, <1>25, <1>26, <1>27,
          <1>28, <1>29, <1>30, <1>31, <1>32, <1>33, <1>34, <1>35, <1>36, <1>37, <1>38, <1>39, <1>40,
          <1>41, <1>42, <1>43, <1>44, <1>45, <1>46, <1>47, <1>48, <1>49, <1>50, <1>51, <1>52, <1>53
          DEF Events

-----------------------------------------------------------------------------
\* An event's door: nothing is written down yet.
Words(id, a, b, c, board) ==
  [id |-> id, screen |-> 0, grid |-> "none", a |-> a, b |-> b, c |-> c, d |-> 0, board |-> board]
Reworded(w, e) == [w EXCEPT !.ev = e]
Opened(w, id) ==
  /\ WShape(w) /\ RunOK(w.run) /\ w.run.hp > 0 /\ LootOK(w.loot) /\ w.phase = "dialog"
  /\ w.room = "event" /\ w.pend = "none" /\ id \in Events /\ w.ev = Words(id, 0, 0, 0, <<>>)

\* What the entry writes down.
LEMMA WordsSafe ==
  ASSUME NEW id, NEW w, Opened(w, id), NEW a \in Int, NEW b \in Int, NEW c \in Int, NEW board,
         SpecialOf(Words(id, a, b, c, board), w.run)
  PROVE  Safe(Reworded(w, Words(id, a, b, c, board)))
<1> DEFINE e == Words(id, a, b, c, board)
           v == Reworded(w, e)
<1>1. /\ e = [x \in EvFields |-> e[x]] /\ e.id = id /\ e.screen = 0 /\ e.grid = "none"
      /\ e.a = a /\ e.b = b /\ e.c = c /\ e.d = 0
  BY DEF Words, EvFields
<1>2. "none" \in GridsOf(id) /\ 0 \in 0..FinalPage(id)
  BY LastPage DEF GridsOf
<1>3. SpecialOf(e, w.run)
  OBVIOUS
<1>4. /\ WShape(v) /\ v.run = w.run /\ v.ev = e /\ v.phase = "dialog" /\ v.loot = w.loot
      /\ v.room = "event" /\ v.pend = "none"
  BY DEF Opened, WShape, WorldFields, Reworded
<1> HIDE DEF e, v
<1>5. EvShape(e) /\ EvOK(e, w.run)
  BY <1>1, <1>2, <1>3 DEF EvShape, EvOK, Opened
<1>6. Safe(v)
  BY <1>4, <1>5 DEF Safe, Common, DialogOK, Spoken, Opened
<1> QED BY <1>6 DEF v, e

\* The places an entry writes to.
Words1(w, a) == [w EXCEPT !.ev.a = a]
Words2(w, a, b) == [w EXCEPT !.ev.a = a, !.ev.b = b]
Words3(w, a, b, c) == [w EXCEPT !.ev.a = a, !.ev.b = b, !.ev.c = c]
Laid(w, board) == [w EXCEPT !.ev.board = board]
LaidA(w, board, a) == [w EXCEPT !.ev.board = board, !.ev.a = a]
LaidC(w, board, c) == [w EXCEPT !.ev.board = board, !.ev.c = c]

\* Two dialogs with the same words are one.
LEMMA SameEvent ==
  ASSUME NEW e, NEW f, e = [x \in EvFields |-> e[x]], f = [x \in EvFields |-> f[x]],
         e.id = f.id, e.screen = f.screen, e.grid = f.grid, e.a = f.a, e.b = f.b, e.c = f.c, e.d = f.d,
         e.board = f.board
  PROVE  e = f
  BY DEF EvFields

\* Each of them is a dialog written anew.
LEMMA WordsOf ==
  ASSUME NEW id, NEW w, Opened(w, id), NEW a, NEW b, NEW c, NEW board
  PROVE  /\ w = Reworded(w, Words(id, 0, 0, 0, <<>>))
         /\ Words1(w, a) = Reworded(w, Words(id, a, 0, 0, <<>>))
         /\ Words2(w, a, b) = Reworded(w, Words(id, a, b, 0, <<>>))
         /\ Words3(w, a, b, c) = Reworded(w, Words(id, a, b, c, <<>>))
         /\ Laid(w, board) = Reworded(w, Words(id, 0, 0, 0, board))
         /\ LaidA(w, board, a) = Reworded(w, Words(id, a, 0, 0, board))
         /\ LaidC(w, board, c) = Reworded(w, Words(id, 0, 0, c, board))
<1> DEFINE e == Words(id, 0, 0, 0, <<>>)
<1>1. WShape(w) /\ w.ev = e
  BY DEF Opened
<1>2. /\ [e EXCEPT !.a = a] = Words(id, a, 0, 0, <<>>)
      /\ [e EXCEPT !.a = a, !.b = b] = Words(id, a, b, 0, <<>>)
      /\ [e EXCEPT !.a = a, !.b = b, !.c = c] = Words(id, a, b, c, <<>>)
      /\ [e EXCEPT !.board = board] = Words(id, 0, 0, 0, board)
      /\ [e EXCEPT !.board = board, !.a = a] = Words(id, a, 0, 0, board)
      /\ [e EXCEPT !.board = board, !.c = c] = Words(id, 0, 0, c, board)
  <2>1. [e EXCEPT !.a = a] = Words(id, a, 0, 0, <<>>)
    BY DEF Words
  <2>2. [e EXCEPT !.a = a, !.b = b] = Words(id, a, b, 0, <<>>)
    <3> DEFINE f == [e EXCEPT !.a = a, !.b = b]
               g == Words(id, a, b, 0, <<>>)
    <3>1. /\ f = [x \in EvFields |-> f[x]] /\ f.id = id /\ f.screen = 0 /\ f.grid = "none"
          /\ f.a = a /\ f.b = b /\ f.c = 0 /\ f.d = 0 /\ f.board = <<>>
      BY DEF Words, EvFields
    <3>2. /\ g = [x \in EvFields |-> g[x]] /\ g.id = id /\ g.screen = 0 /\ g.grid = "none"
          /\ g.a = a /\ g.b = b /\ g.c = 0 /\ g.d = 0 /\ g.board = <<>>
      BY DEF Words, EvFields
    <3> HIDE DEF f, g
    <3>3. f = g
      BY <3>1, <3>2, SameEvent
    <3> QED BY <3>3 DEF f, g
  <2>3. [e EXCEPT !.a = a, !.b = b, !.c = c] = Words(id, a, b, c, <<>>)
    <3> DEFINE f == [e EXCEPT !.a = a, !.b = b, !.c = c]
               g == Words(id, a, b, c, <<>>)
    <3>1. /\ f = [x \in EvFields |-> f[x]] /\ f.id = id /\ f.screen = 0 /\ f.grid = "none"
          /\ f.a = a /\ f.b = b /\ f.c = c /\ f.d = 0 /\ f.board = <<>>
      BY DEF Words, EvFields
    <3>2. /\ g = [x \in EvFields |-> g[x]] /\ g.id = id /\ g.screen = 0 /\ g.grid = "none"
          /\ g.a = a /\ g.b = b /\ g.c = c /\ g.d = 0 /\ g.board = <<>>
      BY DEF Words, EvFields
    <3> HIDE DEF f, g
    <3>3. f = g
      BY <3>1, <3>2, SameEvent
    <3> QED BY <3>3 DEF f, g
  <2>4. [e EXCEPT !.board = board] = Words(id, 0, 0, 0, board)
    BY DEF Words
  <2>5. [e EXCEPT !.board = board, !.a = a] = Words(id, a, 0, 0, board)
    <3> DEFINE f == [e EXCEPT !.board = board, !.a = a]
               g == Words(id, a, 0, 0, board)
    <3>1. /\ f = [x \in EvFields |-> f[x]] /\ f.id = id /\ f.screen = 0 /\ f.grid = "none"
          /\ f.a = a /\ f.b = 0 /\ f.c = 0 /\ f.d = 0 /\ f.board = board
      BY DEF Words, EvFields
    <3>2. /\ g = [x \in EvFields |-> g[x]] /\ g.id = id /\ g.screen = 0 /\ g.grid = "none"
          /\ g.a = a /\ g.b = 0 /\ g.c = 0 /\ g.d = 0 /\ g.board = board
      BY DEF Words, EvFields
    <3> HIDE DEF f, g
    <3>3. f = g
      BY <3>1, <3>2, SameEvent
    <3> QED BY <3>3 DEF f, g
  <2>6. [e EXCEPT !.board = board, !.c = c] = Words(id, 0, 0, c, board)
    <3> DEFINE f == [e EXCEPT !.board = board, !.c = c]
               g == Words(id, 0, 0, c, board)
    <3>1. /\ f = [x \in EvFields |-> f[x]] /\ f.id = id /\ f.screen = 0 /\ f.grid = "none"
          /\ f.a = 0 /\ f.b = 0 /\ f.c = c /\ f.d = 0 /\ f.board = board
      BY DEF Words, EvFields
    <3>2. /\ g = [x \in EvFields |-> g[x]] /\ g.id = id /\ g.screen = 0 /\ g.grid = "none"
          /\ g.a = 0 /\ g.b = 0 /\ g.c = c /\ g.d = 0 /\ g.board = board
      BY DEF Words, EvFields
    <3> HIDE DEF f, g
    <3>3. f = g
      BY <3>1, <3>2, SameEvent
    <3> QED BY <3>3 DEF f, g
  <2> QED BY <2>1, <2>2, <2>3, <2>4, <2>5, <2>6
<1> HIDE DEF e
<1>3. w = Reworded(w, e)
  BY <1>1 DEF WShape, WorldFields, Reworded
<1>4. Words1(w, a) = Reworded(w, [e EXCEPT !.a = a])
  BY <1>1 DEF WShape, WorldFields, Reworded, Words1
<1>5. Words2(w, a, b) = Reworded(w, [e EXCEPT !.a = a, !.b = b])
  BY <1>1 DEF WShape, WorldFields, Reworded, Words2
<1>6. Words3(w, a, b, c) = Reworded(w, [e EXCEPT !.a = a, !.b = b, !.c = c])
  BY <1>1 DEF WShape, WorldFields, Reworded, Words3
<1>7. Laid(w, board) = Reworded(w, [e EXCEPT !.board = board])
  BY <1>1 DEF WShape, WorldFields, Reworded, Laid
<1>8. LaidA(w, board, a) = Reworded(w, [e EXCEPT !.board = board, !.a = a])
  BY <1>1 DEF WShape, WorldFields, Reworded, LaidA
<1>9. LaidC(w, board, c) = Reworded(w, [e EXCEPT !.board = board, !.c = c])
  BY <1>1 DEF WShape, WorldFields, Reworded, LaidC
<1> QED BY <1>2, <1>3, <1>4, <1>5, <1>6, <1>7, <1>8, <1>9 DEF e

\* The events whose words bind nothing to the run.
LEMMA FreeWords ==
  ASSUME NEW id, NEW w, Opened(w, id), NEW a \in Int, NEW b \in Int, NEW c \in Int, NEW board,
         id \notin {"WorldOfGoop", "Falling", "WeMeetAgain", "DrugDealer", "DeadAdventurer"}
  PROVE  /\ Safe(w) /\ Safe(Words1(w, a)) /\ Safe(Words2(w, a, b)) /\ Safe(Words3(w, a, b, c))
         /\ Safe(Laid(w, board)) /\ Safe(LaidA(w, board, a))
<1>1. \A x, y, z, p : SpecialOf(Words(id, x, y, z, p), w.run)
  BY DEF SpecialOf, Words
<1> DEFINE o == 0
<1>2. o \in Int
  OBVIOUS
<1>3. /\ Safe(Reworded(w, Words(id, o, o, o, <<>>)))
      /\ Safe(Reworded(w, Words(id, a, o, o, <<>>)))
      /\ Safe(Reworded(w, Words(id, a, b, o, <<>>)))
      /\ Safe(Reworded(w, Words(id, a, b, c, <<>>)))
      /\ Safe(Reworded(w, Words(id, o, o, o, board)))
      /\ Safe(Reworded(w, Words(id, a, o, o, board)))
  <2> HIDE DEF o
  <2> QED BY <1>1, <1>2, WordsSafe
<1>4. /\ w = Reworded(w, Words(id, 0, 0, 0, <<>>))
      /\ Words1(w, a) = Reworded(w, Words(id, a, 0, 0, <<>>))
      /\ Words2(w, a, b) = Reworded(w, Words(id, a, b, 0, <<>>))
      /\ Words3(w, a, b, c) = Reworded(w, Words(id, a, b, c, <<>>))
      /\ Laid(w, board) = Reworded(w, Words(id, 0, 0, 0, board))
      /\ LaidA(w, board, a) = Reworded(w, Words(id, a, 0, 0, board))
      /\ LaidC(w, board, c) = Reworded(w, Words(id, 0, 0, c, board))
  BY WordsOf
<1> QED BY <1>3, <1>4

\* The Dead Adventurer's finds are laid out.
LEMMA DeadEnterSafe == ASSUME NEW w, Opened(w, "DeadAdventurer") PROVE AllSafe(DeadEnter(w))
<1>0. DeadEnter(w) = {LaidC(w, finds, foe) :
                        finds \in {f \in [1..3 -> {"gold", "nothing", "relic"}] : IsInjective(f)},
                        foe \in {0, 2}}
  BY DEF DeadEnter, LaidC
<1> SUFFICES ASSUME NEW finds \in [1..3 -> {"gold", "nothing", "relic"}], NEW foe \in {0, 2}
             PROVE  Safe(LaidC(w, finds, foe))
  BY <1>0 DEF AllSafe
<1> DEFINE e == Words("DeadAdventurer", 0, 0, foe, finds)
<1>1. SpecialOf(e, w.run)
  BY DEF SpecialOf, Words
<1>2. foe \in Int /\ 0 \in Int
  OBVIOUS
<1>3. Safe(Reworded(w, e))
  BY <1>1, <1>2, WordsSafe
<1> QED BY <1>3, WordsOf

\* The gold the Goop will take is no more than the purse holds.
LEMMA GoopEnterSafe == ASSUME NEW w, Opened(w, "WorldOfGoop") PROVE AllSafe(GoopEnter(w))
<1> SUFFICES ASSUME NEW n \in {20, 35, 50, 75}
             PROVE  Safe(Words1(w, Least(w.run.gold, n)))
  BY DEF AllSafe, GoopEnter, Words1
<1> DEFINE a == Least(w.run.gold, n)
           e == Words("WorldOfGoop", a, 0, 0, <<>>)
<1>1. a \in 0..w.run.gold
  BY DEF Opened, RunOK, Body, Vital, Least
<1> HIDE DEF a
<1>2. SpecialOf(e, w.run)
  BY <1>1 DEF SpecialOf, Words
<1>3. a \in Int /\ 0 \in Int
  BY <1>1
<1>4. Safe(Reworded(w, e))
  BY <1>2, <1>3, WordsSafe
<1>5. Safe(Words1(w, a))
  BY <1>4, WordsOf
<1> QED BY <1>5 DEF a

\* The cards that may fall are cards of the deck.
LEMMA FallingEnterSafe == ASSUME NEW w, Opened(w, "Falling") PROVE AllSafe(FallingEnter(w))
<1>1. \A type : falling_pick(w.run, type) \subseteq {0} \cup DOMAIN w.run.deck
  BY DEF falling_pick
<1>2. DOMAIN w.run.deck \subseteq Int
  <2>1. DOMAIN w.run.deck = 1..Len(w.run.deck) /\ Len(w.run.deck) \in Nat
    BY DeckPlaces DEF Opened, RunOK, Body
  <2> QED BY <2>1
<1>0. FallingEnter(w) = {Words3(w, a, s, p) :
        a \in falling_pick(w.run, "attack"), s \in falling_pick(w.run, "skill"),
        p \in falling_pick(w.run, "power")}
  BY DEF FallingEnter, Words3
<1> SUFFICES ASSUME NEW a \in {0} \cup DOMAIN w.run.deck, NEW b \in {0} \cup DOMAIN w.run.deck,
                    NEW c \in {0} \cup DOMAIN w.run.deck
             PROVE  Safe(Words3(w, a, b, c))
  BY <1>0, <1>1 DEF AllSafe
<1> DEFINE e == Words("Falling", a, b, c, <<>>)
<1>3. a \in Int /\ b \in Int /\ c \in Int
  BY <1>2
<1>4. SpecialOf(e, w.run)
  BY DEF SpecialOf, Words
<1>5. Safe(Reworded(w, e))
  BY <1>3, <1>4, WordsSafe
<1> QED BY <1>5, WordsOf

\* What Ranwid asks for is there to be given.
LEMMA WeMeetAgainEnterSafe ==
  ASSUME NEW w, Opened(w, "WeMeetAgain") PROVE AllSafe(WeMeetAgainEnter(w))
<1>1. DOMAIN w.run.deck \subseteq Int /\ DOMAIN w.run.belt \subseteq Int
  <2>1. DOMAIN w.run.belt = 1..Len(w.run.belt) /\ Len(w.run.belt) \in Nat
    BY LenProperties DEF Opened, RunOK, Body, IsList
  <2>2. DOMAIN w.run.deck = 1..Len(w.run.deck) /\ Len(w.run.deck) \in Nat
    BY DeckPlaces DEF Opened, RunOK, Body
  <2> QED BY <2>1, <2>2
<1>2. w.run.gold \in Nat
  BY DEF Opened, RunOK, Body, Vital
<1> DEFINE slots == DOMAIN w.run.belt \ EmptySlots(w.run)
           cards == {i \in DOMAIN w.run.deck : card_is_offerable(w.run.deck[i])}
           orNone(s) == IF s = {} THEN {0} ELSE s
           sums == IF w.run.gold < 50 THEN {0} ELSE {50, Least(w.run.gold, 150)}
<1>0. WeMeetAgainEnter(w) = {Words3(w, p, g, i) : p \in orNone(slots), i \in orNone(cards), g \in sums}
  BY DEF WeMeetAgainEnter, Words3
<1>7. /\ orNone(slots) \subseteq {0} \cup DOMAIN w.run.belt
      /\ orNone(cards) \subseteq {0} \cup DOMAIN w.run.deck
      /\ sums \subseteq {0, 50, Least(w.run.gold, 150)}
  OBVIOUS
<1> HIDE DEF orNone, slots, cards, sums
<1> SUFFICES ASSUME NEW a \in {0} \cup DOMAIN w.run.belt, NEW c \in {0} \cup DOMAIN w.run.deck,
                    NEW b \in {0, 50, Least(w.run.gold, 150)}
             PROVE  Safe(Words3(w, a, b, c))
  BY <1>0, <1>7 DEF AllSafe
<1> DEFINE e == Words("WeMeetAgain", a, b, c, <<>>)
<1>3. a \in Int /\ b \in Int /\ c \in Int
  BY <1>1, <1>2 DEF Least
<1>4. SpecialOf(e, w.run)
  BY DEF SpecialOf, Words
<1>5. Safe(Reworded(w, e))
  BY <1>3, <1>4, WordsSafe
<1> QED BY <1>5, WordsOf

\* The events whose entry writes nothing, or nothing that binds.
LEMMA PlainEnterSafe ==
  ASSUME NEW w, NEW id, Opened(w, id),
         id \notin {"WorldOfGoop", "Falling", "WeMeetAgain", "DeadAdventurer", "DrugDealer"}
  PROVE  AllSafe(EventEnter(w))
<1>0. w.ev.id = id
  BY DEF Opened, Words
<1>1. w.run.max \in Nat
  BY DEF Opened, RunOK, Body, Vital
<1>2. /\ Safe(w) /\ \A a \in Int : Safe(Words1(w, a))
      /\ \A a, b \in Int : Safe(Words2(w, a, b))
      /\ \A a, b, c \in Int : Safe(Words3(w, a, b, c))
      /\ \A board : Safe(Laid(w, board)) /\ \A a \in Int : Safe(LaidA(w, board, a))
  <2>1. ASSUME NEW a \in Int, NEW b \in Int, NEW c \in Int, NEW board
        PROVE  /\ Safe(w) /\ Safe(Words1(w, a)) /\ Safe(Words2(w, a, b)) /\ Safe(Words3(w, a, b, c))
               /\ Safe(Laid(w, board)) /\ Safe(LaidA(w, board, a))
    BY FreeWords
  <2>2. ASSUME NEW a \in Int, NEW b \in Int, NEW board
        PROVE  /\ Safe(w) /\ Safe(Words1(w, a)) /\ Safe(Words2(w, a, b)) /\ Safe(Words3(w, a, b, 0))
               /\ Safe(Laid(w, board)) /\ Safe(LaidA(w, board, a))
    BY <2>1
  <2>3. ASSUME NEW a \in Int, NEW board
        PROVE  /\ Safe(w) /\ Safe(Words1(w, a)) /\ Safe(Words2(w, a, 0))
               /\ Safe(Laid(w, board)) /\ Safe(LaidA(w, board, a))
    BY <2>2
  <2>4. ASSUME NEW board PROVE Safe(w) /\ Safe(Words1(w, 0)) /\ Safe(Laid(w, board))
    BY <2>3
  <2>5. \A a, b \in Int : Safe(Words2(w, a, b)) /\ Safe(Laid(w, <<>>))
    BY <2>2
  <2>6. \A a \in Int : Safe(Words1(w, a)) /\ Safe(Laid(w, <<>>))
    BY <2>3
  <2>7. \A a, b, c \in Int : Safe(Words3(w, a, b, c)) /\ Safe(Laid(w, <<>>))
    BY <2>1
  <2>8. \A board : Safe(w) /\ Safe(Laid(w, board))
    BY <2>4
  <2> QED BY <2>3, <2>5, <2>6, <2>7, <2>8
<1>3. \A p \in 0..200 : RoundedPercent(w.run.max, p) \in Int /\ CeilPercent(w.run.max, p) \in Int
  BY <1>1 DEF RoundedPercent, CeilPercent
<1>4. CASE id = "ScrapOoze"
  <2>1. EventEnter(w) = ScrapOozeEnter(w)
    BY <1>0, <1>4 DEF EventEnter
  <2> DEFINE n == 25
             m == IF w.run.hard THEN 5 ELSE 3
  <2>2. n \in Int /\ m \in Int
    OBVIOUS
  <2>3. ScrapOozeEnter(w) = {Words2(w, n, m)}
    BY DEF ScrapOozeEnter, Words2
  <2> HIDE DEF n, m
  <2> QED BY <1>2, <2>1, <2>2, <2>3 DEF AllSafe
<1>5. CASE id = "MatchAndKeep"
  <2>1. EventEnter(w) = MatchEnter(w)
    BY <1>0, <1>5 DEF EventEnter
  <2>2. MatchAttempts \in Int
    BY ShrineAssumption
  <2>3. \A v \in MatchEnter(w) : \E f : v = LaidA(w, f, MatchAttempts)
    BY DEF MatchEnter, LaidA
  <2> QED BY <1>2, <2>1, <2>2, <2>3 DEF AllSafe
<1>6. CASE id = "ForgottenAltar"
  <2>1. EventEnter(w) = AltarEnter(w)
    BY <1>0, <1>6 DEF EventEnter
  <2> DEFINE n == RoundedPercent(w.run.max, IF w.run.hard THEN 35 ELSE 25)
  <2>2. n \in Int
    BY <1>3
  <2>3. AltarEnter(w) = {Words1(w, n)}
    BY DEF AltarEnter, Words1
  <2> HIDE DEF n
  <2> QED BY <1>2, <2>1, <2>2, <2>3 DEF AllSafe
<1>7. CASE id \in {"Ghosts", "Vampires"}
  <2> DEFINE n == Least(CeilPercent(w.run.max, IF id = "Ghosts" THEN 50 ELSE 30), w.run.max - 1)
  <2>1. EventEnter(w) = {Words1(w, n)}
    BY <1>0, <1>7 DEF EventEnter, GhostsEnter, VampiresEnter, Words1
  <2>2. n \in Int
    BY <1>1, <1>3 DEF Least
  <2> HIDE DEF n
  <2> QED BY <1>2, <2>1, <2>2 DEF AllSafe
<1>8. CASE id = "Library"
  <2>1. EventEnter(w) = LibraryEnter(w)
    BY <1>0, <1>8 DEF EventEnter
  <2> DEFINE n == RoundedPercent(w.run.max, IF w.run.hard THEN 20 ELSE 33)
  <2>2. n \in Int
    BY <1>3
  <2>3. LibraryEnter(w) = {Words1(w, n)}
    BY DEF LibraryEnter, Words1
  <2> HIDE DEF n
  <2> QED BY <1>2, <2>1, <2>2, <2>3 DEF AllSafe
<1>9. CASE id = "Skull"
  <2>1. EventEnter(w) = SkullEnter(w)
    BY <1>0, <1>9 DEF EventEnter
  <2>2. kSkullBaseCost \in Int
    BY DEF kSkullBaseCost
  <2>3. SkullEnter(w) = {Words3(w, kSkullBaseCost, kSkullBaseCost, kSkullBaseCost)}
    BY DEF SkullEnter, Words3
  <2> QED BY <1>2, <2>1, <2>2, <2>3 DEF AllSafe
<1>10. CASE id = "Nloth"
  <2>1. EventEnter(w) = NlothEnter(w)
    BY <1>0, <1>10 DEF EventEnter
  <2>2. 0 \in Int
    OBVIOUS
  <2>3. \A v \in NlothEnter(w) : \E p : v = Laid(w, p)
    BY DEF NlothEnter, Laid
  <2> QED BY <1>2, <2>1, <2>2, <2>3 DEF AllSafe
<1>11. CASE id = "Designer"
  <2>1. EventEnter(w) = DesignerEnter(w)
    BY <1>0, <1>11 DEF EventEnter
  <2>2. {0, 1} \subseteq Int
    OBVIOUS
  <2>3. \A v \in DesignerEnter(w) : \E x, y \in {0, 1} : v = Words2(w, x, y)
    BY DEF DesignerEnter, Words2
  <2> QED BY <1>2, <2>1, <2>2, <2>3 DEF AllSafe
<1>12. CASE id = "FaceTrader"
  <2>1. EventEnter(w) = FaceTraderEnter(w)
    BY <1>0, <1>12 DEF EventEnter
  <2> DEFINE n == IF w.run.hard THEN 50 ELSE 75
             m == Most(1, w.run.max \div 10)
  <2>2. n \in Int /\ m \in Int
    BY <1>1 DEF Most
  <2>3. FaceTraderEnter(w) = {Words2(w, n, m)}
    BY DEF FaceTraderEnter, Words2
  <2> HIDE DEF n, m
  <2> QED BY <1>2, <2>1, <2>2, <2>3 DEF AllSafe
<1>13. CASE id = "MindBloom"
  <2>1. EventEnter(w) = MindBloomEnter(w)
    BY <1>0, <1>13 DEF EventEnter
  <2>2. {0, 1} \subseteq Int
    OBVIOUS
  <2>3. \A v \in MindBloomEnter(w) : \E x \in {0, 1} : v = Words1(w, x)
    BY DEF MindBloomEnter, Words1
  <2> QED BY <1>2, <2>1, <2>2, <2>3 DEF AllSafe
<1>14. CASE id = "Moai"
  <2>1. EventEnter(w) = MoaiEnter(w)
    BY <1>0, <1>14 DEF EventEnter
  <2> DEFINE n == (w.run.max * (IF w.run.hard THEN 180 ELSE 125) + 500) \div 1000
  <2>2. n \in Int
    BY <1>1
  <2>3. MoaiEnter(w) = {Words1(w, n)}
    BY DEF MoaiEnter, Words1
  <2> HIDE DEF n
  <2> QED BY <1>2, <2>1, <2>2, <2>3 DEF AllSafe
<1>15. CASE id = "Winding"
  <2>1. EventEnter(w) = WindingEnter(w)
    BY <1>0, <1>15 DEF EventEnter
  <2> DEFINE n == (w.run.max * (IF w.run.hard THEN 180 ELSE 125) + 500) \div 1000
             m == RoundedPercent(w.run.max, IF w.run.hard THEN 20 ELSE 25)
             k == RoundedPercent(w.run.max, 5)
  <2>2. n \in Int /\ m \in Int /\ k \in Int
    BY <1>1, <1>3
  <2>3. WindingEnter(w) = {Words3(w, n, m, k)}
    BY DEF WindingEnter, Words3
  <2> HIDE DEF n, m, k
  <2> QED BY <1>2, <2>1, <2>2, <2>3 DEF AllSafe
<1>16. CASE id \notin {"ScrapOoze", "MatchAndKeep", "ForgottenAltar", "Ghosts", "Vampires", "Library",
                       "Skull", "Nloth", "Designer", "FaceTrader", "MindBloom", "Moai", "Winding"}
  <2>1. EventEnter(w) = {w}
    BY <1>0, <1>16 DEF EventEnter
  <2>2. 0 \in Int
    OBVIOUS
  <2> QED BY <1>2, <2>1, <2>2 DEF AllSafe
<1> QED BY <1>4, <1>5, <1>6, <1>7, <1>8, <1>9, <1>10, <1>11, <1>12, <1>13, <1>14, <1>15, <1>16

\* Through an event's door, whatever the event.
LEMMA EventEnterSafe ==
  ASSUME NEW w, NEW id, Opened(w, id)
  PROVE  AllSafe(EventEnter(w))
<1>1. w.ev.id = id
  BY DEF Opened, Words
<1>2. CASE id = "WorldOfGoop"
  <2>1. EventEnter(w) = GoopEnter(w)
    BY <1>1, <1>2 DEF EventEnter
  <2> QED BY <1>2, <2>1, GoopEnterSafe
<1>3. CASE id = "Falling"
  <2>1. EventEnter(w) = FallingEnter(w)
    BY <1>1, <1>3 DEF EventEnter
  <2> QED BY <1>3, <2>1, FallingEnterSafe
<1>4. CASE id = "WeMeetAgain"
  <2>1. EventEnter(w) = WeMeetAgainEnter(w)
    BY <1>1, <1>4 DEF EventEnter
  <2> QED BY <1>4, <2>1, WeMeetAgainEnterSafe
<1>5. CASE id = "DeadAdventurer"
  <2>1. EventEnter(w) = DeadEnter(w)
    BY <1>1, <1>5 DEF EventEnter
  <2> QED BY <1>5, <2>1, DeadEnterSafe
<1>6. CASE id = "DrugDealer"
  <2>1. EventEnter(w) = {w}
    BY <1>1, <1>6 DEF EventEnter
  <2>2. SpecialOf(Words(id, 0, 0, 0, <<>>), w.run) /\ 0 \in Int
    BY <1>6 DEF SpecialOf, Words
  <2>3. Safe(Reworded(w, Words(id, 0, 0, 0, <<>>)))
    BY <2>2, WordsSafe
  <2> QED BY <2>1, <2>3, WordsOf DEF AllSafe
<1>7. CASE id \notin {"WorldOfGoop", "Falling", "WeMeetAgain", "DeadAdventurer", "DrugDealer"}
  BY <1>1, <1>7, PlainEnterSafe
<1> QED BY <1>2, <1>3, <1>4, <1>5, <1>6, <1>7
==============================================================================
