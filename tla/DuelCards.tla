------------------------------ MODULE DuelCards ------------------------------
(***************************************************************************)
(* Cards on the move: drawing, shuffling, exhausting, filing, making, and  *)
(* the opcodes of src/engine/interp/interp_cards.cpp and piles.cpp.  Every *)
(* move has a tail: costs of the turn are given up, Corruption sweeps the  *)
(* hand, relics and powers are told.                                       *)
(*                                                                         *)
(* A shuffle is a rotation by the die, so that the order is open but the   *)
(* cards are the same, and all random picks of one step use one die.       *)
(***************************************************************************)
EXTENDS DuelBlows

Without(s, x) == SelectSeq(s, LAMBDA y : y # x)
InsertedAt(s, i, x) == SubSeq(s, 1, i) \o <<x>> \o SubSeq(s, i + 1, Len(s))
Shuffled(s, n) ==
  LET k == IF s = << >> THEN 0 ELSE n % Len(s)
  IN  SubSeq(s, k + 1, Len(s)) \o SubSeq(s, 1, k)

(***************************************************************************)
(* Corruption: a skill in the hand that still costs something costs        *)
(* nothing for the rest of the fight.                                      *)
(***************************************************************************)

IsSkill(f, r) == TypeOfRow(f, r) = "SKILL"
SweptTo(f, n) ==
  LET seen == {f.hand[i] : i \in 1 .. IF n < Len(f.hand) THEN n ELSE Len(f.hand)}
  IN  IF ~HasSlot(f, Player, "CORRUPTION") THEN f
      ELSE [f EXCEPT !.card = [r \in DOMAIN @ |->
              IF r \in seen /\ IsSkill(f, r) /\ @[r].now # 0 THEN Permanent(@[r], 0) ELSE @[r]]]
Swept(f) == SweptTo(f, Len(f.hand))
\* Mutant: the hand is left to the sweep, which nothing has called yet.
CorruptAll_PilesOnly(f) ==
  LET held == UNION {ToSet(pile) : pile \in {f.draw, f.disc, f.exh}}
  IN  [f EXCEPT !.card = [r \in DOMAIN @ |->
         IF r \in held /\ IsSkill(f, r) THEN Permanent(@[r], 0) ELSE @[r]]]
CorruptAll(f) ==
  LET held == UNION {ToSet(pile) : pile \in {f.hand, f.draw, f.disc, f.exh}}
  IN  [f EXCEPT !.card = [r \in DOMAIN @ |->
         IF r \in held /\ IsSkill(f, r) THEN Permanent(@[r], 0) ELSE @[r]]]

(***************************************************************************)
(* Exhausting, filing and discarding.                                      *)
(***************************************************************************)

OnCardExhausted(f, r) ==
  Bots(Fire(Ring(f, "EXHAUST", [Ctx EXCEPT !.row = r]), Player, "EXHAUST", [Ctx EXCEPT !.row = r]),
       IF f.card[r].id = "NECRONOMICURSE" THEN <<Make("HAND", "NECRONOMICURSE", 1)>> ELSE << >>)
ExhaustFromHand(f, r) ==
  IF ~Contains(f.hand, r) THEN f
  ELSE Swept(OnCardExhausted(ResetCost([f EXCEPT !.hand = Without(@, r), !.exh = Append(@, r)], r), r))

\* Mutant: a copy made for one play is filed like the card it copies.
Leaves_PowersOnly(f, r) == TypeOfRow(f, r) = "POWER"
\* file_card_from_limbo: a power or a purged copy stays out of every pile.
Leaves(f, r) == TypeOfRow(f, r) = "POWER" \/ Purged(f, r)
Filed(f, r, exhaust) ==
  LET out == [f EXCEPT !.limbo = Without(@, r)]
  IN  IF Leaves(f, r) THEN out
      ELSE IF exhaust THEN ResetCost([out EXCEPT !.exh = Append(@, r)], r)
      ELSE ResetCost([out EXCEPT !.disc = Append(@, r)], r)
Cleared(f, r, flags) == [f EXCEPT !.card[r].flags = @ \ flags]
Flush(f, r) ==
  IF Leaves(f, r) THEN Cleared(Filed(f, r, FALSE), r, {"FREE_ONCE"})
  ELSE Cleared(Filed(f, r, f.card[r].flags \cap {"EXHAUST", "EXHAUST_ONCE"} # {}), r, {"FREE_ONCE", "EXHAUST_ONCE"})
FlushLimbo(f) == FoldLeft(Flush, f, f.limbo)

\* op_use_card: what happens to a card once its own effects are queued behind.
Spooned(f) == HasRelic(f, "STRANGE_SPOON") /\ f.roll % 2 = 1
FiledAway(f, r, exhaust) ==
  Swept(IF exhaust THEN OnCardExhausted(Cleared(Filed(f, r, TRUE), r, {"EXHAUST_ONCE"}), r)
        ELSE Cleared(Filed(f, r, FALSE), r, {"EXHAUST_ONCE"}))
Put(f, r) ==
  IF ~Contains(f.limbo, r) THEN f
  ELSE IF Leaves(f, r) THEN Filed(f, r, FALSE)
  ELSE FiledAway(f, r, f.card[r].flags \cap {"EXHAUST", "EXHAUST_ONCE"} # {} /\ ~Spooned(f))
TellAfterUse(f, r, quiet) ==
  IF quiet THEN f
  ELSE FireAll(f, <<Player>> \o InOrder(f), "AFTER_USE_CARD", [Ctx EXCEPT !.row = r])
UseCard(f, r, quiet) == Put(TellAfterUse(Cleared(f, r, {"FREE_ONCE"}), r, quiet), r)

(***************************************************************************)
(* What exhausts from the hand, from its end: the ethereal cards as the    *)
(* hand is discarded, a card at random, all that is no attack.             *)
(***************************************************************************)

FromEnd(f, Test(_)) == SelectSeq(Reverse(f.hand), Test)
RowsToExhaust(f, it) ==
  CASE it.op = "DISCARD_HAND" -> FromEnd(f, LAMBDA r : "ETHEREAL" \in f.card[r].flags)
    [] it.op = "BLOCK_PER_NON_ATTACK" -> FromEnd(f, LAMBDA r : TypeOfRow(f, r) # "ATTACK")
    [] OTHER -> IF f.hand = << >> THEN << >> ELSE <<f.hand[Pick(f, Len(f.hand))]>>
Discard(f, r) ==
  IF "RETAIN" \in f.card[r].flags THEN f
  ELSE Swept(ResetCost([f EXCEPT !.hand = Without(@, r), !.disc = Append(@, r)], r))
DiscardRest(f) == IF HasRelic(f, "RUNIC_PYRAMID") THEN f ELSE FoldLeft(Discard, f, Reverse(f.hand))
AfterExhaust(f, it, count) ==
  CASE it.op = "DISCARD_HAND" -> Bot(DiscardRest(f), Item("MONSTER_START", Player, Player, 0, ""))
    [] it.op = "BLOCK_PER_NON_ATTACK" ->
         [f EXCEPT !.q = [i \in 1 .. count |-> Item("BLOCK", Player, Player, it.n, "")] \o @]
    [] OTHER -> f
ExhaustOp(f, it) ==
  AfterExhaust(FoldLeft(ExhaustFromHand, f, RowsToExhaust(f, it)), it, Len(RowsToExhaust(f, it)))

(***************************************************************************)
(* What the player knows of the draw pile (knowledge.cpp): a chain of      *)
(* cards, the nearest to the top first, known to lie in that order; the    *)
(* first `exact' of them are the top of the pile, and `full' says that the *)
(* chain is the whole pile.  Nothing in the fight reads it.  Each operator *)
(* below is told after the pile has changed.                               *)
(***************************************************************************)

NoKnowledge == [chain |-> << >>, exact |-> 0, full |-> FALSE]
TopFirst(f) == Reverse(f.draw)
WholeOrder(f) == [chain |-> TopFirst(f), exact |-> Len(f.draw), full |-> f.draw # << >>]
Reveals(f) == HasRelic(f, "FROZEN_EYE")
\* knowledge_on_combat_ready, knowledge_on_shuffle
ReadOrder(f) == [f EXCEPT !.know = IF Reveals(f) THEN WholeOrder(f) ELSE NoKnowledge]
Normal(f, k) ==
  [k EXCEPT !.full = k.chain # << >> /\ Len(k.chain) = Len(f.draw) /\ k.exact = Len(k.chain)]
Forgotten(k, r) ==
  LET i == SelectInSeq(k.chain, LAMBDA x : x = r)
  IN  IF i = 0 THEN k
      ELSE [k EXCEPT !.chain = RemoveAt(@, i), !.exact = IF i <= @ THEN @ - 1 ELSE @]
DrewTop(f, r) ==
  LET k == f.know
  IN  CASE k.chain = << >> -> f
        [] k.chain # << >> /\ k.chain[1] = r -> [f EXCEPT !.know = Normal(f, Forgotten(k, r))]
        [] OTHER -> IF Contains(k.chain, r) \/ k.exact # 0 THEN [f EXCEPT !.know = NoKnowledge] ELSE f
PlacedTop(f, r) ==
  LET k == Forgotten(f.know, r)
  IN  [f EXCEPT !.know = IF Reveals(f) THEN WholeOrder(f)
                         ELSE Normal(f, [k EXCEPT !.chain = <<r>> \o @, !.exact = @ + 1])]
PlacedBottom(f, r) ==
  LET k == Forgotten(f.know, r)
  IN  [f EXCEPT !.know = IF Reveals(f) THEN WholeOrder(f)
                         ELSE Normal(f, [k EXCEPT !.chain = Append(@, r)])]
InsertedRandom(f, r) ==
  [f EXCEPT !.know = IF Reveals(f) \/ Len(f.draw) = 1 THEN WholeOrder(f)
                     ELSE [@ EXCEPT !.exact = 0, !.full = FALSE]]
\* Mutant: what is taken out of the pile is still expected in it.
RemovedKnown_Kept(f, r) == [f EXCEPT !.know = Normal(f, @)]
RemovedKnown(f, r) == [f EXCEPT !.know = Normal(f, Forgotten(@, r))]

(***************************************************************************)
(* Shuffling and drawing.                                                  *)
(***************************************************************************)

ShuffledIn(f) ==
  ReadOrder(ResetCosts([f EXCEPT !.draw = @ \o Shuffled(f.disc, f.roll), !.disc = << >>], f.disc))
EmptyDeckShuffle(f) == LET g == Ring(f, "SHUFFLE", Ctx) IN IF g.disc = << >> THEN g ELSE ShuffledIn(g)
ReshuffleAll(f) ==
  IF f.disc = << >> THEN f
  ELSE ReadOrder([EmptyDeckShuffle(f) EXCEPT !.draw = Shuffled(@, f.roll)])

Deal(f) ==
  IF f.draw = << >> THEN f
  ELSE DrewTop([f EXCEPT !.hand = Append(@, Last(f.draw)), !.draw = Front(@)], Last(f.draw))
DrawOne(f) == Deal(IF f.draw = << >> THEN EmptyDeckShuffle(f) ELSE f)
\* The cap is applied once, before the first card.  Who asks for more than
\* there is shuffles an empty pile once more, and the relics hear it.
DrawCards(f, n) ==
  LET amount == Smaller(n, HandCap - Len(f.hand))
      there == Len(f.draw) + Len(f.disc)
  IN  IF amount <= 0 \/ there = 0 THEN f
      ELSE FoldLeft(LAMBDA g, i : DrawOne(g), f, [i \in 1 .. Smaller(amount, there + 1) |-> i])
\* dispatch_card_on_draw: a Void costs an energy when its turn in the queue comes.
OnCardDrawn(f, r) == IF f.card[r].id = "VOID" THEN Bot(f, Energy(-1)) ELSE f
TellDrawn(f, i) ==
  IF i > Len(f.hand) THEN f
  ELSE SweptTo(Fire(OnCardDrawn(f, f.hand[i]), Player, "CARD_DRAW", [Ctx EXCEPT !.row = f.hand[i]]), i)
\* All are drawn first, then told one by one.
TellAllDrawn(f, from) == FoldLeft(TellDrawn, f, [j \in 1 .. Len(f.hand) - from |-> from + j])
DrawOp(f, n) ==
  IF HasSlot(f, Player, "NO_DRAW") THEN f ELSE TellAllDrawn(DrawCards(f, n), Len(f.hand))

(***************************************************************************)
(* Making cards: the lowest free row of the pool, and a hand that is full  *)
(* sends the card to the discard pile.                                     *)
(***************************************************************************)

FreshCost(f, id) ==
  IF id = "BLOOD_FOR_BLOOD" THEN Clamp(CostOf(id) - f.hurt) ELSE CostOf(id)
NewCard(f, id) ==
  [id |-> id, now |-> FreshCost(f, id), base |-> NoBase, flags |-> FlagsOf(id), misc |-> 0,
   root |-> 0, x |-> 0]
Landed(f, r, pile) ==
  CASE pile = "HAND" /\ Len(f.hand) < HandCap -> Swept([f EXCEPT !.hand = Append(@, r)])
    [] pile = "DRAW" -> PlacedTop([f EXCEPT !.draw = Append(@, r)], r)
    [] pile = "DRAW_RANDOM" ->
         InsertedRandom([f EXCEPT !.draw = InsertedAt(@, IF @ = << >> THEN 0 ELSE f.roll % Len(@), r)], r)
    [] OTHER -> [f EXCEPT !.disc = Append(@, r)]
MadeOne(f, card, pile) ==
  LET r == Lowest(FreeRows(f))
  IN  IF FreeRows(f) = {} THEN f ELSE Landed([f EXCEPT !.card[r] = card], r, pile)
MakeCards(f, card, n, pile) ==
  FoldLeft(LAMBDA g, i : MadeOne(g, card, pile), f, [i \in 1 .. n |-> i])

ForTurn(card) == [card EXCEPT !.now = 0, !.flags = @ \cup {"FOR_TURN"}]
\* Infernal Blade and Enchiridion: free for the turn, whatever its cost is.
RandomToHand(f, id) == MadeOne(f, ForTurn(NewCard(f, id)), "HAND")
\* Chrysalis and Metamorphosis: free for the fight, at random places.  Unlike
\* every other insertion this one tells the knowledge nothing.
SlippedIn(f, card) ==
  LET r == Lowest(FreeRows(f))
      place == IF f.draw = << >> THEN 0 ELSE f.roll % Len(f.draw)
  IN  IF FreeRows(f) = {} THEN f ELSE [f EXCEPT !.card[r] = card, !.draw = InsertedAt(@, place, r)]
RandomToDraw(f, id, n) ==
  FoldLeft(LAMBDA g, i : SlippedIn(g, [NewCard(f, id) EXCEPT !.now = 0]), f, [i \in 1 .. n |-> i])

(***************************************************************************)
(* Playing a card from the draw pile: Havoc at once, Mayhem deferred.  The *)
(* target is rolled first and the card waits in limbo.                     *)
(***************************************************************************)

RandomTarget(f) ==
  LET alive == SelectSeq(InOrder(f), LAMBDA m : ~DeadOrEscaped(f, m))
  IN  IF alive = << >> THEN Player ELSE alive[Pick(f, Len(alive))]
LineUpTop(f, r, tgt, back) ==
  LET out == DrewTop([f EXCEPT !.draw = Front(@), !.limbo = Append(@, r)], r)
  IN  IF back THEN [out EXCEPT !.cq = Append(@, [row |-> r, tgt |-> tgt])]
      ELSE QueueFront([out EXCEPT !.card[r].flags = @ \cup {"EXHAUST_ONCE"}], r, tgt)
TakeTop(f, tgt, back) == IF f.draw = << >> THEN f ELSE LineUpTop(f, Last(f.draw), tgt, back)
PlayTop(f, tgt, back) ==
  TakeTop(IF f.draw = << >> /\ f.disc # << >> THEN EmptyDeckShuffle(f) ELSE f, tgt, back)
Deferred(f, it) == Bot(f, [it EXCEPT !.x = "", !.tgt = RandomTarget(f)])

(***************************************************************************)
(* Opcodes about cards in the hand.                                        *)
(***************************************************************************)

FiendFire(f, tgt, n) ==
  LET count == Len(f.hand)
      again(x) == [i \in 1 .. count |-> x]
  IN  [f EXCEPT !.q = again(Item("EXHAUST_RANDOM", Player, Player, 1, ""))
                      \o again(Hit(Player, tgt, n, "NORMAL")) \o @]
ConditionalDraw(f, n, ty) ==
  IF \E i \in DOMAIN f.hand : TypeOfRow(f, f.hand[i]) = ty THEN f ELSE Top(f, Draw(n))
Madness(f) ==
  LET dear == SelectSeq(f.hand, LAMBDA r : f.card[r].now > 0)
      owed == SelectSeq(f.hand, LAMBDA r : InstanceBase(f.card[r]) > 0)
      from == IF dear # << >> THEN dear ELSE owed
  IN  IF from = << >> THEN f
      ELSE [f EXCEPT !.card[from[Pick(f, Len(from))]] = Permanent(@, 0)]
Enlightened(c) ==
  LET base == InstanceBase(c)
  IN  IF c.now <= 1 THEN c
      ELSE [c EXCEPT !.now = 1, !.flags = @ \cup {"FOR_TURN"},
                     !.base = IF base # RegistryCost(c) /\ c.base = NoBase THEN base ELSE @]
EnlightenedForGood(c) ==
  LET e == Enlightened(c)
  IN  IF InstanceBase(c) <= 1 THEN e
      ELSE IF e.now < 1 THEN [e EXCEPT !.flags = @ \cup {"FOR_TURN"}, !.base = 1]
      ELSE Permanent(e, 1)
Enlightenment(f, forGood) ==
  [f EXCEPT !.card = [r \in DOMAIN @ |->
     IF ~Contains(f.hand, r) THEN @[r]
     ELSE IF forGood THEN EnlightenedForGood(@[r]) ELSE Enlightened(@[r])]]
DarkShackles(f, m, n) ==
  LET weaker == Inflict(Player, m, "STRENGTH", -n)
      back == Inflict(Player, m, "SHACKLED", n)
  IN  IF DeadOrEscaped(f, m) THEN f
      ELSE IF Carries(f, m, "ARTIFACT") THEN Top(f, weaker) ELSE Top(Top(f, back), weaker)
\* Violence: some attacks of the draw pile, to the hand while it has room.
FetchOne(f, r) ==
  LET out == RemovedKnown([f EXCEPT !.draw = Without(@, r)], r)
  IN  IF Len(f.hand) < HandCap THEN [out EXCEPT !.hand = Append(@, r)]
      ELSE Swept(ResetCost([out EXCEPT !.disc = Append(@, r)], r))
DrawPileFetch(f, n, ty) ==
  LET found == Shuffled(SelectSeq(f.draw, LAMBDA r : TypeOfRow(f, r) = ty), f.roll)
  IN  FoldLeft(FetchOne, f, SubSeq(found, 1, IF n < Len(found) THEN n ELSE Len(found)))

(***************************************************************************)
(* The Bronze Orb's Stasis: a card leaves its pile for limbo and comes     *)
(* back when the orb dies.  Which card: one of the best rarity there is.   *)
(***************************************************************************)

Rarity(id) == CASE id \in {"FEED", "REAPER", "CORRUPTION_CARD", "BARRICADE_CARD", "FIEND_FIRE", "HAND_OF_GREED",
                           "DOUBLE_TAP_CARD", "LIMIT_BREAK", "PANACHE_CARD", "CHRYSALIS", "VIOLENCE",
                           "BOMB_CARD", "EXHUME", "SECRET_WEAPON", "SECRET_TECHNIQUE", "THINKING_AHEAD"} -> 3
                [] id \in {"STRIKE", "DEFEND", "BASH", "RITUAL_DAGGER"} \cup Curses -> 0
                [] id \in {"TWIN_STRIKE", "BODY_SLAM", "TRUE_GRIT", "FLEX", "HAVOC", "HEAVY_BLADE", "ARMAMENTS",
                           "WARCRY", "HEADBUTT_CARD"} \cup Statuses -> 1
                [] OTHER -> 2
ApplyStasis(f, owner) ==
  LET pile == IF f.draw # << >> THEN f.draw ELSE f.disc
      rank(r) == Rarity(f.card[r].id)
      best == SelectSeq(pile, LAMBDA r : \A i \in DOMAIN pile : rank(pile[i]) <= rank(r))
      r == best[Pick(f, Len(best))]
      left == [f EXCEPT !.draw = Without(@, r), !.disc = Without(@, r), !.limbo = Append(@, r)]
      out == IF f.draw # << >> THEN RemovedKnown(left, r) ELSE left
  IN  IF pile = << >> THEN f ELSE Top(out, Keyed(Gain(owner, "STASIS", -1), r))
StasisReturn(f, r, where) ==
  LET out == [f EXCEPT !.limbo = Without(@, r)]
  IN  IF ~Contains(f.limbo, r) THEN f
      ELSE IF where = "HAND" /\ Len(f.hand) < HandCap
           THEN Swept([out EXCEPT !.hand = Append(@, r)])
           ELSE [out EXCEPT !.disc = Append(@, r)]
===============================================================================
