---------------------------- MODULE DuelChoices ----------------------------
(***************************************************************************)
(* Choices in the middle of an effect: an item at the head of the queue    *)
(* that waits for the player to name cards, and what is done with each     *)
(* (CHOOSE_CARD, DISCOVERY and CODEX of interp_cards.cpp).                 *)
(*                                                                         *)
(* A CHOOSE item asks for n cards, one at a time, and resolves by itself   *)
(* when no more than n can be named.  A CHOOSE_ANY item lets up to n cards *)
(* be marked and unmarked, k of them lying marked at the end of the hand,  *)
(* until it is confirmed.  A DISCOVERY or CODEX item offers three cards.   *)
(***************************************************************************)
EXTENDS DuelCards

Choose(kind, n) == Item("CHOOSE", Player, Player, n, kind)
ChooseAny(kind, n) == Item("CHOOSE_ANY", Player, Player, n, kind)
Twins(n) == Keyed(Choose("DUPLICATE", 1), n)     \* n copies of the card named
Discover(pool, n) == Item("DISCOVERY", Player, Player, n, pool)

(***************************************************************************)
(* Which cards may be named.                                               *)
(***************************************************************************)

SourceOf(f, kind) ==
  CASE kind \in {"DISCARD_TO_TOP", "DISCARD_TO_HAND"} -> f.disc
    [] kind = "EXHAUST_TO_HAND" -> f.exh
    [] kind \in {"ATTACK_TO_HAND", "SKILL_TO_HAND"} -> f.draw
    [] OTHER -> f.hand
Upgradable(f, r) == TypeOfRow(f, r) \notin {"STATUS", "CURSE"} /\ ~IsUpgraded(f.card[r])
Eligible(f, kind, r) ==
  CASE kind = "ATTACK_TO_HAND" -> TypeOfRow(f, r) = "ATTACK"
    [] kind = "SKILL_TO_HAND" -> IsSkill(f, r)
    [] kind = "EXHAUST_TO_HAND" -> Len(f.hand) < HandCap /\ f.card[r].id # "EXHUME"
    [] kind = "UPGRADE" -> Upgradable(f, r)
    [] kind = "DUPLICATE" -> TypeOfRow(f, r) \in {"ATTACK", "POWER"}
    [] OTHER -> TRUE
Candidates(f, kind) == SelectSeq(SourceOf(f, kind), LAMBDA r : Eligible(f, kind, r))
Others(f, kind, r) == SelectSeq(f.hand, LAMBDA o : o # r /\ Eligible(f, kind, o))
Ineligible(f, kind) == SelectSeq(f.hand, LAMBDA o : ~Eligible(f, kind, o))

\* choice_requires_user, and the items the pump stops at by itself.
NeedsUser(f, it) ==
  CASE it.op = "CHOOSE" -> it.n > 0 /\ Len(Candidates(f, it.x)) > it.n
    [] it.op = "CHOOSE_ANY" -> it.n > 0 /\ f.hand # << >>
    [] OTHER -> it.op \in {"DISCOVERY", "CODEX"}
Blocked(f) == f.q # << >> /\ NeedsUser(f, Head(f.q))
Asked(f, op) == Blocked(f) /\ Head(f.q).op = op

(***************************************************************************)
(* upgrade_instance: the card's registry row changes; its price keeps its  *)
(* distance to the base cost, unless it is nothing.                        *)
(***************************************************************************)

Repriced(c, new) ==
  LET now == Clamp(IF c.now > 0 THEN new + c.now - InstanceBase(c) ELSE c.now)
  IN  IF now = new THEN Permanent(c, now)
      ELSE [c EXCEPT !.now = now, !.flags = @ \cup {"FOR_TURN"},
                     !.base = IF new = UpgradedCostOf(c.id) THEN NoBase ELSE new]
Cheapened(c) ==
  LET old == InstanceBase(c)
  IN  CASE c.id = "BLOOD_FOR_BLOOD" -> Repriced(c, Clamp(IF old < 4 THEN old - 1 ELSE 3))
        [] c.id # "BLOOD_FOR_BLOOD" /\ UpgradedCostOf(c.id) # CostOf(c.id) -> Repriced(c, UpgradedCostOf(c.id))
        [] OTHER -> c
Upgraded(c) ==
  [Cheapened(c) EXCEPT !.flags = (@ \ {"EXHAUST", "ETHEREAL"}) \cup UpgradedFlagsOf(c.id)]
Upgrade(f, r) == [f EXCEPT !.card[r] = Upgraded(@)]

(***************************************************************************)
(* What is done with a card that was named (apply_choice_to_slot).         *)
(***************************************************************************)

Freed(f, r) ==
  IF InstanceBase(f.card[r]) > 0 THEN [f EXCEPT !.card[r].flags = @ \cup {"FREE_ONCE"}] ELSE f
ToDrawTop(f, r) ==
  PlacedTop(ResetCost([f EXCEPT !.hand = Without(@, r), !.draw = Append(@, r)], r), r)
ToDrawBottom(f, r) ==
  PlacedBottom(ResetCost([Freed(f, r) EXCEPT !.hand = Without(@, r), !.draw = <<r>> \o @], r), r)
DiscardToTop(f, r) ==
  PlacedTop(ResetCost([f EXCEPT !.disc = Without(@, r), !.draw = Append(@, r)], r), r)
DiscardToHand(f, r) ==
  IF Len(f.hand) >= HandCap THEN f
  ELSE SetCostForTurn([f EXCEPT !.disc = Without(@, r), !.hand = Append(@, r)], r, 0)
HandToDiscard(f, r) == Swept(ResetCost([f EXCEPT !.hand = Without(@, r), !.disc = Append(@, r)], r))
ExhaustToHand(f, r) ==
  LET back == [f EXCEPT !.exh = Without(@, r), !.hand = Append(@, r)]
  IN  IF Len(f.hand) >= HandCap THEN f
      ELSE IF IsSkill(f, r) /\ HasSlot(f, Player, "CORRUPTION") THEN SetCostForTurn(back, r, 0)
      ELSE back
\* make_stat_equivalent_copy: the registry's flags and what the price needs.
CopyOf(f, r) ==
  LET c == f.card[r]
      own == IF IsUpgraded(c) THEN UpgradedFlagsOf(c.id) ELSE FlagsOf(c.id)
  IN  [c EXCEPT !.flags = own \cup (@ \cap {"FOR_TURN", "FREE_ONCE"}),
                !.misc = f.card[Root(f, r)].misc, !.root = 0, !.x = 0]
Clones(f, r, n) == MakeCards(f, CopyOf(f, r), n, "HAND")

ApplyChoice(f, it, r) ==
  CASE it.x = "EXHAUST" -> ExhaustFromHand(f, r)
    [] it.x = "DRAW_TOP" -> ToDrawTop(f, r)
    [] it.x = "DRAW_BOTTOM" -> ToDrawBottom(f, r)
    [] it.x = "UPGRADE" -> Upgrade(f, r)
    [] it.x = "DISCARD_TO_TOP" -> DiscardToTop(f, r)
    [] it.x = "DISCARD_TO_HAND" -> DiscardToHand(f, r)
    [] it.x = "GAMBLE" -> HandToDiscard(f, r)
    [] it.x = "DUPLICATE" -> Clones(f, r, it.k)
    [] it.x = "EXHAUST_TO_HAND" -> ExhaustToHand(f, r)
    [] it.x \in {"ATTACK_TO_HAND", "SKILL_TO_HAND"} -> FetchOne(f, r)

\* apply_choice_selection: the screen of an upgrade or a copy gives the hand
\* back in another order.
Selected(f, it, r) ==
  LET rest == Others(f, it.x, r)
  IN  CASE it.x = "UPGRADE" -> ApplyChoice([f EXCEPT !.hand = Append(rest, r) \o Ineligible(f, it.x)], it, r)
        [] it.x = "DUPLICATE" -> ApplyChoice([f EXCEPT !.hand = Append(rest \o Ineligible(f, it.x), r)], it, r)
        [] OTHER -> ApplyChoice(f, it, r)

(***************************************************************************)
(* op_choose_card: no more candidates than asked for.  The cards that are  *)
(* to go on top are picked at random while the hand shrinks under the loop *)
(* that counts them.                                                       *)
(***************************************************************************)

PutSomeOnTop(f) ==
  FoldLeft(LAMBDA g, i : IF i > Len(g.hand) THEN g ELSE ToDrawTop(g, g.hand[Pick(g, Len(g.hand))]),
           f, [i \in DOMAIN f.hand |-> i])
AutoChoose(f, it) ==
  IF it.op # "CHOOSE" \/ it.n <= 0 THEN f
  ELSE IF it.x = "DRAW_TOP" THEN PutSomeOnTop(f)
  ELSE FoldLeft(LAMBDA g, r : ApplyChoice(g, it, r), f, Candidates(f, it.x))

(***************************************************************************)
(* Marking cards, and what is done with those that stay marked.            *)
(***************************************************************************)

Unmarked(f) == Len(f.hand) - Head(f.q).k
MayToggle(f, i) == i > Unmarked(f) \/ (/\ Eligible(f, Head(f.q).x, f.hand[i])
                                       /\ Head(f.q).k < Head(f.q).n)
Toggled(f, i) ==
  LET r == f.hand[i]
      rest == RemoveAt(f.hand, i)
  IN  IF i <= Unmarked(f) THEN [f EXCEPT !.hand = Append(rest, r), !.q[1].k = @ + 1]
      ELSE [f EXCEPT !.hand = InsertedAt(rest, Unmarked(f), r), !.q[1].k = @ - 1]
Confirmed(f) ==
  LET it == Head(f.q)
      marked == SubSeq(f.hand, Unmarked(f) + 1, Len(f.hand))
      done == FoldLeft(LAMBDA g, r : ApplyChoice(g, it, r), [f EXCEPT !.q = Tail(@)], marked)
  IN  IF it.x = "GAMBLE" /\ it.k > 0 THEN Top(done, Draw(it.k)) ELSE done

(***************************************************************************)
(* Cards offered: a copy of the one taken, free for the turn, or (Nilry's  *)
(* Codex) at its price somewhere in the draw pile.  Any card of the pool   *)
(* may be among the three; here the pools are one or two cards.            *)
(***************************************************************************)

PoolOf(it) ==
  CASE it.op = "CODEX" -> {"DEFEND"}
    [] it.x = "ATTACK" -> {"TWIN_STRIKE"}
    [] it.x = "SKILL" -> {"DEFEND"}
    [] it.x = "POWER" -> {"INFLAME"}
    [] it.x = "COLORLESS" -> {"SWIFT_STRIKE"}
    [] OTHER -> {"TWIN_STRIKE", "DEFEND"}
LibraryCopy(f, id) ==
  LET r == Lowest(FreeRows(f))
  IN  IF FreeRows(f) = {} THEN f
      ELSE Landed(SetCostForTurn([f EXCEPT !.card[r] = NewCard(f, id)], r, 0), r, "HAND")
LibraryCopies(f, id, n) == FoldLeft(LAMBDA g, i : LibraryCopy(g, id), f, [i \in 1 .. n |-> i])
Taken(f, id) ==
  LET it == Head(f.q)
      rest == [f EXCEPT !.q = Tail(@)]
  IN  IF it.op = "CODEX" THEN MakeCards(rest, NewCard(f, id), 1, "DRAW_RANDOM")
      ELSE LibraryCopies(rest, id, it.n)
\* The Codex may always be declined, a potion's offer may, the card's may not.
MaySkip(it) == it.op = "CODEX" \/ it.x # "CARD"

(***************************************************************************)
(* Potions.  Each queues its steps behind what waits, with the double      *)
(* amount under Sacred Bark; the belt is the run's, a slot is emptied when *)
(* the potion has done its part.                                           *)
(***************************************************************************)

Bark(f) == IF HasRelic(f, "SACRED_BARK") THEN 2 ELSE 1
IsThrown(p) == p \in {"FIRE_POTION", "WEAK_POTION", "FEAR_POTION"}
Poured(p, t, k) ==
  CASE p = "HEART_OF_IRON" -> <<Gain(Player, "METALLICIZE", 6 * k)>>
    [] p = "BLOCK_POTION" -> <<Shield(Player, 12 * k)>>
    [] p = "DEXTERITY_POTION" -> <<Gain(Player, "DEXTERITY", 2 * k)>>
    [] p = "ENERGY_POTION" -> <<Energy(2 * k)>>
    [] p = "FIRE_POTION" -> <<Hit(Player, t, 20 * k, "THORNS")>>
    [] p = "STRENGTH_POTION" -> <<Gain(Player, "STRENGTH", 2 * k)>>
    [] p = "SWIFT_POTION" -> <<Draw(3 * k)>>
    [] p = "WEAK_POTION" -> <<Inflict(Player, t, "WEAK", 3 * k)>>
    [] p = "FEAR_POTION" -> <<Inflict(Player, t, "VULNERABLE", 3 * k)>>
    [] p = "STEROID_POTION" -> <<Gain(Player, "STRENGTH", 5 * k), Gain(Player, "LOSE_STRENGTH", 5 * k)>>
    [] p = "REGEN_POTION" -> <<Gain(Player, "REGEN", 5 * k)>>
    [] p = "ANCIENT_POTION" -> <<Gain(Player, "ARTIFACT", k)>>
    [] p = "LIQUID_BRONZE" -> <<Gain(Player, "THORNS", 3 * k)>>
    [] p = "ESSENCE_OF_STEEL" -> <<Gain(Player, "PLATED_ARMOR", 4 * k)>>
    [] p = "DUPLICATION_POTION" -> <<Gain(Player, "DUPLICATION", k)>>
    [] p = "CULTIST_POTION" -> <<Gain(Player, "RITUAL", k)>>
    [] p = "SNECKO_OIL" -> <<Draw(5 * k), Item("RANDOMIZE_HAND_COST", Player, Player, 0, "")>>
\* dispatch_native_potion.  The targets of Distilled Chaos are rolled as it is
\* drunk, before any of its cards is played.
Recalled(f, p, k) ==
  CASE p = "LIQUID_MEMORIES" -> <<Choose("DISCARD_TO_HAND", k)>>
    [] p = "GAMBLERS_BREW" -> IF f.hand = << >> THEN << >> ELSE <<ChooseAny("GAMBLE", 99)>>
    [] p = "DISTILLED_CHAOS" -> [i \in 1 .. 3 * k |-> Item("PLAY_TOP", Player, RandomTarget(f), 0, "")]
Distilled(f, p, k) ==
  CASE p = "BLOOD_POTION" -> <<Item("HEAL", Player, Player, (f.act[Player].max * 20 * k) \div 100, "")>>
    [] p = "BLESSING_OF_THE_FORGE" -> <<Choose("UPGRADE", 99)>>
    [] p = "ELIXIR" -> <<ChooseAny("EXHAUST", 99)>>
    [] p = "ATTACK_POTION" -> <<Discover("ATTACK", k)>>
    [] p = "SKILL_POTION" -> <<Discover("SKILL", k)>>
    [] p = "POWER_POTION" -> <<Discover("POWER", k)>>
    [] p = "COLORLESS_POTION" -> <<Discover("COLORLESS", k)>>
    [] OTHER -> Recalled(f, p, k)
NativePotions == {"BLOOD_POTION", "BLESSING_OF_THE_FORGE", "ELIXIR", "ATTACK_POTION", "SKILL_POTION",
                  "POWER_POTION", "COLORLESS_POTION", "LIQUID_MEMORIES", "GAMBLERS_BREW", "DISTILLED_CHAOS"}
Drunk(f, i, t) ==
  LET p == f.belt[i]
      its == IF p \in NativePotions THEN Distilled(f, p, Bark(f)) ELSE Poured(p, t, Bark(f))
      toy == IF HasRelic(f, "TOY_ORNITHOPTER") THEN <<Item("HEAL", Player, Player, 5, "")>> ELSE << >>
  IN  [TurnedTo(f, t) EXCEPT !.q = @ \o its \o toy, !.belt = RemoveAt(@, i)]

(***************************************************************************)
(* What resample.cpp may put the draw pile into: every order that agrees   *)
(* with what is known, by shuffling the unknown cards with one blank for   *)
(* each card of which only the order is known.                             *)
(***************************************************************************)

InKnownOrder(w, ordered) ==
  LET blanksTo(i) == Cardinality({j \in 1 .. i : w[j] < 0})
  IN  [i \in DOMAIN w |-> IF w[i] < 0 THEN ordered[blanksTo(i)] ELSE w[i]]
Resampled(f) ==
  LET k == f.know
      exact == Smaller(k.exact, Len(f.draw))
      ordered == SelectSeq(SubSeq(k.chain, exact + 1, Len(k.chain)), LAMBDA r : Contains(f.draw, r))
      window == SubSeq(TopFirst(f), exact + 1, Len(f.draw))
      free == {window[i] : i \in DOMAIN window} \ ToSet(ordered)
      blanks == {-i : i \in DOMAIN ordered}
  IN  IF Len(f.draw) < 2 \/ k.full THEN {f.draw}
      ELSE {Reverse(SubSeq(TopFirst(f), 1, exact) \o InKnownOrder(w, ordered)) : w \in SetToSeqs(free \cup blanks)}

(***************************************************************************)
(* What the player is shown (public_view.cpp): cards by their face, the    *)
(* draw pile as a bag with the ranks of the cards whose place is known, no *)
(* intent under the Runic Dome.                                            *)
(***************************************************************************)

Face(f, r) == [id |-> f.card[r].id, now |-> f.card[r].now, flags |-> f.card[r].flags]
Shown(f, pile) == [i \in DOMAIN pile |-> Face(f, pile[i])]
DrawBag(f) == [c \in ToSet(Shown(f, f.draw)) |-> Cardinality({r \in ToSet(f.draw) : Face(f, r) = c})]
ShownFoe(f, m) == IF HasRelic(f, "RUNIC_DOME") THEN [f.act[m] EXCEPT !.intent = ""] ELSE f.act[m]
PublicCombat(f) ==
  [player |-> f.act[Player], energy |-> f.energy, turn |-> f.turn, played |-> f.played, gold |-> f.gold,
   flag |-> f.flag, hand |-> Shown(f, f.hand), disc |-> Shown(f, f.disc), exh |-> Shown(f, f.exh),
   limbo |-> Shown(f, f.limbo), draw |-> DrawBag(f), foes |-> [m \in Monsters(f) |-> ShownFoe(f, m)]]
\* A known card takes the first slot of its face that no earlier one has taken,
\* so only faces and ranks are told; exact places are the first of the ranks.
PublicKnowledge(f) ==
  LET k == f.know
      dealt(i) == Cardinality({j \in 1 .. i : Face(f, k.chain[j]) = Face(f, k.chain[i])})
      bound == {i \in DOMAIN k.chain : Face(f, k.chain[i]) \in DOMAIN DrawBag(f)
                                         /\ dealt(i) <= DrawBag(f)[Face(f, k.chain[i])]}
  IN  [chain |-> Len(k.chain), exact |-> k.exact, full |-> k.full,
       rank |-> [i \in bound |-> [face |-> Face(f, k.chain[i]), nth |-> dealt(i), placed |-> i <= k.exact]]]
=============================================================================
