------------------------------ MODULE RunPurse ------------------------------
(***************************************************************************)
(* What a run carries between rooms (struct RunState, run_state.hpp) and   *)
(* the doors through which every room changes it: health, gold, the master *)
(* deck and the belt.  A run is a record                                   *)
(*                                                                         *)
(*   hp, max   health and its ceiling                                      *)
(*   gold      the purse                                                   *)
(*   deck      the master deck, a sequence of cards [k, up, bottle]        *)
(*   relics    the set of relics held                                      *)
(*   charm     charges left in Omamori (0 when it is not held)             *)
(*   tail      Lizard Tail is held and unused (counter -1)                 *)
(*   doll      Du-Vu Doll's counter, -1 when it is not held                *)
(*   lifts     Girya's counter                                             *)
(*   maw       Maw Bank has not been spent (counter not -2)                *)
(*   nest      chests left to Matryoshka;  mask: N'loth's Mask is unused   *)
(*   belt      the potion slots                                            *)
(*   pools     the shuffled relic pools, one per tier                      *)
(*   hard      ascension 15 or higher                                      *)
(*   purge     the price of the shop's card removal                        *)
(*   keys      the act-4 keys held                                         *)
(*                                                                         *)
(* Numbers of the code that are percentages of max hp are exact integer    *)
(* arithmetic here; a random draw is a choice from a small set.            *)
(***************************************************************************)
EXTENDS Integers, Sequences, SequencesExt, FiniteSets

CONSTANTS
    DeckCap,        \* kMasterDeckCap
    BeltCap,        \* kPotionCap
    RandomCards,    \* kinds a card draw may give
    RandomCurses,   \* kinds a curse draw may give
    RandomPotions   \* potions a potion draw may give

Least(a, b) == IF a < b THEN a ELSE b
Most(a, b) == IF a > b THEN a ELSE b

Percent(n, p) == (n * p) \div 100
RoundedPercent(n, p) == (n * p + 50) \div 100
CeilPercent(n, p) == (n * p + 99) \div 100

-----------------------------------------------------------------------------
\* The cards the bodies tell apart: type, reward rarity, and whether the card
\* can leave the deck.
CardDef ==
  [ strike   |-> [type |-> "attack", rarity |-> "basic"],
    defend   |-> [type |-> "skill",  rarity |-> "basic"],
    bash     |-> [type |-> "attack", rarity |-> "basic"],
    heavy    |-> [type |-> "attack", rarity |-> "rare"],
    trick    |-> [type |-> "skill",  rarity |-> "uncommon"],
    power    |-> [type |-> "power",  rarity |-> "common"],
    bite     |-> [type |-> "attack", rarity |-> "special"],
    potent   |-> [type |-> "skill",  rarity |-> "special"],
    regret   |-> [type |-> "curse",  rarity |-> "curse"],
    parasite |-> [type |-> "curse",  rarity |-> "curse"],
    bell     |-> [type |-> "curse",  rarity |-> "curse"] ]

\* Every draw has something to give.
ASSUME PurseAssumption ==
  /\ DeckCap \in Nat /\ BeltCap \in Nat
  /\ IsFiniteSet(RandomCards) /\ RandomCards # {} /\ RandomCards \subseteq DOMAIN CardDef
  /\ RandomCurses \subseteq {k \in DOMAIN CardDef : CardDef[k].type = "curse"}
  /\ RandomPotions \subseteq STRING

Cards == [k : DOMAIN CardDef, up : Nat, bottle : BOOLEAN]

\* struct RunState.
Runs ==
  [hp : Nat, max : Nat, gold : Nat, deck : Seq(Cards), relics : SUBSET STRING, charm : Nat,
   tail : BOOLEAN, doll : Int, lifts : Nat, maw : BOOLEAN, nest : Nat, mask : BOOLEAN,
   belt : Seq(STRING), pools : [{"common", "uncommon", "rare", "shop", "boss"} -> Seq(STRING)],
   hard : BOOLEAN, purge : Nat, keys : SUBSET STRING]

TypeOf(c) == CardDef[c.k].type
Fresh(k, up) == [k |-> k, up |-> up, bottle |-> FALSE]

Curses(deck) == Cardinality({i \in 1..Len(deck) : TypeOf(deck[i]) = "curse"})

rest_card_purgeable(c) == c.k # "bell"
master_card_purgeable_unbottled(c) == rest_card_purgeable(c) /\ ~c.bottle
rest_card_upgradeable(c) == TypeOf(c) # "curse" /\ c.up = 0

Owns(r, x) == x \in r.relics

-----------------------------------------------------------------------------
\* Health.  event_common's heal leaves a dead run alone; heal_out_of_combat,
\* the relics' door, does not ask.
HealOutOfCombat(r, n) ==
  [r EXCEPT !.hp = Least(r.max, @ + (IF Owns(r, "bloom") THEN 0 ELSE n))]

Heal(r, n) == IF n <= 0 \/ r.hp <= 0 THEN r ELSE HealOutOfCombat(r, n)

RaiseMax(r, n) == Heal([r EXCEPT !.max = @ + n], n)

LowerMax(r, n) ==
  LET lowered == Most(1, r.max - n)
  IN  [r EXCEPT !.max = lowered, !.hp = Least(@, lowered)]

-----------------------------------------------------------------------------
\* Gold.  Ectoplasm closes the door; Bloody Idol heals at it.
GainGold(r, n) ==
  IF Owns(r, "ectoplasm") \/ n <= 0 THEN r
  ELSE LET richer == [r EXCEPT !.gold = @ + n]
       IN  IF Owns(r, "bloody_idol") THEN HealOutOfCombat(richer, 5) ELSE richer

LoseGold(r, n) == [r EXCEPT !.gold = Most(0, @ - n)]

\* A purchase also spends Maw Bank.
SpendGold(r, n) == LoseGold([r EXCEPT !.maw = FALSE], n)

-----------------------------------------------------------------------------
\* The master deck.  Du-Vu Doll recounts the curses after every change.
Recounted(r) == IF Owns(r, "doll") THEN [r EXCEPT !.doll = Curses(r.deck)] ELSE r

\* The relics' onObtainCard: the eggs upgrade the card, Ceramic Fish pays,
\* Darkstone Periapt answers a curse with max hp.
Hatched(r, c) ==
  IF c.up = 0 /\ (\/ TypeOf(c) = "attack" /\ Owns(r, "molten_egg")
                  \/ TypeOf(c) = "skill" /\ Owns(r, "toxic_egg")
                  \/ TypeOf(c) = "power" /\ Owns(r, "frozen_egg"))
  THEN [c EXCEPT !.up = 1] ELSE c

ObtainHooks(r, c) ==
  LET paid == IF Owns(r, "ceramic_fish") THEN GainGold(r, 9) ELSE r
  IN  IF Owns(r, "darkstone") /\ TypeOf(c) = "curse"
      THEN [paid EXCEPT !.max = @ + 6, !.hp = @ + 6] ELSE paid

OmamoriBlocks(r, k) == CardDef[k].type = "curse" /\ r.charm > 0

AddPastOmamori(r, c) ==
  IF Len(r.deck) >= DeckCap THEN r
  ELSE Recounted(ObtainHooks([r EXCEPT !.deck = Append(@, Hatched(r, c))], c))

AddCopy(r, c) ==
  IF OmamoriBlocks(r, c.k) THEN [r EXCEPT !.charm = @ - 1] ELSE AddPastOmamori(r, c)

AddCard(r, k) == AddCopy(r, Fresh(k, 0))

\* add_card_to_master_deck_top: the note's card goes under index 0 and every
\* index moves by one; Omamori is not asked.
AddCardOnTop(r, k) ==
  IF Len(r.deck) >= DeckCap THEN r
  ELSE Recounted(ObtainHooks(
         [r EXCEPT !.deck = <<Hatched(r, Fresh(k, 0))>> \o @], Fresh(k, 0)))

AddCards(r, k, n) == FoldLeft(LAMBDA acc, i : AddCard(acc, k), r, [i \in 1..n |-> i])

\* remove_master_deck_card: a Parasite takes 3 max hp with it.
RemoveCard(r, i) ==
  LET left == [r EXCEPT !.deck = RemoveAt(@, i)]
  IN  Recounted(IF r.deck[i].k = "parasite" THEN LowerMax(left, 3) ELSE left)

\* Several cards, from the back of the deck.
Without(r, s) ==
  LET drop(acc, i) == IF i \in s THEN RemoveCard(acc, i) ELSE acc
      n == Len(r.deck)
  IN  FoldLeft(drop, r, [j \in 1..n |-> n + 1 - j])

UpgradeCard(r, i) == [r EXCEPT !.deck[i].up = @ + 1]

UpgradeSet(r, s) ==
  LET upgraded(c) == [c EXCEPT !.up = @ + 1]
  IN  [r EXCEPT !.deck = [i \in DOMAIN @ |-> IF i \in s THEN upgraded(@[i]) ELSE @[i]]]

\* Upgrading up to n cards of the set s, chosen at random.
UpgradeSome(r, s, n) ==
  {UpgradeSet(r, t) : t \in {t \in SUBSET s : Cardinality(t) = Least(n, Cardinality(s))}}

Upgradeable(r) == {i \in DOMAIN r.deck : rest_card_upgradeable(r.deck[i])}
Purgeable(r) == {i \in DOMAIN r.deck : rest_card_purgeable(r.deck[i])}
PurgeableUnbottled(r) ==
  {i \in DOMAIN r.deck : master_card_purgeable_unbottled(r.deck[i])}

\* transform_card: a curse becomes a curse, anything else another card.
TransformsOf(k) == IF CardDef[k].type = "curse" THEN RandomCurses \ {k} ELSE RandomCards \ {k}

Transform(r, i) ==
  {AddCard(RemoveCard(r, i), k) : k \in TransformsOf(r.deck[i].k)}

-----------------------------------------------------------------------------
\* The belt.
EmptySlots(r) == {i \in DOMAIN r.belt : r.belt[i] = "none"}
FirstEmpty(r) == CHOOSE i \in EmptySlots(r) : \A j \in EmptySlots(r) : i <= j

BeltFairies(r) == {i \in DOMAIN r.belt : r.belt[i] = "fairy"}

PutPotion(r, p) ==
  IF EmptySlots(r) = {} THEN r ELSE [r EXCEPT !.belt[FirstEmpty(r)] = p]

ClearSlot(r, i) == [r EXCEPT !.belt[i] = "none"]

=============================================================================
