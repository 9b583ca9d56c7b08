------------------------------ MODULE DuelState ------------------------------
(***************************************************************************)
(* A fight as its numbers see it: who carries which powers and relics, the *)
(* items that wait in the action queue, and the cards in their piles.      *)
(* CombatPump models who may move when; here the queue is drained in order *)
(* and the question is what each item, power hook and relic hook does.     *)
(*                                                                         *)
(* A fight is one record f, and every operation of the engine is a         *)
(* function from fights to fights, as it is from CombatState to            *)
(* CombatState in the code:                                                *)
(*   act    actor -> [kind, hp, max, block, pow, mark, intent];            *)
(*          actor 0 is the player, the others are the monster records      *)
(*   relics the player's relics in order, [id, n] with n the counter       *)
(*   q      the action queue, front first                                  *)
(*   card   the card pool: row -> [id, now, base, flags, misc, root, x]    *)
(*   hand, draw, disc, exh, limbo   the piles, sequences of rows (the top  *)
(*          of the draw pile is its last row); cq the cards to play next   *)
(*   flag, combust, fairies, hurt   the packed bits of CombatState.flags   *)
(*   energy, turn, ended, played    turn bookkeeping; mq the monsters      *)
(*          still to move, queued whether they were lined up, closing the  *)
(*          end-of-turn sentinel in the card queue                         *)
(*   belt, know   the potions at hand; what the player knows of the order  *)
(*          of the draw pile (KnowledgeState)                              *)
(*   gold, roll, over, tally   gold taken, the die of this step, how the   *)
(*          fight ended, the ledger of what happened that properties read  *)
(***************************************************************************)
EXTENDS Integers, Sequences, FiniteSets, SequencesExt, Functions

CONSTANTS
  HandCap,      \* kHandCap, 10
  PowerCap,     \* kPowerCap, 24: an append past it is dropped
  Faces         \* the die: random picks of one step use one number 0 .. Faces - 1

ASSUME DuelAssumption ==
  /\ HandCap \in Nat \ {0}
  /\ PowerCap \in Nat \ {0}
  /\ Faces \in Nat \ {0}

Player == 0
AllEnemies == -1
RandomEnemy == -2

(***************************************************************************)
(* Queue items and hook contexts.                                          *)
(***************************************************************************)

Item(op, src, tgt, n, x) == [op |-> op, src |-> src, tgt |-> tgt, n |-> n, x |-> x, k |-> 0]
Keyed(it, k) == [it EXCEPT !.k = k]

Gain(a, pw, n) == Item("APPLY_POWER", a, a, n, pw)
Inflict(src, tgt, pw, n) == Item("APPLY_POWER", src, tgt, n, pw)
Drop(a, pw) == Item("REMOVE_POWER", a, a, 0, pw)
Lessen(a, pw) == Item("REDUCE_POWER", a, a, 1, pw)
Hit(src, tgt, n, ty) == Item("DAMAGE", src, tgt, n, ty)
Shield(a, n) == Item("BLOCK", a, a, n, "RAW")     \* kBlockNoPowers
Draw(n) == Item("DRAW_CARDS", Player, Player, n, "")
Energy(n) == Item("GAIN_ENERGY", Player, Player, n, "")
Make(pile, id, n) == Item(pile, Player, Player, n, id)   \* MAKE_CARD; pile is where it lands

Top(f, it) == [f EXCEPT !.q = <<it>> \o @]
Bot(f, it) == [f EXCEPT !.q = Append(@, it)]
Bots(f, its) == [f EXCEPT !.q = @ \o its]

Ctx == [o |-> 0, id |-> "", n |-> 0, k |-> 0, i |-> 0, row |-> 0, tgt |-> 0, src |-> 0,
        amt |-> 0, ty |-> "", pw |-> ""]

(***************************************************************************)
(* Actors.                                                                 *)
(***************************************************************************)

Monsters(f) == DOMAIN f.act \ {Player}
InOrder(f) == [m \in 1 .. Cardinality(Monsters(f)) |-> m]
Foe(a) == IF a = Player THEN AllEnemies ELSE Player

Dying(f, a) == f.act[a].hp <= 0
DeadOrEscaped(f, m) == Dying(f, m) \/ "ESCAPED" \in f.act[m].mark
Fighting(f) == {m \in Monsters(f) : ~DeadOrEscaped(f, m)}

(***************************************************************************)
(* Powers: a packed list, kept in priority order by applications but not   *)
(* by the seeding of a monster (add_power_direct).                         *)
(***************************************************************************)

Slot(id, n, k) == [id |-> id, amt |-> n, ctr |-> k]
Pow(f, a) == f.act[a].pow
SlotOf(f, a, id) == SelectInSeq(Pow(f, a), LAMBDA p : p.id = id)
HasSlot(f, a, id) == SlotOf(f, a, id) # 0
Carries(f, a, id) == \E i \in DOMAIN Pow(f, a) : Pow(f, a)[i].id = id /\ Pow(f, a)[i].amt > 0
AmountOf(f, a, id) == LET i == SlotOf(f, a, id) IN IF i = 0 THEN 0 ELSE Pow(f, a)[i].amt
SetAmount(f, a, i, n) == [f EXCEPT !.act[a].pow[i].amt = n]
SetCounter(f, a, i, n) == [f EXCEPT !.act[a].pow[i].ctr = n]

Debuffs == {"VULNERABLE", "WEAK", "FRAIL", "LOSE_STRENGTH", "LOSE_DEXTERITY", "NO_DRAW",
            "CONFUSION", "ENTANGLE", "NO_BLOCK", "SHACKLED", "HEX", "CONSTRICTED", "SLOW",
            "DRAW_REDUCTION"}
Instanced == {"THE_BOMB"}
IsDebuff(id, n) == id \in Debuffs \/ (id \in {"STRENGTH", "DEXTERITY"} /\ n <= 0)

Priority(id) ==
  CASE id = "CONFUSION" -> 0
    [] id = "PEN_NIB" -> 6
    [] id = "FRAIL" -> 10
    [] id \in {"FLIGHT", "REACTIVE"} -> 50
    [] id \in {"INTANGIBLE", "INTANGIBLE_MONSTER"} -> 75
    [] id \in {"WEAK", "INVINCIBLE"} -> 99
    [] id = "CONSTRICTED" -> 105
    [] OTHER -> 5
InPriority(pow) ==
  FoldLeft(LAMBDA s, p : s \o SelectSeq(pow, LAMBDA x : Priority(x.id) = p),
           << >>, <<0, 5, 6, 10, 50, 75, 99, 105>>)

\* What leaving the list does to its owner: a Byrd without Flight is stunned
\* and on the ground, a Shelled Parasite without its shell is stunned.
OnPowerRemoved(f, a, id) ==
  CASE id = "FLIGHT" /\ f.act[a].kind = "BYRD" ->
         Bot([f EXCEPT !.act[a].mark = @ \ {"FLYING"}], Item("SET_MOVE", a, a, 0, "STUN"))
    [] id = "PLATED_ARMOR" /\ f.act[a].kind = "PARASITE" ->
         Bot(f, Item("SET_MOVE", a, a, 0, "STUN"))
    [] OTHER -> f

\* The one place a slot leaves a list: the hook, the compaction, then the
\* bits that live outside the slot.
RemoveSlot(f, a, i) ==
  LET id == Pow(f, a)[i].id
      shut(g) == [g EXCEPT !.act[a].pow = RemoveAt(@, i),
                           !.act[a].mark = IF id = "CURL_UP" THEN @ \ {"CURLED"} ELSE @,
                           !.combust = IF id = "COMBUST" /\ a = Player THEN 0 ELSE @]
  IN  shut(OnPowerRemoved(f, a, id))

\* find_target_slot: a keyed item names one instance by its two numbers.
TargetSlot(f, it) ==
  SelectInSeq(Pow(f, it.tgt), LAMBDA p : /\ p.id = it.x
                                         /\ it.k # 0 => p.amt * 1000 + p.ctr = it.k)

RemovePower(f, it) ==
  LET i == TargetSlot(f, it) IN IF i = 0 THEN f ELSE RemoveSlot(f, it.tgt, i)

ReducePower(f, it) ==
  LET i == TargetSlot(f, it)
  IN  IF it.n <= 0 \/ i = 0 THEN f
      ELSE IF Pow(f, it.tgt)[i].amt <= it.n
           THEN RemoveSlot(f, it.tgt, i)
           ELSE SetAmount(f, it.tgt, i, Pow(f, it.tgt)[i].amt - it.n)

(***************************************************************************)
(* Relics and cards.                                                       *)
(***************************************************************************)

HasRelic(f, id) == \E i \in DOMAIN f.relics : f.relics[i].id = id

Attacks == {"STRIKE", "BASH", "TWIN_STRIKE", "FEED", "DROPKICK", "BLOOD_FOR_BLOOD", "WHIRLWIND",
            "REAPER", "RITUAL_DAGGER", "SWIFT_STRIKE", "BODY_SLAM", "RAMPAGE", "MIND_BLAST",
            "FIEND_FIRE", "HAND_OF_GREED", "HEAVY_BLADE", "HEADBUTT_CARD"}
Powers == {"CORRUPTION_CARD", "BARRICADE_CARD", "PANACHE_CARD", "INFLAME"}
Statuses == {"DAZED", "WOUND", "VOID", "BURN"}
Curses == {"PAIN", "REGRET", "DOUBT", "NECRONOMICURSE", "NORMALITY"}
TypeOfCard(id) == CASE id \in Attacks -> "ATTACK"
                    [] id \in Powers -> "POWER"
                    [] id \in Statuses -> "STATUS"
                    [] id \in Curses -> "CURSE"
                    [] OTHER -> "SKILL"
TypeOfRow(f, r) == IF r \in DOMAIN f.card THEN TypeOfCard(f.card[r].id) ELSE "NONE"
Purged(f, r) == "PURGE" \in f.card[r].flags

\* The moves whose intent is to attack.
AttackMoves == {"BITE", "BEAM", "PECK", "SWOOP", "HEADBUTT", "STRIKE_TWICE", "SUCK", "FELL", "RUSH",
                "SKULL_BASH", "SLAM", "SCYTHE", "SHIELD_BASH", "SMASH", "BURN_STRIKE", "SKEWER"}

(***************************************************************************)
(* The Spire Shield stands to the player's left and the Spear to the       *)
(* right: while the player is Surrounded, one of the two strikes from      *)
(* behind and carries the Back Attack marker (back_attack.cpp).            *)
(***************************************************************************)

Guards == {"SPIRE_SHIELD", "SPIRE_SPEAR"}
IsLeft(f, m) == f.act[m].kind = "SPIRE_SHIELD"
Behind(f, m) == IsLeft(f, m) # ("FACING_LEFT" \in f.flag)
AppliesBackAttack(f, m) == HasSlot(f, Player, "SURROUNDED") /\ Behind(f, m)
FaceToward(f, m) ==
  [f EXCEPT !.flag = IF IsLeft(f, m) THEN @ \cup {"FACING_LEFT"} ELSE @ \ {"FACING_LEFT"}]
Misplaced(f) == SelectSeq(InOrder(f), LAMBDA m : Behind(f, m) # HasSlot(f, m, "BACK_ATTACK"))
\* Each correction goes in front of all that waits, the last foe's first.
RefreshMarkers(f) ==
  LET correct(g, m) == Top(g, IF Behind(f, m) THEN Gain(m, "BACK_ATTACK", -1) ELSE Drop(m, "BACK_ATTACK"))
  IN  FoldLeft(correct, f, Misplaced(f))
\* A card or a potion aimed at a foe turns the player to it.
TurnedTo(f, m) ==
  IF m = Player \/ ~HasSlot(f, Player, "SURROUNDED") THEN f ELSE RefreshMarkers(FaceToward(f, m))

(***************************************************************************)
(* Prices.  "now" is what the card costs, "base" what it will cost when    *)
(* the turn is over, or NoBase when that is its registry cost; FOR_TURN    *)
(* marks a price that lasts for the turn.                                  *)
(***************************************************************************)

NoBase == -1
CostOf(id) ==
  CASE id = "BLOOD_FOR_BLOOD" -> 4
    [] id \in {"CORRUPTION_CARD", "BARRICADE_CARD"} -> 3
    [] id \in {"BASH", "REAPER", "FIEND_FIRE", "HAND_OF_GREED", "ENTRENCH", "CHRYSALIS", "MIND_BLAST",
               "HEAVY_BLADE", "FLAME_BARRIER_CARD", "BOMB_CARD"} -> 2
    [] id \in {"SWIFT_STRIKE", "WHIRLWIND", "PANACHE_CARD", "FLEX", "RAGE_CARD", "PURITY",
               "ENLIGHTENMENT", "DARK_SHACKLES", "DEEP_BREATH", "IMPATIENCE", "BATTLE_TRANCE",
               "VIOLENCE", "BLOODLETTING", "WARCRY", "FORETHOUGHT", "THINKING_AHEAD",
               "SECRET_WEAPON", "SECRET_TECHNIQUE"} \cup Statuses \cup Curses -> 0
    [] OTHER -> 1
UpgradedCostOf(id) ==
  IF id \in {"BLOOD_FOR_BLOOD", "CORRUPTION_CARD", "BARRICADE_CARD", "MIND_BLAST", "ENTRENCH", "BODY_SLAM",
             "HAVOC", "INFERNAL_BLADE", "MADNESS", "EXHUME"}
  THEN CostOf(id) - 1 ELSE CostOf(id)
IsUpgraded(c) == "UPGRADED" \in c.flags
RegistryCost(c) == IF IsUpgraded(c) THEN UpgradedCostOf(c.id) ELSE CostOf(c.id)
IsUnplayable(id) == id \in Statuses \cup Curses
IsXCost(id) == id = "WHIRLWIND"
Exhausts == {"FEED", "REAPER", "RITUAL_DAGGER", "FIEND_FIRE", "MADNESS", "DARK_SHACKLES", "CHRYSALIS",
             "INFERNAL_BLADE", "LIMIT_BREAK", "VIOLENCE", "WARCRY", "EXHUME", "DISCOVERY", "PURITY",
             "SECRET_WEAPON", "SECRET_TECHNIQUE", "THINKING_AHEAD"}
StaysWhenUpgraded == {"LIMIT_BREAK", "DISCOVERY", "SECRET_WEAPON", "SECRET_TECHNIQUE", "THINKING_AHEAD"}
FlagsOf(id) == {x \in {"EXHAUST"} : id \in Exhausts} \cup {x \in {"ETHEREAL"} : id \in {"DAZED", "VOID"}}
                 \cup {x \in {"INNATE"} : id = "MIND_BLAST"}
UpgradedFlagsOf(id) == {"UPGRADED"} \cup (IF id \in StaysWhenUpgraded THEN {} ELSE FlagsOf(id))

InstanceBase(c) == IF c.base # NoBase THEN c.base
                   ELSE IF "FOR_TURN" \in c.flags THEN RegistryCost(c) ELSE c.now

SetCostForTurn(f, r, n) ==
  LET c == f.card[r]
      base == InstanceBase(c)
  IN  [f EXCEPT !.card[r].now = IF n < 0 THEN 0 ELSE n,
                !.card[r].base = IF c.base = NoBase /\ base # RegistryCost(c) THEN base ELSE @,
                !.card[r].flags = IF n # base THEN @ \cup {"FOR_TURN"} ELSE @]

Permanent(c, n) == [c EXCEPT !.now = n, !.base = NoBase, !.flags = @ \ {"FOR_TURN"}]

ResetCost(f, r) ==
  LET c == f.card[r]
  IN  IF "FOR_TURN" \notin c.flags THEN f
      ELSE [f EXCEPT !.card[r] = Permanent(@, IF c.base # NoBase THEN c.base ELSE RegistryCost(c))]
ResetCosts(f, rows) == FoldLeft(ResetCost, f, rows)

(***************************************************************************)
(* A replay: op_play_card with COPY, PURGE and QUEUE_FRONT.  The copy takes *)
(* the lowest free row of the pool, goes to limbo and to the front of the  *)
(* card queue, and an X card is copied with the energy it was played for.  *)
(***************************************************************************)

FreeRows(f) == {r \in DOMAIN f.card : f.card[r].id = "NONE"}
Lowest(S) == CHOOSE x \in S : \A y \in S : x <= y
Root(f, r) == IF f.card[r].root = 0 THEN r ELSE f.card[r].root

\* add_card_to_queue_top: the card at the head is the one being resolved, so
\* the newcomer goes behind it.
QueueFront(f, r, tgt) ==
  LET it == [row |-> r, tgt |-> tgt]
  IN  [f EXCEPT !.cq = IF @ = << >> THEN <<it>> ELSE <<@[1], it>> \o Tail(@)]

\* capture_purge_copy_x_energy
XCopy(f, c) ==
  IF IsXCost(c.id) THEN [c EXCEPT !.x = IF f.energy > 0 THEN f.energy ELSE 0, !.root = 0] ELSE c

Replay(f, r, tgt) ==
  LET c == f.card[r]
      copy == [c EXCEPT !.flags = @ \cup {"PURGE"},
                        !.root = IF c.id \in {"RITUAL_DAGGER", "RAMPAGE"} THEN Root(f, r) ELSE 0]
      placed(s) == QueueFront([f EXCEPT !.card[s] = XCopy(f, copy), !.limbo = Append(@, s)], s, tgt)
  IN  IF FreeRows(f) = {} THEN f ELSE placed(Lowest(FreeRows(f)))
===============================================================================
