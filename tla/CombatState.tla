----------------------------- MODULE CombatState -----------------------------
(***************************************************************************)
(* The state of one fight (include/sts/engine/combat_state.hpp) and the    *)
(* predicates every part of the engine shares.                             *)
(*                                                                         *)
(* Data is abstracted to what the queues tell apart.  A card is a row of   *)
(* the card pool with a kind that fixes its program; piles are sets of     *)
(* rows, so a shuffle is a free choice of the next card; all damage is one *)
(* point; a card costs one energy.  Monsters keep their record slots,      *)
(* because queued items name a monster by slot and a spawn moves slots.    *)
(***************************************************************************)
EXTENDS Integers, Sequences, FiniteSets

CONSTANTS
  Card,            \* the rows of the card pool that hold a card
  KindOf,          \* [Card -> CardKinds]
  NoCard,          \* "no row": items about no card, and the end-turn sentinel
  Encounters,      \* the fights there are: sequences of monster kinds, in slot order
  MonsterMaxHp,    \* hp of a monster at full health
  PlayerMaxHp,     \* hp of the player at the start and the heal limit
  EnergyMaster,    \* energy per turn
  HandSize,        \* cards drawn per turn (game_hand_size)
  HandCap,         \* kHandCap
  ChaosPlays,      \* cards a Distilled Chaos plays (its potency, 3)
  ClockLimit,      \* Time Warp's countdown (12 in the game)
  PlayerThorns,    \* does the player carry Thorns?
  Belt             \* the combat potions carried into the fight

CardKinds == {"strike", "bite", "havoc", "grit", "power", "burn", "dazed", "normality"}
MonsterKinds == {"plain", "spiker", "splitter", "slime", "reviver", "cultist",
                 "clock", "thief"}
Plans == {"attack", "split", "rebirth", "flee"}
Potions == {"distilled_chaos", "smoke_bomb"}

ASSUME CardAssumption ==
  /\ KindOf \in [Card -> CardKinds]
  /\ NoCard \notin Card
  /\ IsFiniteSet(Card)
ASSUME FightAssumption ==
  /\ Encounters \subseteq Seq(MonsterKinds) \ {<< >>}
  /\ MonsterMaxHp \in Nat \ {0}
  /\ PlayerMaxHp \in Nat \ {0}
  /\ ClockLimit \in Nat \ {0}
  /\ PlayerThorns \in BOOLEAN
  /\ Belt \subseteq Potions
ASSUME TurnAssumption ==
  /\ EnergyMaster \in Nat
  /\ HandSize \in Nat
  /\ HandCap \in Nat
  /\ ChaosPlays \in Nat

VARIABLES
  phase,                 \* CombatPhase
  turn,                  \* turns started
  played,                \* cards_played_this_turn, as far as Normality counts
  turnHasEnded,          \* turn_has_ended
  monsterAttacksQueued,  \* monster_attacks_queued
  actionQueue,           \* the action ring, as the deque it implements
  cardQueue,             \* pending card plays and the end-turn sentinel
  monsterQueue,          \* slots of the monsters still to act
  draw, hand, discard, exhaust, limbo,   \* the five piles
  exhaustOnce,           \* rows with EXHAUST_ON_USE_ONCE
  energy, playerHp, playerEscaped,
  monsters,              \* monster records, by slot
  cannotLose,            \* kCombatFlagCannotLose
  clock,                 \* the amount of the Time Warp power
  belt,                  \* potions not yet drunk
  terminal               \* the terminal sweep in progress, if any

piles == <<draw, hand, discard, exhaust, limbo, exhaustOnce>>
control == <<phase, turn, turnHasEnded, monsterAttacksQueued, terminal>>
vars == <<control, actionQueue, cardQueue, monsterQueue, piles, energy,
          played, playerHp, playerEscaped, monsters, cannotLose, clock, belt>>

Player == 0                            \* kActorPlayer; monsters are slots 1..n
Slots == 1 .. Len(monsters)

(***************************************************************************)
(* Monsters: combat_state.hpp:1099-1123.  A half-dead monster (an Awakened *)
(* One between its lives) has no hp and still counts as being in the       *)
(* fight; id is the model's own name for a record, stable when slots move. *)
(***************************************************************************)
Monster(id, kind, hp) ==
  [id |-> id, kind |-> kind, hp |-> hp, plan |-> "attack",
   half |-> FALSE, escaped |-> FALSE, split |-> FALSE]

IsDying(m) == m.hp = 0 /\ ~m.half
DeadOrEscaped(m) == m.hp = 0 \/ m.escaped
BasicallyDead(m) == IsDying(m) \/ m.escaped

AnyMonsterAlive == \E i \in Slots : ~BasicallyDead(monsters[i])
Targets == {i \in Slots : ~DeadOrEscaped(monsters[i])}

\* The one sequence that lists the numbers of S in increasing order.
InOrder(S) == {q \in [1 .. Cardinality(S) -> S] :
                 \A i, j \in DOMAIN q : i < j => q[i] < q[j]}

\* roll_random_target: a live monster, or the player when there is none.
RandomTargets == IF Targets = {} THEN {Player} ELSE Targets

(***************************************************************************)
(* Queue items.                                                            *)
(***************************************************************************)
Opcodes ==
  {"DRAW", "DAMAGE", "HEAL", "USE_CARD", "PLAY_TOP_DRAW", "PLAY_CARD",
   "CHOOSE_CARD", "DISCARD_HAND", "MONSTER_START_TURN", "CANNOT_LOSE",
   "CAN_LOSE", "SUICIDE", "SPAWN_MONSTER", "ESCAPE", "CLEAR_CARD_QUEUE",
   "ROLL_MOVE", "SET_MOVE"}

Item(op, src, tgt, card, n) ==
  [op |-> op, src |-> src, tgt |-> tgt, card |-> card, n |-> n]
Act(op, tgt, n) == Item(op, Player, tgt, NoCard, n)

Normal == 0                            \* DamageType of a DAMAGE item
Thorns == 1
Damage(src, tgt, type) == Item("DAMAGE", src, tgt, NoCard, type)

Trigger == 0                           \* does USE_CARD fire onAfterUseCard?
DontTrigger == 1
UseCard(card, trigger) == Item("USE_CARD", Player, Player, card, trigger)

ItemType == [op : Opcodes, src : Nat, tgt : Nat, card : Card \cup {NoCard}, n : Nat]
PlayType == [card : Card \cup {NoCard}, tgt : Nat]

Play(card, tgt) == [card |-> card, tgt |-> tgt]
EndTurnSentinel == Play(NoCard, Player)
IsSentinel(play) == play.card = NoCard

\* add_card_to_queue_top never displaces the play that is being resolved.
QueuedOnTop(queue, play) ==
  IF queue = << >> THEN <<play>>
  ELSE <<Head(queue), play>> \o Tail(queue)

(***************************************************************************)
(* Cards.                                                                  *)
(***************************************************************************)
IsPower(c) == KindOf[c] = "power"
NeedsEnemy(c) == KindOf[c] \in {"strike", "bite"}
Playable(c) == KindOf[c] \notin {"burn", "dazed", "normality"}
Ethereal(c) == KindOf[c] = "dazed"
EndOfTurnTrigger(c) == KindOf[c] = "burn"

\* The program a card queues when it is played (queue_effect_step).
Effects(c, tgt) ==
  CASE KindOf[c] = "strike"  -> <<Damage(Player, tgt, Normal)>>
    [] KindOf[c] = "bite"    -> <<Damage(Player, tgt, Normal), Act("HEAL", Player, 0)>>
    [] KindOf[c] = "havoc"   -> <<Act("PLAY_TOP_DRAW", Player, 0)>>
    [] KindOf[c] = "grit"    -> <<Act("CHOOSE_CARD", Player, 1)>>
    [] OTHER                 -> << >>

\* Where a card leaves limbo to: a power lands in no pile at all.
FiledToExhaust(c) == ~IsPower(c) /\ c \in exhaustOnce
FiledToDiscard(c) == ~IsPower(c) /\ c \notin exhaustOnce

Autoplaying(c) == c \in limbo

(***************************************************************************)
(* Can a card be used?  card_play.cpp:570-660.                             *)
(***************************************************************************)
NormalityLimit == 3
NormalityVetoes ==
  played >= NormalityLimit /\ \E c \in hand : KindOf[c] = "normality"

CardCanUse_Unpaid(c, autoplay) ==      \* mutant: affordability is not checked
  Playable(c) /\ ~turnHasEnded /\ ~NormalityVetoes

CardCanUseWithoutTarget(c, autoplay) ==
  /\ Playable(c)
  /\ ~turnHasEnded
  /\ ~NormalityVetoes
  /\ autoplay \/ energy >= 1

CardCanUse(c, tgt, autoplay) ==
  /\ AnyMonsterAlive
  /\ ~(NeedsEnemy(c) /\ tgt \in Slots /\ IsDying(monsters[tgt]))
  /\ CardCanUseWithoutTarget(c, autoplay)

\* The pump is blocked on a choice the user must make.
ChoiceRequiresUser(item) ==
  /\ item.op = "CHOOSE_CARD"
  /\ item.n > 0
  /\ Cardinality(hand) > item.n

ChoicePending == actionQueue # << >> /\ ChoiceRequiresUser(Head(actionQueue))

\* fill_result's verdict on the fight, advance.cpp:380-407.
ResultIsTerminal == playerHp = 0 \/ playerEscaped \/ ~AnyMonsterAlive

(***************************************************************************)
(* The sweep pump_step runs when the fight is decided is a loop over the   *)
(* action queue; the model takes one step per iteration.  "sort" splits    *)
(* the queue into the items that outlive the fight (post) and the others   *)
(* (kept), "drain" runs the survivors, "recheck" decides whether to sort   *)
(* again what a survivor queued.                                           *)
(***************************************************************************)
TerminalKinds == {"none", "defeat", "escape", "victory"}
Sweep(kind, stage, kept, post) ==
  [kind |-> kind, stage |-> stage, kept |-> kept, post |-> post]
NoTerminal == Sweep("none", "idle", << >>, << >>)
==============================================================================
