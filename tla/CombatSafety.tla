----------------------------- MODULE CombatSafety -----------------------------
(***************************************************************************)
(* What must hold of the combat engine.                                    *)
(***************************************************************************)
EXTENDS CombatPump

(***************************************************************************)
(* The type of the state.  Energy is a natural number: a play is charged   *)
(* only after card_can_use has seen the energy for it.                     *)
(***************************************************************************)
Phases == {"NONE", "RESOLVING", "WAITING", "OVER"}
MonsterType ==
  [id : Nat, kind : MonsterKinds, hp : Nat, plan : Plans,
   half : BOOLEAN, escaped : BOOLEAN, split : BOOLEAN]
TerminalType ==
  [kind : TerminalKinds, stage : {"idle", "sort", "drain"},
   kept : Seq(ItemType), post : Seq(ItemType)]

\* Every variable has its type (combat_state.hpp:1124-1400).
TypeOK ==
  /\ phase \in Phases
  /\ turn \in Nat
  /\ turnHasEnded \in BOOLEAN
  /\ monsterAttacksQueued \in BOOLEAN
  /\ actionQueue \in Seq(ItemType)
  /\ cardQueue \in Seq(PlayType)
  /\ monsterQueue \in Seq(Nat)
  /\ draw \subseteq Card /\ hand \subseteq Card /\ discard \subseteq Card
  /\ exhaust \subseteq Card /\ limbo \subseteq Card /\ exhaustOnce \subseteq Card
  /\ energy \in Nat
  /\ played \in 0 .. NormalityLimit
  /\ playerHp \in 0 .. PlayerMaxHp
  /\ playerEscaped \in BOOLEAN
  /\ monsters \in Seq(MonsterType)
  /\ cannotLose \in BOOLEAN
  /\ clock \in 0 .. ClockLimit - 1
  /\ belt \subseteq Potions
  /\ terminal \in TerminalType

\* A fight that is over is decided by the result's own measure, and one that was
\* won has no monster left that was about to join: the last large slime is not
\* beaten between its own death and the arrival of its children
\* (action_queue.cpp:1080-1116, advance.cpp:388-396, monster_slime_large.cpp:83-111).
OverMeansDecided ==
  phase = "OVER" =>
    /\ ResultIsTerminal
    /\ playerHp > 0 /\ ~playerEscaped =>
         \A i \in DOMAIN actionQueue : actionQueue[i].op # "SPAWN_MONSTER"

(***************************************************************************)
(* The end of the turn.                                                    *)
(***************************************************************************)
Sentinels == {i \in DOMAIN cardQueue : IsSentinel(cardQueue[i])}

\* A turn is ended once.  The user's END_TURN and Time Warp's forced one never
\* meet in the card queue, and none waits there once the turn is being ended:
\* its replay would discard a hand and skip the monsters' round
\* (action_queue.cpp:1250-1289, interp.cpp:377-394, advance.cpp:540-546).
TurnEndsOnce ==
  /\ Cardinality(Sentinels) <= 1
  /\ Sentinels # {} =>
       monsterAttacksQueued /\ monsterQueue = << >> /\ ~turnHasEnded

(***************************************************************************)
(* Rounds: refinement of CombatRound.                                      *)
(***************************************************************************)
Stage ==
  CASE phase = "NONE" -> "start"
    [] phase = "OVER" -> "over"
    [] phase \in {"RESOLVING", "WAITING"} /\ ~turnHasEnded /\ monsterAttacksQueued
         -> "player"
    [] phase \in {"RESOLVING", "WAITING"} /\ ~turnHasEnded /\ ~monsterAttacksQueued
         -> "ending"
    [] phase \in {"RESOLVING", "WAITING"} /\ turnHasEnded /\ ~monsterAttacksQueued
         -> "called"
    [] OTHER -> "acting"
IdsAt(slots) == {monsters[i].id : i \in slots}

Round == INSTANCE CombatRound WITH
  stage <- Stage,
  round <- turn,
  inFight <- IdsAt({i \in Slots : ~BasicallyDead(monsters[i])}),
  owed <- IdsAt({monsterQueue[k] : k \in DOMAIN monsterQueue})

\* Rounds follow one another as CombatRound says: every monster in the fight when
\* the monsters are called gets its turn once, a split that moves the records
\* behind it included, before the player's next turn begins
\* (action_queue.cpp:1120-1346, monster_dispatch.cpp:940-966).
ImplementsRounds == Round!Spec

(***************************************************************************)
(* Cards.                                                                  *)
(***************************************************************************)
InPlay == draw \cup hand \cup discard \cup exhaust \cup limbo

\* A card is in one pile at a time (piles.cpp, card_play.cpp:313-326).
OnePileEach ==
  /\ draw \cap (hand \cup discard \cup exhaust \cup limbo) = {}
  /\ hand \cap (discard \cup exhaust \cup limbo) = {}
  /\ discard \cap (exhaust \cup limbo) = {}
  /\ exhaust \cap limbo = {}

\* No card disappears but a power that took effect and an autoplayed attack
\* whose target is gone, and none of these comes back (interp_cards.cpp:1414-
\* 1491, card_play.cpp:704-712).
CardsLeaveOnlyByRule ==
  [][ /\ InPlay' \subseteq InPlay
      /\ InPlay \ InPlay' \subseteq {c \in limbo : IsPower(c) \/ NeedsEnemy(c)} ]_vars

Unfiled == {c \in limbo :
  /\ \A i \in DOMAIN cardQueue : cardQueue[i].card # c
  /\ \A q \in {actionQueue, terminal.kept, terminal.post} :
       \A i \in DOMAIN q : ~(q[i].op = "USE_CARD" /\ q[i].card = c)}

\* Every card in limbo has something queued that will take it out: limbo "holds
\* the ONE card currently resolving" and the autoplays queued behind it
\* (interp.cpp:367-372, piles.hpp:120-130).  A card nothing will file is out of
\* the fight for good, and limbo has room for eight.
NoCardStranded == Unfiled = {}

\* Havoc's mark on a card ends with the play it was made for: a marked card is
\* on its way through limbo or gone, never in a pile from which it could be
\* played, and exhausted, a second time (interp_cards.cpp:1254-1256, 1463-1469).
HavocMarksOnePlay == exhaustOnce \cap (draw \cup hand \cup discard \cup exhaust) = {}

(***************************************************************************)
(* Life and death.                                                         *)
(***************************************************************************)
\* A dead player stays dead: no heal still queued when the fight ends, nor one
\* that a reaction queues during the sweep, brings the player back
\* (action_queue.cpp:243-250, 443-446).
DeadStaysDead == [][playerHp = 0 => playerHp' = 0]_vars

\* A half-dead Awakened One will rise and a large slime hurt to half its health
\* will split, whatever the rest of the turn that hurt it rolled
\* (monster_awakened_one.cpp:295-311, monster_slime_large.cpp:262-270).
ForcedMovesHold ==
  phase = "WAITING" =>
    \A i \in Slots :
      /\ monsters[i].half => monsters[i].plan = "rebirth"
      /\ monsters[i].split /\ ~BasicallyDead(monsters[i]) => monsters[i].plan = "split"

(***************************************************************************)
(* Progress.                                                               *)
(***************************************************************************)
\* The pump comes to rest: what a verb sets going ends with the verb back at the
\* user or the fight over (pump's loop, action_queue.cpp:1403-1423).
PumpSettles == phase = "RESOLVING" ~> phase \in {"WAITING", "OVER"}
================================================================================
