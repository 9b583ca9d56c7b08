------------------------------ MODULE CombatPump ------------------------------
(***************************************************************************)
(* The combat engine: pump_step (src/src/engine/action_queue.cpp:1055-1346)*)
(* with the card plays it resolves, the monster turns it runs and the sweep*)
(* that ends the fight, under the verbs a user has (advance.cpp and, for   *)
(* potions, run_advance.cpp).                                              *)
(*                                                                         *)
(* The pump serves its queues in a fixed order, and each action below is   *)
(* one of its steps: queued items first, then card plays, then the queueing*)
(* of the monsters, their turns, the next player turn, and only when all   *)
(* that is done it waits for the user.                                     *)
(***************************************************************************)
EXTENDS CardEffects

CONSTANTS
  UnceasingTop,   \* does the player carry Unceasing Top?
  MaxTurn         \* bound of the model: the user stops acting after this turn

ASSUME PumpAssumption ==
  /\ UnceasingTop \in BOOLEAN
  /\ MaxTurn \in Nat

Init ==
  /\ phase = "NONE"
  /\ turn = 0
  /\ turnHasEnded = FALSE
  /\ monsterAttacksQueued = TRUE
  /\ terminal = NoTerminal
  /\ actionQueue = << >>
  /\ cardQueue = << >>
  /\ monsterQueue = << >>
  /\ draw = Card
  /\ hand = {} /\ discard = {} /\ exhaust = {} /\ limbo = {} /\ exhaustOnce = {}
  /\ energy = 0
  /\ played = 0
  /\ playerHp = PlayerMaxHp
  /\ playerEscaped = FALSE
  /\ \E met \in Encounters :
       /\ monsters = [i \in 1 .. Len(met) |-> Monster(i, met[i], MonsterMaxHp)]
       /\ cannotLose = (\E i \in DOMAIN met : met[i] = "reviver")
  /\ clock = 0
  /\ belt = Belt

(***************************************************************************)
(* start_of_turn: the energy, the flags and the opening draw.              *)
(***************************************************************************)
StartOfTurn ==
  /\ turn' = turn + 1
  /\ turnHasEnded' = FALSE
  /\ energy' = EnergyMaster
  /\ played' = 0
  /\ actionQueue' = <<Act("DRAW", Player, HandSize)>>

BeginFirstTurn ==
  /\ phase = "NONE"
  /\ phase' = "RESOLVING"
  /\ StartOfTurn
  /\ UNCHANGED <<monsterAttacksQueued, terminal, cardQueue, monsterQueue, piles,
                 playerHp, playerEscaped, monsters, cannotLose, clock, belt>>

(***************************************************************************)
(* The steps of the pump while the fight is undecided.                     *)
(***************************************************************************)
Decided_IgnoringCannotLose ==          \* mutant: an empty field is a victory
  playerHp = 0 \/ playerEscaped \/ ~AnyMonsterAlive
Decided == playerHp = 0 \/ playerEscaped \/ (~AnyMonsterAlive /\ ~cannotLose)
Running == phase = "RESOLVING" /\ terminal.stage = "idle" /\ ~Decided

\* What only the user, the turn and the end of the fight change.
fixtures == <<playerEscaped, belt, terminal>>

BlockOnChoice ==
  /\ Running
  /\ ChoicePending
  /\ phase' = "WAITING"
  /\ UNCHANGED <<turn, turnHasEnded, monsterAttacksQueued, actionQueue, cardQueue,
                 monsterQueue, piles, energy, played, playerHp, monsters,
                 cannotLose, clock, fixtures>>

\* The marker behind the discarded hand is what closes the player's turn.
RunMonsterStartTurn ==
  /\ Head(actionQueue).op = "MONSTER_START_TURN"
  /\ turnHasEnded' = TRUE
  /\ actionQueue' = Tail(actionQueue)
  /\ UNCHANGED <<cards, fight>>

RunAction ==
  /\ Running
  /\ actionQueue # << >>
  /\ ~ChoicePending
  /\ \/ RunMonsterStartTurn
     \/ Execute(Head(actionQueue), Tail(actionQueue)) /\ UNCHANGED turnHasEnded
  /\ UNCHANGED <<phase, turn, monsterAttacksQueued, energy, played, fixtures>>

\* dispatch_card_end_of_turn: the Burns in hand act and leave through limbo,
\* one after the other, before the rest of the hand is discarded.
BurnProgram(burns) ==
  [k \in 1 .. 2 * Len(burns) |->
     IF k % 2 = 1 THEN Damage(Player, Player, Thorns)
                  ELSE UseCard(burns[k \div 2], DontTrigger)]
Arrangements(S) == {f \in [1 .. Cardinality(S) -> S] : \A c \in S : \E i \in DOMAIN f : f[i] = c}

RunSentinel ==
  LET burning == {c \in hand : EndOfTurnTrigger(c)}
  IN  /\ Running
      /\ actionQueue = << >>
      /\ cardQueue # << >> /\ IsSentinel(Head(cardQueue))
      /\ monsterAttacksQueued' = FALSE
      /\ \E burns \in Arrangements(burning) :
           actionQueue' = BurnProgram(burns) \o <<Act("DISCARD_HAND", Player, 0)>>
      /\ hand' = hand \ burning
      /\ limbo' = limbo \cup burning
      /\ cardQueue' = Tail(cardQueue)
      /\ UNCHANGED <<phase, turn, turnHasEnded, monsterQueue, draw, discard, exhaust,
                     exhaustOnce, energy, played, fight, fixtures>>

(***************************************************************************)
(* resolve_card_play, card_play.cpp:662-844.                               *)
(***************************************************************************)
RejectPlay_Unfiled(play) ==            \* mutant: a rejected autoplay is dropped
  /\ ~CardCanUse(play.card, play.tgt, Autoplaying(play.card))
  /\ actionQueue' = << >>
  /\ UNCHANGED <<hand, limbo, energy, played>>

\* A rejected card stays in the hand; a rejected autoplay must still be filed.
RejectPlay(play) ==
  /\ ~CardCanUse(play.card, play.tgt, Autoplaying(play.card))
  /\ actionQueue' = IF Autoplaying(play.card) THEN <<UseCard(play.card, DontTrigger)>>
                    ELSE << >>
  /\ UNCHANGED <<hand, limbo, energy, played>>

TargetGone_AnyCard(play) ==            \* mutant: untargeted cards need a target too
  ~(play.tgt \in Slots /\ ~DeadOrEscaped(monsters[play.tgt]))

\* An accepted attack whose target is no longer in the fight does nothing: an
\* autoplay leaves limbo for no pile at all, a card from the hand stays there.
TargetGone(play) ==
  NeedsEnemy(play.card)
    /\ ~(play.tgt \in Slots /\ ~DeadOrEscaped(monsters[play.tgt]))
CountPlay == played' = IF played < NormalityLimit THEN played + 1 ELSE played

VanishPlay(play) ==
  /\ CardCanUse(play.card, play.tgt, Autoplaying(play.card))
  /\ TargetGone(play)
  /\ CountPlay
  /\ limbo' = limbo \ {play.card}
  /\ UNCHANGED <<actionQueue, hand, energy>>

AcceptPlay(play) ==
  /\ CardCanUse(play.card, play.tgt, Autoplaying(play.card))
  /\ ~TargetGone(play)
  /\ CountPlay
  /\ actionQueue' = Effects(play.card, play.tgt) \o <<UseCard(play.card, Trigger)>>
  /\ hand' = hand \ {play.card}
  /\ limbo' = limbo \cup {play.card}
  /\ energy' = IF Autoplaying(play.card) THEN energy ELSE energy - 1

RunCardPlay ==
  /\ Running
  /\ actionQueue = << >>
  /\ cardQueue # << >> /\ ~IsSentinel(Head(cardQueue))
  /\ \/ RejectPlay(Head(cardQueue))
     \/ VanishPlay(Head(cardQueue))
     \/ AcceptPlay(Head(cardQueue))
  /\ cardQueue' = Tail(cardQueue)
  /\ UNCHANGED <<phase, turn, turnHasEnded, monsterAttacksQueued, monsterQueue, draw,
                 discard, exhaust, exhaustOnce, fight, fixtures>>

(***************************************************************************)
(* The monsters' turn.                                                     *)
(***************************************************************************)
MonstersDue == Running /\ actionQueue = << >> /\ cardQueue = << >>

MonstersToQueue_Targetable == Targets  \* mutant: a half-dead monster gets no turn
MonstersToQueue == {i \in Slots : ~BasicallyDead(monsters[i])}

QueueMonsters ==
  /\ MonstersDue
  /\ ~monsterAttacksQueued
  /\ monsterAttacksQueued' = TRUE
  /\ \E queue \in InOrder(MonstersToQueue) :
       monsterQueue' = monsterQueue \o queue
  /\ UNCHANGED <<phase, turn, turnHasEnded, actionQueue, cards, energy, played, monsters,
                 playerHp, cannotLose, clock, fixtures>>

\* take_turn: what a monster in slot i queues for its plan.
MoveProgram(i) ==
  CASE monsters[i].plan = "attack" /\ monsters[i].kind = "thief" ->
         <<Damage(i, Player, Normal)>>
    [] monsters[i].plan = "attack" /\ monsters[i].kind # "thief" ->
         <<Damage(i, Player, Normal), Act("ROLL_MOVE", i, 0)>>
    [] monsters[i].plan = "split" ->
         <<Act("CANNOT_LOSE", Player, 0), Act("SUICIDE", i, 0),
           Act("SPAWN_MONSTER", i, monsters[i].hp),
           Act("SPAWN_MONSTER", i + 2, monsters[i].hp), Act("CAN_LOSE", Player, 0)>>
    [] monsters[i].plan = "rebirth" ->
         <<Act("ROLL_MOVE", i, 0), Act("HEAL", i, 0), Act("CAN_LOSE", Player, 0)>>
    [] OTHER -> <<Act("ESCAPE", i, 0)>>

\* A thief decides during its turn whether to go on stealing or to run next.
NextPlans(m) == IF m.kind = "thief" THEN {"attack", "flee"} ELSE {m.plan}

TakeTurn(i) ==
  /\ actionQueue' = MoveProgram(i)
  /\ \E plan \in NextPlans(monsters[i]) : monsters' = [monsters EXCEPT ![i].plan = plan]

RunMonster ==
  LET i == Head(monsterQueue)
  IN  /\ MonstersDue
      /\ monsterAttacksQueued
      /\ monsterQueue # << >>
      /\ monsterQueue' = Tail(monsterQueue)
      /\ IF i \in Slots /\ ~BasicallyDead(monsters[i])
         THEN TakeTurn(i)
         ELSE UNCHANGED <<actionQueue, monsters>>
      /\ UNCHANGED <<phase, turn, turnHasEnded, monsterAttacksQueued, cards, energy,
                     played, playerHp, cannotLose, clock, fixtures>>

(***************************************************************************)
(* Nothing left to do.                                                     *)
(***************************************************************************)
AllServed == MonstersDue /\ monsterAttacksQueued /\ monsterQueue = << >>

StartSubsequentTurn ==
  /\ AllServed
  /\ turnHasEnded /\ AnyMonsterAlive
  /\ StartOfTurn
  /\ UNCHANGED <<phase, monsterAttacksQueued, cards, fight, fixtures>>

TopRefills_AnyHand == UnceasingTop /\ draw \cup discard # {}   \* mutant
TopRefills == UnceasingTop /\ hand = {} /\ draw \cup discard # {}

WaitForUser ==
  /\ AllServed
  /\ ~(turnHasEnded /\ AnyMonsterAlive)
  /\ IF TopRefills
     THEN actionQueue' = <<Act("DRAW", Player, 1)>> /\ UNCHANGED phase
     ELSE phase' = "WAITING" /\ UNCHANGED actionQueue
  /\ UNCHANGED <<turn, turnHasEnded, monsterAttacksQueued, cards, energy, played, fight,
                 fixtures>>

(***************************************************************************)
(* The end of the fight: resolve_pending_post_combat_actions_at_terminal.  *)
(***************************************************************************)
TerminalKind ==
  CASE playerHp = 0 -> "defeat"
    [] playerHp > 0 /\ playerEscaped -> "escape"
    [] OTHER -> "victory"

Survives(item, kind) ==
  \/ kind \in {"victory", "escape"} /\ item.op \in {"USE_CARD", "HEAL"}
  \/ kind = "victory" /\ item.op \in {"DAMAGE", "SUICIDE"}

\* Does this item, once run, make the game look at its queue again?
ReachesClear(item) ==
  /\ item.op = "DAMAGE"
  /\ \/ item.n = Thorns
     \/ /\ item.tgt = Player \/ item.tgt \in Targets
        /\ ~AttackerCancelled(item)

BeginTerminal ==
  /\ phase = "RESOLVING" /\ terminal.stage = "idle" /\ Decided
  /\ terminal' = Sweep(TerminalKind, "sort", << >>, << >>)
  /\ UNCHANGED <<phase, turn, turnHasEnded, monsterAttacksQueued, actionQueue, cards,
                 energy, played, fight, playerEscaped, belt>>

SortItem ==
  /\ terminal.stage = "sort"
  /\ IF actionQueue # << >>
     THEN /\ terminal' = IF Survives(Head(actionQueue), terminal.kind)
                         THEN [terminal EXCEPT !.post = Append(@, Head(actionQueue))]
                         ELSE [terminal EXCEPT !.kept = Append(@, Head(actionQueue))]
          /\ actionQueue' = Tail(actionQueue)
     ELSE /\ terminal' = [terminal EXCEPT !.stage = "drain", !.post = << >>]
          /\ actionQueue' = terminal.post
  /\ UNCHANGED <<phase, turn, turnHasEnded, monsterAttacksQueued, cards, energy, played,
                 fight, playerEscaped, belt>>

Draining_Undead == terminal.stage = "drain" /\ actionQueue # << >>   \* mutant

\* A player who dies in the sweep runs nothing more.
Draining == terminal.stage = "drain" /\ playerHp > 0 /\ actionQueue # << >>

DrainStep ==
  LET item == Head(actionQueue)
      clears == ReachesClear(item)
  IN  /\ Draining
      /\ Execute(item, Tail(actionQueue))
      /\ terminal' =
           IF terminal.kind = "victory" /\ (~clears \/ AnyMonsterAlive') THEN terminal
           ELSE [terminal EXCEPT !.stage = "sort"]
      /\ UNCHANGED <<phase, turn, turnHasEnded, monsterAttacksQueued, energy, played,
                     playerEscaped, belt>>

\* normalize_terminal_card_queue files the autoplays still queued, each by a use
\* that Time Warp counts, and flush_limbo_at_combat_over the rest of limbo.
AutoplaysQueued == {i \in DOMAIN cardQueue : cardQueue[i].card \in limbo}

FinishTerminal ==
  /\ terminal.stage = "drain" /\ ~Draining
  /\ actionQueue' = terminal.kept \o actionQueue
  /\ terminal' = NoTerminal
  /\ phase' = "OVER"
  /\ FileFromLimbo(limbo)
  /\ cardQueue' = << >>
  /\ clock' = IF TimeWarpTicks THEN (clock + Cardinality(AutoplaysQueued)) % ClockLimit
              ELSE clock
  /\ UNCHANGED <<turn, turnHasEnded, monsterAttacksQueued, monsterQueue, draw, hand,
                 energy, played, playerHp, playerEscaped, monsters, cannotLose, belt>>

Pump ==
  \/ BlockOnChoice \/ RunAction \/ RunSentinel \/ RunCardPlay
  \/ QueueMonsters \/ RunMonster \/ StartSubsequentTurn \/ WaitForUser
  \/ BeginTerminal \/ SortItem \/ DrainStep \/ FinishTerminal

(***************************************************************************)
(* The user's verbs, each followed by the pump.  An illegal verb changes   *)
(* nothing (step_one), so only the legal ones are steps.                   *)
(***************************************************************************)
UserActs == phase = "WAITING" /\ turn <= MaxTurn
board == <<turn, turnHasEnded, monsterAttacksQueued, monsterQueue, energy, played,
           playerHp, monsters, cannotLose, clock, terminal>>

\* legal_actions' row for a targeted card, and play_is_legal's reading of it: a
\* card without a row is one that takes no target.
TargetRow(c) == {t \in Targets : NeedsEnemy(c) /\ CardCanUse(c, t, FALSE)}
CanPlay(c) ==
  /\ CardCanUseWithoutTarget(c, FALSE)
  /\ NeedsEnemy(c) \/ CardCanUse(c, Player, FALSE)
PlayIsLegal(c, t) == CanPlay(c) /\ (TargetRow(c) = {} \/ t \in TargetRow(c))

PlayCard(c, t) ==
  /\ UserActs /\ ~ChoicePending
  /\ c \in hand
  /\ PlayIsLegal(c, t)
  /\ NeedsEnemy(c) \/ t = 1            \* the declared target is not looked at
  /\ phase' = "RESOLVING"
  /\ cardQueue' = Append(cardQueue, Play(c, t))
  /\ UNCHANGED <<actionQueue, piles, playerEscaped, belt, board>>

EndTurn ==
  /\ UserActs /\ ~ChoicePending
  /\ phase' = "RESOLVING"
  /\ cardQueue' = Append(cardQueue, EndTurnSentinel)
  /\ UNCHANGED <<actionQueue, piles, playerEscaped, belt, board>>

\* One selection of a mandatory exhaust: the blocked item asks for one less.
Choose(c) ==
  /\ UserActs /\ ChoicePending
  /\ c \in hand
  /\ phase' = "RESOLVING"
  /\ hand' = hand \ {c}
  /\ exhaust' = exhaust \cup {c}
  /\ actionQueue' = [actionQueue EXCEPT ![1].n = @ - 1]
  /\ UNCHANGED <<cardQueue, draw, discard, limbo, exhaustOnce, playerEscaped, belt, board>>

\* Potions are drunk whenever the fight waits, even on a choice.
DrinkChaos ==
  /\ UserActs /\ AnyMonsterAlive
  /\ "distilled_chaos" \in belt
  /\ belt' = belt \ {"distilled_chaos"}
  /\ phase' = "RESOLVING"
  /\ \E tgts \in [1 .. ChaosPlays -> RandomTargets] :
       actionQueue' = actionQueue \o
                        [i \in 1 .. ChaosPlays |-> Act("PLAY_CARD", tgts[i], 0)]
  /\ UNCHANGED <<cardQueue, piles, playerEscaped, board>>

\* No escape from a boss.
IsBoss(m) == m.kind \in {"reviver", "clock"}
DrinkSmoke ==
  /\ UserActs /\ AnyMonsterAlive
  /\ "smoke_bomb" \in belt
  /\ \A i \in Slots : ~IsBoss(monsters[i])
  /\ belt' = belt \ {"smoke_bomb"}
  /\ playerEscaped' = TRUE
  /\ phase' = "RESOLVING"
  /\ UNCHANGED <<actionQueue, cardQueue, piles, board>>

User ==
  \/ \E c \in hand : \/ \E t \in Slots : PlayCard(c, t)
                     \/ Choose(c)
  \/ EndTurn
  \/ DrinkChaos
  \/ DrinkSmoke

Next == BeginFirstTurn \/ Pump \/ User

Spec == Init /\ [][Next]_vars

\* The pump is a loop that runs until it blocks; begin_first_turn starts it.
\* Nothing obliges the user to act.
FairSpec == Spec /\ WF_vars(BeginFirstTurn \/ Pump)
==============================================================================
