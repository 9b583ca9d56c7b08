----------------------------- MODULE CardEffects -----------------------------
(***************************************************************************)
(* execute_opcode (src/src/engine/interp.cpp): what running one queued     *)
(* item does.  Each operator is the body of one opcode; q is the action    *)
(* queue the item was popped from, to which the body adds what it queues.  *)
(* Bodies that only move numbers the queues never look at (block, powers'  *)
(* amounts, costs, gold) are left out.                                     *)
(***************************************************************************)
EXTENDS CombatState

\* What the opcodes of a group leave alone.
fight == <<monsters, monsterQueue, playerHp, cannotLose, clock>>
cards == <<piles, cardQueue>>

\* draw_cards: stop at the hand cap, reshuffle the discard once the draw pile
\* runs out, stop early when both are empty.
DrawCards(n) ==
  LET room == HandCap - Cardinality(hand)
      want == IF n < room THEN n ELSE room
      rest == want - Cardinality(draw)     \* what the draw pile cannot give
  IN  \E S \in SUBSET draw, T \in SUBSET discard :
        /\ Cardinality(S) = IF rest > 0 THEN Cardinality(draw) ELSE want
        /\ Cardinality(T) = CASE rest <= 0 -> 0
                              [] rest > Cardinality(discard) -> Cardinality(discard)
                              [] OTHER -> rest
        /\ hand' = (hand \cup S) \cup T
        /\ IF rest > 0
           THEN draw' = discard \ T /\ discard' = {}
           ELSE draw' = draw \ S /\ UNCHANGED discard

ExecDraw(item, q) ==
  /\ IF Cardinality(hand) < HandCap /\ item.n > 0
     THEN DrawCards(item.n)
     ELSE UNCHANGED <<hand, draw, discard>>
  /\ actionQueue' = q
  /\ UNCHANGED <<exhaust, limbo, exhaustOnce, cardQueue, fight>>

\* A normal hit of a monster that has died since it was queued is void.
AttackerCancelled(item) ==
  /\ item.n = Normal
  /\ item.src \in Slots
  /\ monsters[item.src].hp = 0

\* A large slime at half its health or less will split; an Awakened One that
\* is put down gets up again, while the fight cannot be lost.
SplitsNow(m) == m.kind = "splitter" /\ m.hp > 0 /\ 2 * m.hp <= MonsterMaxHp /\ ~m.split
DownedNow(m) == m.kind = "reviver" /\ IsDying(m)

\* What a monster does at once when it has been hit (on_monster_damaged).  The
\* move is set at once and again by a queued SET_MOVE: a hit in the monster's
\* own turn comes before the ROLL_MOVE that ends the turn.
AfterDamage(m) ==
  CASE SplitsNow(m) -> [m EXCEPT !.plan = "split", !.split = TRUE]
    [] DownedNow(m) -> [m EXCEPT !.plan = "rebirth", !.half = cannotLose]
    [] OTHER        -> m
ForcedPlan(m) == IF m.kind = "reviver" THEN "rebirth" ELSE "split"

\* Thorns jump the queue, and so does the clearing of the card queue.
Reaction(item, hit) ==
  CASE hit.kind = "spiker" /\ item.n = Normal -> <<Damage(item.tgt, Player, Thorns)>>
    [] DownedNow(hit) -> <<Act("CLEAR_CARD_QUEUE", item.tgt, 0)>>
    [] OTHER -> << >>
ForcedMove_Unqueued(item, hit) == << >>     \* mutant: only the move set at once

ForcedMove(item, hit) ==
  IF SplitsNow(hit) \/ DownedNow(hit) THEN <<Act("SET_MOVE", item.tgt, 0)>> ELSE << >>

\* With the Awakened One dead for good, its cultists leave the fight.
Departing(item, hit) ==
  IF hit.kind = "reviver" /\ monsters[item.tgt].hp > 0 /\ hit.hp = 0 /\ ~cannotLose
  THEN {i \in Slots : monsters[i].kind = "cultist" /\ ~IsDying(monsters[i])}
  ELSE {}
Departures(slots) == [i \in DOMAIN slots |-> Act("ESCAPE", slots[i], 0)]

HitMonster(item, q) ==
  LET hit == [monsters[item.tgt] EXCEPT !.hp = IF @ > 0 THEN @ - 1 ELSE 0]
  IN  /\ monsters' = [monsters EXCEPT ![item.tgt] = AfterDamage(hit)]
      /\ \E leaving \in InOrder(Departing(item, hit)) :
           actionQueue' = Reaction(item, hit) \o q \o Departures(leaving)
                            \o ForcedMove(item, hit)
      /\ UNCHANGED playerHp

HitPlayer(item, q) ==
  /\ playerHp' = IF playerHp > 0 THEN playerHp - 1 ELSE 0
  /\ actionQueue' =
       IF PlayerThorns /\ item.n = Normal /\ item.src # Player
       THEN <<Damage(Player, item.src, Thorns)>> \o q
       ELSE q
  /\ UNCHANGED monsters

ExecDamage(item, q) ==
  /\ CASE AttackerCancelled(item) ->
            actionQueue' = q /\ UNCHANGED <<monsters, playerHp>>
       [] ~AttackerCancelled(item) /\ item.tgt \in Slots -> HitMonster(item, q)
       [] OTHER -> HitPlayer(item, q)
  /\ UNCHANGED <<cards, monsterQueue, cannotLose, clock>>

\* op_heal: a dead monster stays dead, a half-dead one gets up again.
ExecHeal(item, q) ==
  /\ IF item.tgt \in Slots
     THEN /\ monsters' = IF IsDying(monsters[item.tgt]) THEN monsters
                         ELSE [monsters EXCEPT ![item.tgt] =
                                 [@ EXCEPT !.hp = MonsterMaxHp, !.half = FALSE]]
          /\ UNCHANGED playerHp
     ELSE /\ playerHp' = IF playerHp < PlayerMaxHp THEN playerHp + 1 ELSE playerHp
          /\ UNCHANGED monsters
  /\ actionQueue' = q
  /\ UNCHANGED <<cards, monsterQueue, cannotLose, clock>>

FileFromLimbo_Copying(S) ==            \* mutant: the card stays in limbo too
  /\ limbo' = limbo
  /\ exhaust' = exhaust \cup {c \in S : FiledToExhaust(c)}
  /\ discard' = discard \cup {c \in S : FiledToDiscard(c)}
  /\ exhaustOnce' = exhaustOnce \ {c \in S : ~IsPower(c)}

FileFromLimbo_KeepsMark(S) ==          \* mutant: Havoc's mark is not cleared
  /\ limbo' = limbo \ S
  /\ exhaust' = exhaust \cup {c \in S : FiledToExhaust(c)}
  /\ discard' = discard \cup {c \in S : FiledToDiscard(c)}
  /\ UNCHANGED exhaustOnce

\* file_card_from_limbo, with op_use_card's reading of the instance flags.
FileFromLimbo(S) ==
  /\ limbo' = limbo \ S
  /\ exhaust' = exhaust \cup {c \in S : FiledToExhaust(c)}
  /\ discard' = discard \cup {c \in S : FiledToDiscard(c)}
  /\ exhaustOnce' = exhaustOnce \ {c \in S : ~IsPower(c)}

\* Time Warp counts every triggering use; at its limit it ends the player's
\* turn at once: the card queue is emptied and the sentinel put in it.
TimeWarpTicks == \E i \in Slots : monsters[i].kind = "clock"
EndPlayerTurn_Appending == cardQueue' = Append(cardQueue, EndTurnSentinel)  \* mutant
EndPlayerTurn == cardQueue' = <<EndTurnSentinel>>

ExecUseCard(item, q) ==
  /\ FileFromLimbo({item.card} \cap limbo)
  /\ CASE item.n # Trigger \/ ~TimeWarpTicks -> UNCHANGED <<clock, cardQueue>>
       [] item.n = Trigger /\ TimeWarpTicks /\ clock + 1 < ClockLimit ->
            clock' = clock + 1 /\ UNCHANGED cardQueue
       [] OTHER -> clock' = 0 /\ EndPlayerTurn
  /\ actionQueue' = q
  /\ UNCHANGED <<draw, hand, monsters, monsterQueue, playerHp, cannotLose>>

\* Havoc plays the top of the draw pile next, and has it exhausted.
\* Distilled Chaos queues it behind the pending plays, and files it normally.
AutoplayTop(byHavoc, tgt, q) ==
  LET source == IF draw = {} THEN discard ELSE draw
  IN  /\ IF source = {}
         THEN UNCHANGED cards
         ELSE \E c \in source :
                /\ draw' = source \ {c}
                /\ discard' = IF draw = {} THEN {} ELSE discard
                /\ limbo' = limbo \cup {c}
                /\ exhaustOnce' = IF byHavoc THEN exhaustOnce \cup {c} ELSE exhaustOnce
                /\ cardQueue' = IF byHavoc THEN QueuedOnTop(cardQueue, Play(c, tgt))
                                ELSE Append(cardQueue, Play(c, tgt))
                /\ UNCHANGED <<hand, exhaust>>
      /\ actionQueue' = q
      /\ UNCHANGED fight

ExecPlayTopDraw(item, q) ==
  \E tgt \in RandomTargets : AutoplayTop(TRUE, tgt, q)

ExecPlayCard(item, q) == AutoplayTop(FALSE, item.tgt, q)

\* op_choose_card: reached only when there is nothing to choose between, so
\* every card left in hand is exhausted, if any is asked for.
ExecChooseCard(item, q) ==
  /\ IF item.n > 0
     THEN exhaust' = exhaust \cup hand /\ hand' = {}
     ELSE UNCHANGED <<exhaust, hand>>
  /\ actionQueue' = q
  /\ UNCHANGED <<draw, discard, limbo, exhaustOnce, cardQueue, fight>>

\* discard_hand_at_end_of_turn: ethereal cards exhaust, the others are discarded.
\* The pump then queues the marker that starts the monsters' turn.
ExecDiscardHand(item, q) ==
  /\ exhaust' = exhaust \cup {c \in hand : Ethereal(c)}
  /\ discard' = discard \cup {c \in hand : ~Ethereal(c)}
  /\ hand' = {}
  /\ actionQueue' = Append(q, Act("MONSTER_START_TURN", Player, 0))
  /\ UNCHANGED <<draw, limbo, exhaustOnce, cardQueue, fight>>

ExecClearCardQueue(item, q) ==
  /\ cardQueue' = << >>
  /\ actionQueue' = q
  /\ UNCHANGED <<piles, fight>>

ExecCannotLose(item, q) ==
  /\ cannotLose' = (item.op = "CANNOT_LOSE")
  /\ actionQueue' = q
  /\ UNCHANGED <<cards, monsters, monsterQueue, playerHp, clock>>

\* spawn_monster_at_slot moves the records behind the new one up a slot, and
\* the pending turns in monster_queue with them.
SpawnMonster(slot, hp) ==
  LET n == Len(monsters)
      at == IF slot > n + 1 THEN n + 1 ELSE slot
  IN  /\ monsters' = SubSeq(monsters, 1, at - 1) \o <<Monster(n + 1, "slime", hp)>>
                       \o SubSeq(monsters, at, n)
      /\ monsterQueue' = [i \in DOMAIN monsterQueue |->
                            IF monsterQueue[i] >= at THEN monsterQueue[i] + 1
                            ELSE monsterQueue[i]]

ExecSpawn(item, q) ==
  /\ SpawnMonster(item.tgt, item.n)
  /\ actionQueue' = q
  /\ UNCHANGED <<cards, playerHp, cannotLose, clock>>

\* The bodies that write one monster record.
ChangedMonster(item) ==
  LET m == monsters[item.tgt]
  IN  CASE item.op = "SUICIDE"   -> [m EXCEPT !.hp = 0]
        [] item.op = "ESCAPE"    -> [m EXCEPT !.escaped = TRUE]
        [] item.op = "SET_MOVE"  -> [m EXCEPT !.plan = ForcedPlan(m)]
        [] item.op = "ROLL_MOVE" -> [m EXCEPT !.plan = "attack"]
        [] OTHER                 -> m

ExecMonster(item, q) ==
  /\ monsters' = IF item.tgt \in Slots
                 THEN [monsters EXCEPT ![item.tgt] = ChangedMonster(item)]
                 ELSE monsters
  /\ actionQueue' = q
  /\ UNCHANGED <<cards, monsterQueue, playerHp, cannotLose, clock>>

Execute(item, q) ==
  \/ item.op = "DRAW" /\ ExecDraw(item, q)
  \/ item.op = "DAMAGE" /\ ExecDamage(item, q)
  \/ item.op = "HEAL" /\ ExecHeal(item, q)
  \/ item.op = "USE_CARD" /\ ExecUseCard(item, q)
  \/ item.op = "PLAY_TOP_DRAW" /\ ExecPlayTopDraw(item, q)
  \/ item.op = "PLAY_CARD" /\ ExecPlayCard(item, q)
  \/ item.op = "CHOOSE_CARD" /\ ExecChooseCard(item, q)
  \/ item.op = "DISCARD_HAND" /\ ExecDiscardHand(item, q)
  \/ item.op = "CLEAR_CARD_QUEUE" /\ ExecClearCardQueue(item, q)
  \/ item.op \in {"CANNOT_LOSE", "CAN_LOSE"} /\ ExecCannotLose(item, q)
  \/ item.op = "SPAWN_MONSTER" /\ ExecSpawn(item, q)
  \/ item.op \in {"SUICIDE", "ESCAPE", "SET_MOVE", "ROLL_MOVE"} /\ ExecMonster(item, q)
==============================================================================
