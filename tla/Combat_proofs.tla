---------------------------- MODULE Combat_proofs ----------------------------
(***************************************************************************)
(* Theorems of a fight, for every deck, encounter and set of numbers, in   *)
(* three parts: types and the finality of death; where the cards are; the  *)
(* monsters' side, turns and rounds.                                       *)
(***************************************************************************)
EXTENDS CombatSafety, SequenceTheorems, FiniteSetTheorems, TLAPS

(***************************************************************************)
(* A dead player stays dead.  No invariant is needed: the pump executes an *)
(* item only while the fight is undecided, the sweep only while the player *)
(* is alive.                                                               *)
(***************************************************************************)
\* Only the pump's and the sweep's execution of an item change the player's hp.
LEMMA OnlyItemsChangeHp ==
  ASSUME [Next]_vars, ~RunAction, ~DrainStep
  PROVE  playerHp' = playerHp
<1>1. CASE BeginFirstTurn
  BY <1>1 DEF BeginFirstTurn
<1>2. CASE Pump
  BY <1>2 DEF Pump, BlockOnChoice, RunSentinel, RunCardPlay, QueueMonsters, RunMonster,
              StartSubsequentTurn, WaitForUser, BeginTerminal, SortItem, FinishTerminal, fight
<1>3. CASE User
  BY <1>3 DEF User, PlayCard, Choose, EndTurn, DrinkChaos, DrinkSmoke, board
<1>4. CASE UNCHANGED vars
  BY <1>4 DEF vars
<1> QED BY <1>1, <1>2, <1>3, <1>4 DEF Next

\* Death is final, whatever is still queued (action_queue.cpp:243-250, 443-446).
THEOREM DeathIsFinal == Spec => DeadStaysDead
<1>1. [Next]_vars => [playerHp = 0 => playerHp' = 0]_vars
  <2> SUFFICES ASSUME [Next]_vars, playerHp = 0 PROVE playerHp' = 0
    OBVIOUS
  <2>1. ~RunAction
    BY DEF RunAction, Running, Decided
  <2>2. ~DrainStep
    BY DEF DrainStep, Draining
  <2> QED BY <2>1, <2>2, OnlyItemsChangeHp
<1> QED BY <1>1, PTL DEF Spec, DeadStaysDead

(***************************************************************************)
(* Type correctness.  The type invariant is inductive once it also says    *)
(* that an item which spawns a monster names a slot: spawning at "slot 0"  *)
(* would copy a record that is not there.  That only a use names a card is *)
(* for the theorems about the piles.                                       *)
(***************************************************************************)
GoodItem == {x \in ItemType : /\ x.op = "SPAWN_MONSTER" => x.tgt # 0
                              /\ x.card # NoCard => x.op = "USE_CARD"}

\* What the execution of an item may change.
BoardType ==
  /\ actionQueue \in Seq(GoodItem)
  /\ cardQueue \in Seq(PlayType)
  /\ monsterQueue \in Seq(Nat)
  /\ draw \subseteq Card /\ hand \subseteq Card /\ discard \subseteq Card
  /\ exhaust \subseteq Card /\ limbo \subseteq Card /\ exhaustOnce \subseteq Card
  /\ playerHp \in 0 .. PlayerMaxHp
  /\ monsters \in Seq(MonsterType)
  /\ cannotLose \in BOOLEAN
  /\ clock \in 0 .. ClockLimit - 1

ControlType ==
  /\ phase \in Phases
  /\ turn \in Nat
  /\ turnHasEnded \in BOOLEAN
  /\ monsterAttacksQueued \in BOOLEAN
  /\ energy \in Nat
  /\ played \in 0 .. NormalityLimit
  /\ playerEscaped \in BOOLEAN
  /\ belt \subseteq Potions
  /\ terminal \in [kind : TerminalKinds, stage : {"idle", "sort", "drain"},
                   kept : Seq(GoodItem), post : Seq(GoodItem)]

TypeInv == BoardType /\ ControlType

LEMMA TypeInvImpliesTypeOK == TypeInv => TypeOK
<1> SUFFICES ASSUME TypeInv PROVE TypeOK
  OBVIOUS
<1>1. GoodItem \subseteq ItemType
  BY DEF GoodItem
<1>2. \A q \in Seq(GoodItem) : q \in Seq(ItemType)
  BY <1>1, SeqMonotonic
<1>3. terminal \in TerminalType
  BY <1>2 DEF TypeInv, ControlType, TerminalType
<1> QED BY <1>2, <1>3 DEF TypeInv, BoardType, ControlType, TypeOK

\* The items the model's constructors build.
LEMMA ActIsGood ==
  ASSUME NEW op \in Opcodes, NEW tgt \in Nat, NEW n \in Nat,
         op = "SPAWN_MONSTER" => tgt # 0
  PROVE  Act(op, tgt, n) \in GoodItem
BY CardAssumption DEF Act, Item, GoodItem, ItemType, Player

LEMMA CountedDownIsGood ==
  ASSUME NEW x \in GoodItem, x.n > 0
  PROVE  [x EXCEPT !.n = @ - 1] \in GoodItem
<1>1. x \in ItemType /\ x.n - 1 \in Nat
  BY DEF GoodItem, ItemType
<1>2. [x EXCEPT !.n = @ - 1] \in ItemType
  BY <1>1 DEF ItemType
<1>3. /\ [x EXCEPT !.n = @ - 1].op = x.op /\ [x EXCEPT !.n = @ - 1].tgt = x.tgt
      /\ [x EXCEPT !.n = @ - 1].card = x.card
  BY <1>1 DEF ItemType
<1> QED BY <1>2, <1>3 DEF GoodItem

LEMMA DamageIsGood ==
  ASSUME NEW src \in Nat, NEW tgt \in Nat, NEW type \in {Normal, Thorns}
  PROVE  Damage(src, tgt, type) \in GoodItem
BY DEF Damage, Item, GoodItem, ItemType, Opcodes, Normal, Thorns

LEMMA UseCardIsGood ==
  ASSUME NEW card \in Card, NEW trigger \in {Trigger, DontTrigger}
  PROVE  UseCard(card, trigger) \in GoodItem
BY DEF UseCard, Item, GoodItem, ItemType, Opcodes, Player, Trigger, DontTrigger

LEMMA PlayIsTyped ==
  ASSUME NEW card \in Card \cup {NoCard}, NEW tgt \in Nat
  PROVE  Play(card, tgt) \in PlayType
BY DEF Play, PlayType

LEMMA SentinelIsTyped == EndTurnSentinel \in PlayType
BY PlayIsTyped DEF EndTurnSentinel, Player

LEMMA QueuedOnTopType ==
  ASSUME NEW queue \in Seq(PlayType), NEW play \in PlayType
  PROVE  QueuedOnTop(queue, play) \in Seq(PlayType)
BY DEF QueuedOnTop

LEMMA InOrderType ==
  ASSUME NEW S, IsFiniteSet(S), NEW queue \in InOrder(S)
  PROVE  queue \in Seq(S)
<1>1. Cardinality(S) \in Nat
  BY FS_CardinalityType
<1> QED BY <1>1 DEF InOrder

LEMMA SlotsFinite ==
  ASSUME BoardType
  PROVE  IsFiniteSet(Slots) /\ Slots \subseteq Nat /\ 0 \notin Slots
<1>1. Len(monsters) \in Nat
  BY DEF BoardType
<1> QED BY <1>1, FS_Interval DEF Slots

LEMMA MonsterIsTyped ==
  ASSUME NEW id \in Nat, NEW kind \in MonsterKinds, NEW hp \in Nat
  PROVE  Monster(id, kind, hp) \in MonsterType
BY DEF Monster, MonsterType, Plans

(***************************************************************************)
(* One lemma per opcode, or group of opcodes.                              *)
(***************************************************************************)
LEMMA DrawType ==
  ASSUME BoardType, NEW item \in GoodItem, NEW q \in Seq(GoodItem), ExecDraw(item, q)
  PROVE  BoardType'
<1>1. hand' \subseteq Card /\ draw' \subseteq Card /\ discard' \subseteq Card
  <2>1. CASE Cardinality(hand) < HandCap /\ item.n > 0
    <3>1. PICK S \in SUBSET draw, T \in SUBSET discard :
            /\ hand' = (hand \cup S) \cup T
            /\ \/ draw' = discard \ T /\ discard' = {}
               \/ draw' = draw \ S /\ discard' = discard
      <4>1. DrawCards(item.n)
        BY <2>1 DEF ExecDraw
      <4> QED BY <4>1, Zenon DEF DrawCards
    <3> QED BY <3>1 DEF BoardType
  <2>2. CASE ~(Cardinality(hand) < HandCap /\ item.n > 0)
    BY <2>2 DEF ExecDraw, BoardType
  <2> QED BY <2>1, <2>2
<1> QED BY <1>1 DEF BoardType, ExecDraw, fight

LEMMA AfterDamageType ==
  ASSUME NEW m \in MonsterType, cannotLose \in BOOLEAN
  PROVE  AfterDamage(m) \in MonsterType
BY DEF AfterDamage, MonsterType, Plans

LEMMA ReactionType ==
  ASSUME NEW item \in GoodItem, NEW hit
  PROVE  /\ Reaction(item, hit) \in Seq(GoodItem)
         /\ ForcedMove(item, hit) \in Seq(GoodItem)
<1>1. item.tgt \in Nat
  BY DEF GoodItem, ItemType
<1>2. /\ Damage(item.tgt, Player, Thorns) \in GoodItem
      /\ Act("CLEAR_CARD_QUEUE", item.tgt, 0) \in GoodItem
      /\ Act("SET_MOVE", item.tgt, 0) \in GoodItem
  BY <1>1, DamageIsGood, ActIsGood DEF Opcodes, Player, Thorns, Normal
<1> QED BY <1>2 DEF Reaction, ForcedMove

LEMMA DeparturesType ==
  ASSUME NEW slots \in Seq(Nat)
  PROVE  Departures(slots) \in Seq(GoodItem)
<1>1. \A i \in 1 .. Len(slots) : Act("ESCAPE", slots[i], 0) \in GoodItem
  BY ActIsGood DEF Opcodes
<1>2. Departures(slots) \in [1 .. Len(slots) -> GoodItem] /\ Len(slots) \in Nat
  BY <1>1 DEF Departures
<1> QED BY <1>2

LEMMA DamageType ==
  ASSUME BoardType, NEW item \in GoodItem, NEW q \in Seq(GoodItem), ExecDamage(item, q)
  PROVE  BoardType'
<1>1. UNCHANGED <<draw, hand, discard, exhaust, limbo, exhaustOnce, cardQueue,
                  monsterQueue, cannotLose, clock>>
  BY DEF ExecDamage, cards, piles
<1>2. /\ actionQueue' \in Seq(GoodItem)
      /\ monsters' \in Seq(MonsterType)
      /\ playerHp' \in 0 .. PlayerMaxHp
  <2>1. CASE AttackerCancelled(item)
    BY <2>1 DEF ExecDamage, BoardType
  <2>2. CASE ~AttackerCancelled(item) /\ item.tgt \in Slots
    <3> DEFINE hit == [monsters[item.tgt] EXCEPT !.hp = IF @ > 0 THEN @ - 1 ELSE 0]
    <3>1. HitMonster(item, q)
      BY <2>2 DEF ExecDamage
    <3>2. hit \in MonsterType /\ item.tgt \in 1 .. Len(monsters)
      <4>1. item.tgt \in 1 .. Len(monsters) /\ monsters[item.tgt] \in MonsterType
        BY <2>2, ElementOfSeq DEF BoardType, Slots
      <4> QED BY <4>1 DEF MonsterType
    <3>3. AfterDamage(hit) \in MonsterType
      BY <3>2, AfterDamageType DEF BoardType
    <3>4. monsters' = [monsters EXCEPT ![item.tgt] = AfterDamage(hit)]
      BY <3>1 DEF HitMonster
    <3>5. PICK leaving \in InOrder(Departing(item, hit)) :
            actionQueue' = Reaction(item, hit) \o q \o Departures(leaving)
                             \o ForcedMove(item, hit)
      BY <3>1 DEF HitMonster
    <3>6. IsFiniteSet(Departing(item, hit)) /\ Departing(item, hit) \subseteq Nat
      <4>1. Departing(item, hit) \subseteq Slots
        BY DEF Departing
      <4> QED BY <4>1, SlotsFinite, FS_Subset
    <3>7. leaving \in Seq(Nat)
      BY <3>5, <3>6, InOrderType, SeqMonotonic
    <3>8. actionQueue' \in Seq(GoodItem)
      <4> HIDE DEF hit
      <4>1. /\ Reaction(item, hit) \in Seq(GoodItem)
            /\ ForcedMove(item, hit) \in Seq(GoodItem)
            /\ Departures(leaving) \in Seq(GoodItem)
        BY <3>7, ReactionType, DeparturesType
      <4> QED BY <3>5, <4>1
    <3>9. monsters' \in Seq(MonsterType)
      <4> HIDE DEF hit
      <4> QED BY <3>2, <3>3, <3>4 DEF BoardType
    <3> QED BY <3>1, <3>8, <3>9 DEF HitMonster, BoardType
  <2>3. CASE ~AttackerCancelled(item) /\ item.tgt \notin Slots
    <3>1. HitPlayer(item, q)
      BY <2>3 DEF ExecDamage
    <3>2. Damage(Player, item.src, Thorns) \in GoodItem
      BY DamageIsGood DEF GoodItem, ItemType, Player, Thorns, Normal
    <3>3. actionQueue' \in Seq(GoodItem)
      BY <3>1, <3>2 DEF HitPlayer
    <3> QED BY <3>1, <3>3, FightAssumption DEF HitPlayer, BoardType
  <2> QED BY <2>1, <2>2, <2>3
<1> QED BY <1>1, <1>2 DEF BoardType

LEMMA HealType ==
  ASSUME BoardType, NEW item \in GoodItem, NEW q \in Seq(GoodItem), ExecHeal(item, q)
  PROVE  BoardType'
<1>1. monsters' \in Seq(MonsterType) /\ playerHp' \in 0 .. PlayerMaxHp
  <2>1. CASE item.tgt \in Slots
    <3>1. item.tgt \in 1 .. Len(monsters) /\ monsters[item.tgt] \in MonsterType
      BY <2>1, ElementOfSeq DEF BoardType, Slots
    <3>2. [monsters[item.tgt] EXCEPT !.hp = MonsterMaxHp, !.half = FALSE] \in MonsterType
      BY <3>1, FightAssumption DEF MonsterType
    <3>3. [monsters EXCEPT ![item.tgt] =
             [monsters[item.tgt] EXCEPT !.hp = MonsterMaxHp, !.half = FALSE]]
            \in Seq(MonsterType)
      BY <3>1, <3>2, ExceptSeq DEF BoardType
    <3> QED BY <2>1, <3>3 DEF ExecHeal, BoardType
  <2>2. CASE item.tgt \notin Slots
    BY <2>2, FightAssumption DEF ExecHeal, BoardType
  <2> QED BY <2>1, <2>2
<1> QED BY <1>1 DEF ExecHeal, BoardType, cards, piles

LEMMA FileType ==
  ASSUME BoardType, NEW S \in SUBSET Card, FileFromLimbo(S)
  PROVE  /\ limbo' \subseteq Card /\ exhaust' \subseteq Card
         /\ discard' \subseteq Card /\ exhaustOnce' \subseteq Card
BY DEF FileFromLimbo, BoardType

LEMMA UseCardType ==
  ASSUME BoardType, NEW item \in GoodItem, NEW q \in Seq(GoodItem), ExecUseCard(item, q)
  PROVE  BoardType'
<1>1. /\ limbo' \subseteq Card /\ exhaust' \subseteq Card
      /\ discard' \subseteq Card /\ exhaustOnce' \subseteq Card
  BY FileType DEF ExecUseCard, BoardType
<1>2. cardQueue' \in Seq(PlayType) /\ clock' \in 0 .. ClockLimit - 1
  <2>1. <<EndTurnSentinel>> \in Seq(PlayType)
    BY SentinelIsTyped
  <2>2. clock' \in 0 .. ClockLimit - 1
    BY FightAssumption DEF ExecUseCard, BoardType
  <2>3. cardQueue' \in Seq(PlayType)
    BY <2>1 DEF ExecUseCard, BoardType, EndPlayerTurn
  <2> QED BY <2>2, <2>3
<1> QED BY <1>1, <1>2 DEF ExecUseCard, BoardType

LEMMA AutoplayType ==
  ASSUME BoardType, NEW q \in Seq(GoodItem), NEW byHavoc \in BOOLEAN, NEW tgt \in Nat,
         AutoplayTop(byHavoc, tgt, q)
  PROVE  BoardType'
<1>1. /\ cardQueue' \in Seq(PlayType)
      /\ draw' \subseteq Card /\ hand' \subseteq Card /\ discard' \subseteq Card
      /\ exhaust' \subseteq Card /\ limbo' \subseteq Card /\ exhaustOnce' \subseteq Card
  <2> DEFINE source == IF draw = {} THEN discard ELSE draw
  <2>1. CASE source = {}
    BY <2>1 DEF AutoplayTop, BoardType, cards, piles
  <2>2. CASE source # {}
    <3>1. PICK c \in source :
            /\ draw' = source \ {c}
            /\ discard' = IF draw = {} THEN {} ELSE discard
            /\ limbo' = limbo \cup {c}
            /\ exhaustOnce' = IF byHavoc THEN exhaustOnce \cup {c} ELSE exhaustOnce
            /\ cardQueue' = IF byHavoc THEN QueuedOnTop(cardQueue, Play(c, tgt))
                            ELSE Append(cardQueue, Play(c, tgt))
            /\ UNCHANGED <<hand, exhaust>>
      BY <2>2 DEF AutoplayTop
    <3>2. c \in Card /\ source \subseteq Card
      BY <3>1 DEF BoardType
    <3>3. /\ QueuedOnTop(cardQueue, Play(c, tgt)) \in Seq(PlayType)
          /\ Append(cardQueue, Play(c, tgt)) \in Seq(PlayType)
      BY <3>2, PlayIsTyped, QueuedOnTopType DEF BoardType
    <3> HIDE DEF source
    <3> QED BY <3>1, <3>2, <3>3 DEF BoardType
  <2> QED BY <2>1, <2>2
<1> QED BY <1>1 DEF AutoplayTop, BoardType, fight

LEMMA PileOpcodesType ==
  ASSUME BoardType, NEW item \in GoodItem, NEW q \in Seq(GoodItem),
         \/ ExecPlayTopDraw(item, q)
         \/ ExecPlayCard(item, q)
         \/ ExecChooseCard(item, q)
         \/ ExecDiscardHand(item, q)
         \/ ExecClearCardQueue(item, q)
  PROVE  BoardType'
<1>1. CASE ExecPlayTopDraw(item, q)
  <2>1. RandomTargets \subseteq Nat
    BY SlotsFinite DEF RandomTargets, Targets, Player
  <2> QED BY <1>1, <2>1, AutoplayType DEF ExecPlayTopDraw
<1>2. CASE ExecPlayCard(item, q)
  BY <1>2, AutoplayType DEF ExecPlayCard, GoodItem, ItemType
<1>3. CASE ExecChooseCard(item, q)
  BY <1>3 DEF ExecChooseCard, BoardType, fight
<1>4. CASE ExecDiscardHand(item, q)
  <2>1. Act("MONSTER_START_TURN", Player, 0) \in GoodItem
    BY ActIsGood DEF Opcodes, Player
  <2>2. Append(q, Act("MONSTER_START_TURN", Player, 0)) \in Seq(GoodItem)
    BY <2>1
  <2> QED BY <1>4, <2>2 DEF ExecDiscardHand, BoardType, fight
<1>5. CASE ExecClearCardQueue(item, q)
  BY <1>5 DEF ExecClearCardQueue, BoardType, fight, piles
<1> QED BY <1>1, <1>2, <1>3, <1>4, <1>5

LEMMA SpawnType ==
  ASSUME BoardType, NEW item \in GoodItem, NEW q \in Seq(GoodItem),
         item.op = "SPAWN_MONSTER", ExecSpawn(item, q)
  PROVE  BoardType'
<1> DEFINE n == Len(monsters)
           slot == item.tgt
           at == IF slot > n + 1 THEN n + 1 ELSE slot
           born == Monster(n + 1, "slime", item.n)
<1>1. n \in Nat /\ slot \in Nat \ {0} /\ item.n \in Nat
  BY DEF BoardType, GoodItem, ItemType
<1>2. at \in 1 .. n + 1
  BY <1>1
<1>3. born \in MonsterType
  BY <1>1, MonsterIsTyped DEF MonsterKinds
<1>4. /\ monsters' = SubSeq(monsters, 1, at - 1) \o <<born>> \o SubSeq(monsters, at, n)
      /\ monsterQueue' = [i \in DOMAIN monsterQueue |->
                            IF monsterQueue[i] >= at THEN monsterQueue[i] + 1
                            ELSE monsterQueue[i]]
  BY DEF ExecSpawn, SpawnMonster
<1>5. monsters' \in Seq(MonsterType)
  <2> HIDE DEF at, born
  <2>1. \A i \in 1 .. n : monsters[i] \in MonsterType
    BY ElementOfSeq DEF BoardType
  <2>2. /\ SubSeq(monsters, 1, at - 1) \in Seq(MonsterType)
        /\ SubSeq(monsters, at, n) \in Seq(MonsterType)
    BY <1>1, <1>2, <2>1, SubSeqProperties
  <2> QED BY <1>3, <1>4, <2>2
<1>6. monsterQueue' \in Seq(Nat)
  <2> HIDE DEF at
  <2>1. Len(monsterQueue) \in Nat /\ DOMAIN monsterQueue = 1 .. Len(monsterQueue)
    BY LenProperties DEF BoardType
  <2>2. \A i \in 1 .. Len(monsterQueue) : monsterQueue[i] \in Nat
    BY ElementOfSeq DEF BoardType
  <2>3. monsterQueue' \in [1 .. Len(monsterQueue) -> Nat]
    BY <1>4, <2>1, <2>2
  <2> QED BY <2>1, <2>3
<1> QED BY <1>5, <1>6 DEF ExecSpawn, BoardType, cards, piles

LEMMA MonsterOpcodesType ==
  ASSUME BoardType, NEW item \in GoodItem, NEW q \in Seq(GoodItem),
         ExecMonster(item, q) \/ ExecCannotLose(item, q)
  PROVE  BoardType'
<1>1. CASE ExecMonster(item, q)
  <2>1. monsters' \in Seq(MonsterType)
    <3>1. CASE item.tgt \in Slots
      <4>1. item.tgt \in 1 .. Len(monsters) /\ monsters[item.tgt] \in MonsterType
        BY <3>1, ElementOfSeq DEF BoardType, Slots
      <4>2. ChangedMonster(item) \in MonsterType
        BY <4>1 DEF ChangedMonster, ForcedPlan, MonsterType, Plans
      <4>3. [monsters EXCEPT ![item.tgt] = ChangedMonster(item)] \in Seq(MonsterType)
        BY <4>1, <4>2, ExceptSeq DEF BoardType
      <4> QED BY <1>1, <3>1, <4>3 DEF ExecMonster
    <3>2. CASE item.tgt \notin Slots
      BY <1>1, <3>2 DEF ExecMonster, BoardType
    <3> QED BY <3>1, <3>2
  <2> QED BY <1>1, <2>1 DEF ExecMonster, BoardType, cards, piles
<1>2. CASE ExecCannotLose(item, q)
  BY <1>2 DEF ExecCannotLose, BoardType, cards, piles
<1> QED BY <1>1, <1>2

LEMMA ExecuteType ==
  ASSUME BoardType, NEW item \in GoodItem, NEW q \in Seq(GoodItem), Execute(item, q)
  PROVE  BoardType'
BY DrawType, DamageType, HealType, UseCardType, PileOpcodesType, SpawnType,
   MonsterOpcodesType DEF Execute

(***************************************************************************)
(* The initial state and the steps of the pump.                            *)
(***************************************************************************)
LEMMA TypeInit == Init => TypeInv
<1> SUFFICES ASSUME Init PROVE TypeInv
  OBVIOUS
<1>0. PICK met \in Encounters :
        /\ monsters = [i \in 1 .. Len(met) |-> Monster(i, met[i], MonsterMaxHp)]
        /\ cannotLose = (\E i \in DOMAIN met : met[i] = "reviver")
  BY DEF Init
<1>1. Len(met) \in Nat /\ \A i \in 1 .. Len(met) : met[i] \in MonsterKinds
  BY FightAssumption, ElementOfSeq
<1>2. \A i \in 1 .. Len(met) : Monster(i, met[i], MonsterMaxHp) \in MonsterType
  BY <1>1, FightAssumption, MonsterIsTyped
<1>3. monsters \in [1 .. Len(met) -> MonsterType]
  BY <1>0, <1>2
<1>4. monsters \in Seq(MonsterType)
  BY <1>1, <1>3
<1>5. /\ actionQueue \in Seq(GoodItem) /\ cardQueue \in Seq(PlayType)
      /\ monsterQueue \in Seq(Nat)
  BY EmptySeq DEF Init
<1>6. BoardType
  BY <1>0, <1>4, <1>5, FightAssumption DEF Init, BoardType
<1>7. terminal \in [kind : TerminalKinds, stage : {"idle", "sort", "drain"},
                     kept : Seq(GoodItem), post : Seq(GoodItem)]
  <2>1. << >> \in Seq(GoodItem)
    BY EmptySeq
  <2> QED BY <2>1 DEF Init, NoTerminal, Sweep, TerminalKinds
<1>8. ControlType
  <2>1. turn \in Nat /\ energy \in Nat /\ played \in 0 .. NormalityLimit
    BY DEF Init, NormalityLimit
  <2>2. /\ phase \in Phases /\ turnHasEnded \in BOOLEAN
        /\ monsterAttacksQueued \in BOOLEAN /\ playerEscaped \in BOOLEAN
        /\ belt \subseteq Potions
    BY FightAssumption DEF Init, Phases
  <2> QED BY <1>7, <2>1, <2>2 DEF ControlType
<1> QED BY <1>6, <1>8 DEF TypeInv

LEMMA StartOfTurnType ==
  ASSUME TypeInv, StartOfTurn
  PROVE  /\ turn' \in Nat /\ turnHasEnded' \in BOOLEAN /\ energy' \in Nat
         /\ played' \in 0 .. NormalityLimit
         /\ actionQueue' \in Seq(GoodItem)
<1>1. Act("DRAW", Player, HandSize) \in GoodItem
  BY ActIsGood, TurnAssumption DEF Opcodes, Player
<1>2. actionQueue' \in Seq(GoodItem)
  BY <1>1 DEF StartOfTurn
<1>3. turn' \in Nat /\ played' \in 0 .. NormalityLimit
  BY DEF StartOfTurn, TypeInv, ControlType, NormalityLimit
<1> QED BY <1>2, <1>3, TurnAssumption DEF StartOfTurn

LEMMA TurnStepsType ==
  ASSUME TypeInv, BeginFirstTurn \/ StartSubsequentTurn \/ WaitForUser \/ BlockOnChoice
  PROVE  TypeInv'
<1>1. CASE BeginFirstTurn
  BY <1>1, StartOfTurnType
    DEF BeginFirstTurn, TypeInv, BoardType, ControlType, piles, Phases
<1>2. CASE StartSubsequentTurn
  BY <1>2, StartOfTurnType
    DEF StartSubsequentTurn, TypeInv, BoardType, ControlType, cards, fight, fixtures, piles
<1>3. CASE WaitForUser
  <2>1. Act("DRAW", Player, 1) \in GoodItem
    BY ActIsGood DEF Opcodes, Player
  <2>2. <<Act("DRAW", Player, 1)>> \in Seq(GoodItem)
    BY <2>1
  <2>3. actionQueue' \in Seq(GoodItem)
    BY <1>3, <2>2 DEF WaitForUser, TypeInv, BoardType
  <2>4. phase' \in Phases
    BY <1>3 DEF WaitForUser, TypeInv, ControlType, Phases
  <2> QED
    BY <1>3, <2>3, <2>4
      DEF WaitForUser, TypeInv, BoardType, ControlType, cards, fight, fixtures, piles
<1>4. CASE BlockOnChoice
  BY <1>4 DEF BlockOnChoice, TypeInv, BoardType, ControlType, fixtures, piles, Phases
<1> QED BY <1>1, <1>2, <1>3, <1>4

LEMMA RunActionType == ASSUME TypeInv, RunAction PROVE TypeInv'
<1>1. Head(actionQueue) \in GoodItem /\ Tail(actionQueue) \in Seq(GoodItem)
  BY DEF RunAction, TypeInv, BoardType
<1>2. BoardType' /\ turnHasEnded' \in BOOLEAN
  <2>1. CASE RunMonsterStartTurn
    BY <1>1, <2>1 DEF RunMonsterStartTurn, TypeInv, BoardType, cards, fight, piles
  <2>2. CASE Execute(Head(actionQueue), Tail(actionQueue)) /\ UNCHANGED turnHasEnded
    BY <1>1, <2>2, ExecuteType DEF TypeInv, ControlType
  <2> QED BY <2>1, <2>2 DEF RunAction
<1> QED BY <1>2 DEF RunAction, TypeInv, ControlType, fixtures

LEMMA BurnProgramType ==
  ASSUME NEW burns \in Seq(Card)
  PROVE  BurnProgram(burns) \in Seq(GoodItem)
<1>1. Len(burns) \in Nat
  OBVIOUS
<1>2. ASSUME NEW k \in 1 .. 2 * Len(burns)
      PROVE  (IF k % 2 = 1 THEN Damage(Player, Player, Thorns)
              ELSE UseCard(burns[k \div 2], DontTrigger)) \in GoodItem
  <2>1. CASE k % 2 = 1
    BY <2>1, DamageIsGood DEF Player
  <2>2. CASE k % 2 # 1
    <3>1. k \div 2 \in 1 .. Len(burns)
      BY <1>1, <2>2
    <3> QED BY <2>2, <3>1, ElementOfSeq, UseCardIsGood
  <2> QED BY <2>1, <2>2
<1>3. BurnProgram(burns) \in [1 .. 2 * Len(burns) -> GoodItem]
  BY <1>2 DEF BurnProgram
<1> QED BY <1>1, <1>3

LEMMA RunSentinelType == ASSUME TypeInv, RunSentinel PROVE TypeInv'
<1> DEFINE burning == {c \in hand : EndOfTurnTrigger(c)}
<1>1. PICK burns \in Arrangements(burning) :
        actionQueue' = BurnProgram(burns) \o <<Act("DISCARD_HAND", Player, 0)>>
  BY DEF RunSentinel
<1>2. IsFiniteSet(burning) /\ burning \subseteq Card
  BY CardAssumption, FS_Subset DEF TypeInv, BoardType
<1>3. burns \in Seq(Card)
  <2>1. Cardinality(burning) \in Nat
    BY <1>2, FS_CardinalityType
  <2>2. burns \in [1 .. Cardinality(burning) -> Card]
    BY <1>1, <1>2 DEF Arrangements
  <2> HIDE DEF burning
  <2> QED BY <2>1, <2>2
<1>4. Act("DISCARD_HAND", Player, 0) \in GoodItem
  BY ActIsGood DEF Opcodes, Player
<1>5. actionQueue' \in Seq(GoodItem)
  BY <1>1, <1>3, <1>4, BurnProgramType
<1>6. cardQueue' \in Seq(PlayType)
  BY DEF RunSentinel, TypeInv, BoardType
<1> QED
  BY <1>2, <1>5, <1>6 DEF RunSentinel, TypeInv, BoardType, ControlType, fight, fixtures

LEMMA EffectsType ==
  ASSUME NEW c \in Card, NEW tgt \in Nat
  PROVE  Effects(c, tgt) \in Seq(GoodItem)
<1>1. /\ Damage(Player, tgt, Normal) \in GoodItem
      /\ Act("HEAL", Player, 0) \in GoodItem
      /\ Act("PLAY_TOP_DRAW", Player, 0) \in GoodItem
      /\ Act("CHOOSE_CARD", Player, 1) \in GoodItem
  BY ActIsGood, DamageIsGood DEF Opcodes, Player
<1> QED BY <1>1 DEF Effects

LEMMA RunCardPlayType == ASSUME TypeInv, RunCardPlay PROVE TypeInv'
<1> DEFINE play == Head(cardQueue)
<1>1. play \in PlayType /\ Tail(cardQueue) \in Seq(PlayType)
  BY DEF RunCardPlay, TypeInv, BoardType
<1>2. play.card \in Card /\ play.tgt \in Nat
  BY <1>1 DEF RunCardPlay, PlayType, IsSentinel
<1>3. \A t \in {Trigger, DontTrigger} : UseCard(play.card, t) \in GoodItem
  BY <1>2, UseCardIsGood
<1> HIDE DEF play
<1>4. /\ actionQueue' \in Seq(GoodItem)
      /\ hand' \subseteq Card /\ limbo' \subseteq Card
      /\ energy' \in Nat
      /\ played' \in 0 .. NormalityLimit
  <2>1. CASE RejectPlay(play)
    BY <1>3, <2>1 DEF RejectPlay, TypeInv, BoardType, ControlType
  <2>2. CASE VanishPlay(play)
    BY <2>2 DEF VanishPlay, CountPlay, TypeInv, BoardType, ControlType, NormalityLimit
  <2>3. CASE AcceptPlay(play)
    <3>1. actionQueue' \in Seq(GoodItem)
      BY <1>2, <1>3, <2>3, EffectsType DEF AcceptPlay
    <3>2. energy' \in Nat
      BY <2>3 DEF AcceptPlay, CardCanUse, CardCanUseWithoutTarget, TypeInv, ControlType
    <3> QED
      BY <1>2, <2>3, <3>1, <3>2
        DEF AcceptPlay, CountPlay, TypeInv, BoardType, ControlType, NormalityLimit
  <2> QED BY <2>1, <2>2, <2>3 DEF RunCardPlay, play
<1> QED BY <1>1, <1>4 DEF RunCardPlay, TypeInv, BoardType, ControlType, fight, fixtures

LEMMA MoveProgramType ==
  ASSUME BoardType, NEW i \in Slots
  PROVE  MoveProgram(i) \in Seq(GoodItem)
<1>1. i \in Nat \ {0} /\ monsters[i].hp \in Nat
  <2>1. i \in 1 .. Len(monsters) /\ i \in Nat \ {0} /\ monsters \in Seq(MonsterType)
    BY LenProperties DEF BoardType, Slots
  <2>2. monsters[i] \in MonsterType
    BY <2>1, ElementOfSeq
  <2> QED BY <2>1, <2>2 DEF MonsterType
<1>2. /\ Damage(i, Player, Normal) \in GoodItem
      /\ \A op \in {"ROLL_MOVE", "SUICIDE", "HEAL", "ESCAPE"} : Act(op, i, 0) \in GoodItem
      /\ \A op \in {"CANNOT_LOSE", "CAN_LOSE"} : Act(op, Player, 0) \in GoodItem
  BY <1>1, ActIsGood, DamageIsGood DEF Opcodes, Player
<1>3. /\ Act("SPAWN_MONSTER", i, monsters[i].hp) \in GoodItem
      /\ Act("SPAWN_MONSTER", i + 2, monsters[i].hp) \in GoodItem
  BY <1>1, ActIsGood DEF Opcodes
<1> QED BY <1>2, <1>3 DEF MoveProgram

LEMMA MonsterStepsType == ASSUME TypeInv, QueueMonsters \/ RunMonster PROVE TypeInv'
<1>1. CASE QueueMonsters
  <2>1. PICK queue \in InOrder(MonstersToQueue) : monsterQueue' = monsterQueue \o queue
    BY <1>1 DEF QueueMonsters
  <2>2. IsFiniteSet(MonstersToQueue) /\ MonstersToQueue \subseteq Nat
    BY SlotsFinite, FS_Subset DEF TypeInv, MonstersToQueue
  <2>3. queue \in Seq(Nat)
    BY <2>1, <2>2, InOrderType, SeqMonotonic
  <2>4. monsterQueue' \in Seq(Nat)
    BY <2>1, <2>3 DEF TypeInv, BoardType
  <2> QED
    BY <1>1, <2>4
      DEF QueueMonsters, TypeInv, BoardType, ControlType, cards, piles, fixtures
<1>2. CASE RunMonster
  <2> DEFINE i == Head(monsterQueue)
  <2>1. monsterQueue' \in Seq(Nat)
    BY <1>2 DEF RunMonster, TypeInv, BoardType
  <2>2. actionQueue' \in Seq(GoodItem) /\ monsters' \in Seq(MonsterType)
    <3>1. CASE i \in Slots /\ ~BasicallyDead(monsters[i])
      <4>1. TakeTurn(i)
        BY <1>2, <3>1 DEF RunMonster
      <4>2. actionQueue' \in Seq(GoodItem)
        BY <3>1, <4>1, MoveProgramType DEF TakeTurn, TypeInv
      <4>3. i \in 1 .. Len(monsters) /\ monsters[i] \in MonsterType
        BY <3>1, ElementOfSeq DEF TypeInv, BoardType, Slots
      <4> HIDE DEF i
      <4>4. PICK plan \in NextPlans(monsters[i]) : monsters' = [monsters EXCEPT ![i].plan = plan]
        BY <4>1 DEF TakeTurn
      <4>5. plan \in Plans
        BY <4>3, <4>4 DEF NextPlans, MonsterType, Plans
      <4>6. [monsters[i] EXCEPT !.plan = plan] \in MonsterType
        BY <4>3, <4>5 DEF MonsterType
      <4>7. monsters' = [monsters EXCEPT ![i] = [monsters[i] EXCEPT !.plan = plan]]
        BY <4>4
      <4> QED BY <4>2, <4>3, <4>6, <4>7, ExceptSeq DEF TypeInv, BoardType
    <3>2. CASE ~(i \in Slots /\ ~BasicallyDead(monsters[i]))
      BY <1>2, <3>2 DEF RunMonster, TypeInv, BoardType
    <3> QED BY <3>1, <3>2
  <2> QED
    BY <1>2, <2>1, <2>2 DEF RunMonster, TypeInv, BoardType, ControlType, cards, piles, fixtures
<1> QED BY <1>1, <1>2

(***************************************************************************)
(* The terminal sweep.                                                     *)
(***************************************************************************)
LEMMA SweepType ==
  ASSUME TypeInv, BeginTerminal \/ SortItem \/ DrainStep
  PROVE  TypeInv'
<1> DEFINE Sweeps == [kind : TerminalKinds, stage : {"idle", "sort", "drain"},
                      kept : Seq(GoodItem), post : Seq(GoodItem)]
<1>0. terminal \in Sweeps /\ << >> \in Seq(GoodItem)
  BY EmptySeq DEF TypeInv, ControlType
<1>1. CASE BeginTerminal
  <2>1. terminal' \in Sweeps
    BY <1>0, <1>1 DEF BeginTerminal, Sweep, TerminalKind, TerminalKinds
  <2> QED
    BY <1>1, <2>1 DEF BeginTerminal, TypeInv, BoardType, ControlType, cards, piles, fight
<1>2. CASE SortItem
  <2>1. terminal' \in Sweeps /\ actionQueue' \in Seq(GoodItem)
    <3>1. CASE actionQueue # << >>
      <4>1. Head(actionQueue) \in GoodItem /\ Tail(actionQueue) \in Seq(GoodItem)
        BY <3>1 DEF TypeInv, BoardType
      <4>2. /\ Append(terminal.post, Head(actionQueue)) \in Seq(GoodItem)
            /\ Append(terminal.kept, Head(actionQueue)) \in Seq(GoodItem)
        BY <1>0, <4>1
      <4> QED BY <1>0, <1>2, <3>1, <4>1, <4>2 DEF SortItem
    <3>2. CASE actionQueue = << >>
      BY <1>0, <1>2, <3>2 DEF SortItem
    <3> QED BY <3>1, <3>2
  <2> QED
    BY <1>2, <2>1 DEF SortItem, TypeInv, BoardType, ControlType, cards, piles, fight
<1>3. CASE DrainStep
  <2>1. Head(actionQueue) \in GoodItem /\ Tail(actionQueue) \in Seq(GoodItem)
    BY <1>3 DEF DrainStep, Draining, TypeInv, BoardType
  <2>2. BoardType'
    BY <1>3, <2>1, ExecuteType DEF DrainStep, TypeInv
  <2>3. terminal' \in Sweeps
    BY <1>0, <1>3 DEF DrainStep
  <2> QED BY <1>3, <2>2, <2>3 DEF DrainStep, TypeInv, ControlType
<1> QED BY <1>1, <1>2, <1>3

LEMMA FinishType == ASSUME TypeInv, FinishTerminal PROVE TypeInv'
<1>1. actionQueue' \in Seq(GoodItem)
  BY DEF FinishTerminal, TypeInv, BoardType, ControlType
<1>2. /\ limbo' \subseteq Card /\ exhaust' \subseteq Card
      /\ discard' \subseteq Card /\ exhaustOnce' \subseteq Card
  BY FileType DEF FinishTerminal, TypeInv, BoardType
<1>3. clock' \in 0 .. ClockLimit - 1
  <2>1. Len(cardQueue) \in Nat /\ AutoplaysQueued \subseteq 1 .. Len(cardQueue)
    BY LenProperties DEF TypeInv, BoardType, AutoplaysQueued
  <2>2. Cardinality(AutoplaysQueued) \in Nat
    <3>1. IsFiniteSet(1 .. Len(cardQueue))
      BY <2>1, FS_Interval
    <3>2. IsFiniteSet(AutoplaysQueued)
      BY <2>1, <3>1, FS_Subset
    <3> QED BY <3>2, FS_CardinalityType
  <2>3. clock \in Nat /\ ClockLimit \in Nat \ {0}
    BY FightAssumption DEF TypeInv, BoardType
  <2>4. (clock + Cardinality(AutoplaysQueued)) % ClockLimit \in 0 .. ClockLimit - 1
    BY <2>2, <2>3
  <2> QED BY <2>4 DEF FinishTerminal, TypeInv, BoardType
<1>4. cardQueue' \in Seq(PlayType)
  BY EmptySeq DEF FinishTerminal
<1>5. terminal' \in [kind : TerminalKinds, stage : {"idle", "sort", "drain"},
                     kept : Seq(GoodItem), post : Seq(GoodItem)]
  <2>1. << >> \in Seq(GoodItem)
    BY EmptySeq
  <2> QED BY <2>1 DEF FinishTerminal, NoTerminal, Sweep, TerminalKinds
<1> QED
  BY <1>1, <1>2, <1>3, <1>4, <1>5
    DEF FinishTerminal, TypeInv, BoardType, ControlType, Phases

(***************************************************************************)
(* The user.                                                               *)
(***************************************************************************)
LEMMA UserType == ASSUME TypeInv, User PROVE TypeInv'
<1> USE DEF TypeInv, BoardType, ControlType, board, piles
<1>1. ASSUME NEW c \in hand, NEW t \in Slots, PlayCard(c, t) PROVE TypeInv'
  <2>1. Play(c, t) \in PlayType
    BY PlayIsTyped, SlotsFinite
  <2>2. cardQueue' \in Seq(PlayType)
    BY <1>1, <2>1 DEF PlayCard
  <2> QED BY <1>1, <2>2 DEF PlayCard, Phases
<1>2. ASSUME NEW c \in hand, Choose(c) PROVE TypeInv'
  <2>1. actionQueue # << >> /\ actionQueue[1] \in GoodItem /\ actionQueue[1].n > 0
        /\ actionQueue[1].op = "CHOOSE_CARD"
    BY <1>2 DEF Choose, ChoicePending, ChoiceRequiresUser
  <2>2. [actionQueue[1] EXCEPT !.n = @ - 1] \in GoodItem
    BY <2>1, CountedDownIsGood
  <2>3. actionQueue' = [actionQueue EXCEPT ![1] = [actionQueue[1] EXCEPT !.n = @ - 1]]
    BY <1>2 DEF Choose
  <2>4. actionQueue' \in Seq(GoodItem)
    BY <2>1, <2>2, <2>3, ExceptSeq
  <2> QED BY <1>2, <2>4 DEF Choose, Phases
<1>3. CASE EndTurn
  <2>1. cardQueue' \in Seq(PlayType)
    BY <1>3, SentinelIsTyped DEF EndTurn
  <2> QED BY <1>3, <2>1 DEF EndTurn, Phases
<1>4. CASE DrinkChaos
  <2>1. PICK tgts \in [1 .. ChaosPlays -> RandomTargets] :
          actionQueue' = actionQueue \o
                           [i \in 1 .. ChaosPlays |-> Act("PLAY_CARD", tgts[i], 0)]
    BY <1>4 DEF DrinkChaos
  <2>2. RandomTargets \subseteq Nat
    BY SlotsFinite DEF RandomTargets, Targets, Player
  <2>3. \A i \in 1 .. ChaosPlays : Act("PLAY_CARD", tgts[i], 0) \in GoodItem
    BY <2>1, <2>2, ActIsGood DEF Opcodes
  <2>4. [i \in 1 .. ChaosPlays |-> Act("PLAY_CARD", tgts[i], 0)]
           \in [1 .. ChaosPlays -> GoodItem]
    BY <2>3
  <2>5. [i \in 1 .. ChaosPlays |-> Act("PLAY_CARD", tgts[i], 0)] \in Seq(GoodItem)
    BY <2>4, TurnAssumption
  <2>6. actionQueue' \in Seq(GoodItem)
    <3>1. actionQueue \in Seq(GoodItem)
      OBVIOUS
    <3> QED BY ONLY <2>1, <2>5, <3>1, ConcatProperties
  <2> QED BY <1>4, <2>6 DEF DrinkChaos, Phases
<1>5. CASE DrinkSmoke
  BY <1>5 DEF DrinkSmoke, Phases
<1> QED BY <1>1, <1>2, <1>3, <1>4, <1>5 DEF User

LEMMA TypeNext == TypeInv /\ [Next]_vars => TypeInv'
<1> SUFFICES ASSUME TypeInv, [Next]_vars PROVE TypeInv'
  OBVIOUS
<1>1. CASE Pump
  BY <1>1, TurnStepsType, RunActionType, RunSentinelType, RunCardPlayType,
     MonsterStepsType, SweepType, FinishType DEF Pump
<1>2. CASE BeginFirstTurn \/ User
  BY <1>2, TurnStepsType, UserType
<1>3. CASE UNCHANGED vars
  BY <1>3 DEF vars, control, piles, TypeInv, BoardType, ControlType
<1> QED BY <1>1, <1>2, <1>3 DEF Next

\* Whatever the deck, the encounter and the numbers, every variable keeps its type:
\* no play drives the energy below zero, no slot of a queue names something that is
\* not an item, no spawn copies a record that is not there (combat_state.hpp).
THEOREM CombatTypeCorrect == Spec => []TypeOK
<1>1. Spec => []TypeInv
  BY TypeInit, TypeNext, PTL DEF Spec
<1> QED BY <1>1, TypeInvImpliesTypeOK, PTL

-----------------------------------------------------------------------------
(***************************************************************************)
(* Where the cards of a fight are, for every deck, encounter and set of    *)
(* numbers: each in one pile, none lost but by rule, Havoc's mark never on *)
(* a card that could be played again, and, where nothing empties the card  *)
(* queue, none left in limbo for good.                                     *)
(***************************************************************************)

(***************************************************************************)
(* A queue names cards: the plays do, and the items that file a card.      *)
(***************************************************************************)
Named(q) == {q[i].card : i \in DOMAIN q} \ {NoCard}
Once(q) == \A i, j \in DOMAIN q : i # j /\ q[i].card = q[j].card => q[i].card = NoCard

(***************************************************************************)
(* Sequences.                                                              *)
(***************************************************************************)
\* The places of a concatenation of three.
LEMMA ThreeParts ==
  ASSUME NEW S, NEW a \in Seq(S), NEW b \in Seq(S), NEW c \in Seq(S)
  PROVE  /\ a \o b \o c \in Seq(S)
         /\ \A p \in DOMAIN (a \o b \o c) :
              \/ p \in DOMAIN a /\ (a \o b \o c)[p] = a[p]
              \/ p - Len(a) \in DOMAIN b /\ (a \o b \o c)[p] = b[p - Len(a)]
              \/ /\ p - Len(a) - Len(b) \in DOMAIN c
                 /\ (a \o b \o c)[p] = c[p - Len(a) - Len(b)]
         /\ \A k \in DOMAIN b : /\ k + Len(a) \in DOMAIN (a \o b \o c)
                                /\ (a \o b \o c)[k + Len(a)] = b[k]
<1>1. a \o b \in Seq(S) /\ a \o b \o c \in Seq(S)
  BY ConcatProperties
<1>2. Len(a) \in Nat /\ Len(b) \in Nat /\ Len(c) \in Nat
  BY LenProperties
<1>3. /\ DOMAIN a = 1 .. Len(a) /\ DOMAIN b = 1 .. Len(b) /\ DOMAIN c = 1 .. Len(c)
      /\ DOMAIN (a \o b \o c) = 1 .. Len(a) + Len(b) + Len(c)
  BY <1>1, LenProperties, ConcatProperties
<1>4. \A p \in 1 .. Len(a) + Len(b) :
        (a \o b)[p] = IF p <= Len(a) THEN a[p] ELSE b[p - Len(a)]
  BY ConcatProperties
<1>5. \A p \in 1 .. Len(a) + Len(b) + Len(c) :
        (a \o b \o c)[p] = IF p <= Len(a) + Len(b) THEN (a \o b)[p]
                           ELSE c[p - (Len(a) + Len(b))]
  BY <1>1, ConcatProperties
<1>6. ASSUME NEW p \in DOMAIN (a \o b \o c)
      PROVE  \/ p \in DOMAIN a /\ (a \o b \o c)[p] = a[p]
             \/ p - Len(a) \in DOMAIN b /\ (a \o b \o c)[p] = b[p - Len(a)]
             \/ /\ p - Len(a) - Len(b) \in DOMAIN c
                /\ (a \o b \o c)[p] = c[p - Len(a) - Len(b)]
  <2>1. CASE p <= Len(a)
    BY <1>2, <1>3, <1>4, <1>5, <2>1
  <2>2. CASE p > Len(a) /\ p <= Len(a) + Len(b)
    BY <1>2, <1>3, <1>4, <1>5, <2>2
  <2>3. CASE p > Len(a) + Len(b)
    <3>1. p - (Len(a) + Len(b)) = p - Len(a) - Len(b) /\ p \in 1 .. Len(a) + Len(b) + Len(c)
      BY <1>2, <1>3
    <3> QED BY <1>2, <1>3, <1>5, <2>3, <3>1
  <2> QED BY <1>2, <1>3, <2>1, <2>2, <2>3
<1>7. ASSUME NEW k \in DOMAIN b
      PROVE  k + Len(a) \in DOMAIN (a \o b \o c) /\ (a \o b \o c)[k + Len(a)] = b[k]
  <2>1. /\ k + Len(a) \in 1 .. Len(a) + Len(b) /\ ~(k + Len(a) <= Len(a))
        /\ k + Len(a) - Len(a) = k
    BY <1>2, <1>3
  <2> QED BY <1>2, <1>3, <1>4, <1>5, <2>1
<1> QED BY <1>1, <1>6, <1>7

LEMMA NamedByThree ==
  ASSUME NEW S, NEW a \in Seq(S), NEW b \in Seq(S), NEW c \in Seq(S),
         Named(a) = {}, Named(c) = {}
  PROVE  Named(a \o b \o c) = Named(b) /\ (Once(b) => Once(a \o b \o c))
<1> DEFINE s == a \o b \o c
<1>0. /\ \A p \in DOMAIN s :
           \/ p \in DOMAIN a /\ s[p] = a[p]
           \/ p - Len(a) \in DOMAIN b /\ s[p] = b[p - Len(a)]
           \/ p - Len(a) - Len(b) \in DOMAIN c /\ s[p] = c[p - Len(a) - Len(b)]
      /\ \A k \in DOMAIN b : k + Len(a) \in DOMAIN s /\ s[k + Len(a)] = b[k]
      /\ Len(a) \in Nat /\ DOMAIN s \subseteq Nat
  BY ThreeParts, LenProperties
<1> HIDE DEF s
<1>1. \A p \in DOMAIN a : a[p].card = NoCard
  BY DEF Named
<1>2. \A p \in DOMAIN c : c[p].card = NoCard
  BY DEF Named
<1>3. \A p \in DOMAIN s : s[p].card # NoCard =>
        p - Len(a) \in DOMAIN b /\ s[p].card = b[p - Len(a)].card
  BY <1>0, <1>1, <1>2
<1>4. Named(s) = Named(b)
  BY <1>0, <1>3 DEF Named
<1>5. ASSUME Once(b) PROVE Once(s)
  <2> SUFFICES ASSUME NEW p \in DOMAIN s, NEW r \in DOMAIN s, p # r, s[p].card = s[r].card,
                      s[p].card # NoCard
               PROVE  FALSE
    BY DEF Once
  <2>1. p - Len(a) # r - Len(a)
    BY <1>0
  <2> QED BY <1>3, <1>5, <2>1 DEF Once
<1> QED BY <1>4, <1>5 DEF s

LEMMA NamedByTail ==
  ASSUME NEW S, NEW q \in Seq(S), q # << >>
  PROVE  /\ Named(Tail(q)) \subseteq Named(q)
         /\ Named(q) \subseteq Named(Tail(q)) \cup {Head(q).card}
         /\ Head(q).card \in Named(q) \cup {NoCard}
         /\ Once(q) => Once(Tail(q)) /\ Head(q).card \notin Named(Tail(q))
<1>1. /\ Len(q) \in Nat \ {0} /\ DOMAIN q = 1 .. Len(q) /\ Head(q) = q[1]
      /\ DOMAIN Tail(q) = 1 .. Len(q) - 1
      /\ \A i \in 1 .. Len(q) - 1 : Tail(q)[i] = q[i + 1]
  BY HeadTailProperties, LenProperties, EmptySeq
<1>2. \A i \in DOMAIN Tail(q) : i + 1 \in DOMAIN q /\ Tail(q)[i] = q[i + 1] /\ i + 1 # 1
  BY <1>1
<1>3. \A i \in DOMAIN q : i # 1 => i - 1 \in DOMAIN Tail(q) /\ q[i] = Tail(q)[i - 1]
  BY <1>1
<1>4. 1 \in DOMAIN q
  BY <1>1
<1>5. Named(Tail(q)) \subseteq Named(q)
  BY <1>2 DEF Named
<1>6. Named(q) \subseteq Named(Tail(q)) \cup {Head(q).card}
  <2> SUFFICES ASSUME NEW i \in DOMAIN q, q[i].card # NoCard, i # 1
               PROVE  q[i].card \in Named(Tail(q))
    BY <1>1 DEF Named
  <2> QED BY <1>3 DEF Named
<1>7. ASSUME Once(q) PROVE Once(Tail(q)) /\ Head(q).card \notin Named(Tail(q))
  <2>1. Once(Tail(q))
    <3> SUFFICES ASSUME NEW i \in DOMAIN Tail(q), NEW j \in DOMAIN Tail(q), i # j,
                        Tail(q)[i].card = Tail(q)[j].card
                 PROVE  Tail(q)[i].card = NoCard
      BY DEF Once
    <3>1. i + 1 # j + 1
      BY <1>1
    <3> QED BY <1>2, <1>7, <3>1 DEF Once
  <2>2. \A i \in DOMAIN Tail(q) : Tail(q)[i].card = q[1].card => Tail(q)[i].card = NoCard
    BY <1>2, <1>4, <1>7 DEF Once
  <2> QED BY <1>1, <2>1, <2>2 DEF Named
<1> QED BY <1>1, <1>4, <1>5, <1>6, <1>7 DEF Named

LEMMA NamedByOne ==
  ASSUME NEW x
  PROVE  Named(<<x>>) \subseteq {x.card} /\ Once(<<x>>)
BY DEF Named, Once

LEMMA NamedByNone == Named(<< >>) = {} /\ Once(<< >>)
BY DEF Named, Once

LEMMA NamedByAppend ==
  ASSUME NEW S, NEW q \in Seq(S), NEW x \in S
  PROVE  /\ Named(Append(q, x)) = (Named(q) \cup {x.card}) \ {NoCard}
         /\ Once(q) /\ x.card \notin Named(q) => Once(Append(q, x))
<1>1. /\ Len(q) \in Nat /\ DOMAIN q = 1 .. Len(q)
      /\ DOMAIN Append(q, x) = 1 .. Len(q) + 1
      /\ \A i \in 1 .. Len(q) : Append(q, x)[i] = q[i]
      /\ Append(q, x)[Len(q) + 1] = x
  BY AppendProperties, LenProperties
<1>2. \A i \in DOMAIN q : i \in DOMAIN Append(q, x) /\ Append(q, x)[i] = q[i]
  BY <1>1
<1>3. \A i \in DOMAIN Append(q, x) : \/ i \in DOMAIN q /\ Append(q, x)[i] = q[i]
                                     \/ i = Len(q) + 1 /\ Append(q, x)[i] = x
  BY <1>1
<1>4. Len(q) + 1 \in DOMAIN Append(q, x)
  BY <1>1
<1>5. Named(Append(q, x)) = (Named(q) \cup {x.card}) \ {NoCard}
  BY <1>1, <1>2, <1>3, <1>4 DEF Named
<1>6. ASSUME Once(q), x.card \notin Named(q) PROVE Once(Append(q, x))
  <2>1. \A i \in DOMAIN q : q[i].card = x.card => x.card = NoCard
    BY <1>6 DEF Named
  <2> QED BY <1>3, <1>6, <2>1 DEF Once
<1> QED BY <1>5, <1>6

\* The head stays, the new play comes next.
LEMMA NamedByQueuedOnTop ==
  ASSUME NEW S, NEW q \in Seq(S), NEW x \in S, q # << >>,
         NEW r, r = <<Head(q), x>> \o Tail(q)
  PROVE  /\ \A i \in DOMAIN r : \/ i = 1 /\ r[i] = q[1]
                                \/ i = 2 /\ r[i] = x
                                \/ i > 2 /\ i - 1 \in DOMAIN q /\ r[i] = q[i - 1]
         /\ DOMAIN r = 1 .. Len(q) + 1
<1>1. /\ Len(q) \in Nat \ {0} /\ DOMAIN q = 1 .. Len(q) /\ Head(q) = q[1] /\ Head(q) \in S
      /\ Tail(q) \in Seq(S) /\ Len(Tail(q)) = Len(q) - 1
      /\ \A i \in 1 .. Len(q) - 1 : Tail(q)[i] = q[i + 1]
  BY HeadTailProperties, LenProperties, EmptySeq
<1>2. <<Head(q), x>> \in Seq(S) /\ Len(<<Head(q), x>>) = 2
  BY <1>1
<1>3. /\ DOMAIN (<<Head(q), x>> \o Tail(q)) = 1 .. 2 + (Len(q) - 1)
      /\ \A i \in 1 .. 2 + (Len(q) - 1) :
           (<<Head(q), x>> \o Tail(q))[i] =
              IF i <= 2 THEN <<Head(q), x>>[i] ELSE Tail(q)[i - 2]
  BY <1>1, <1>2, ConcatProperties, LenProperties
<1> QED BY <1>1, <1>3

(***************************************************************************)
(* What the execution of an item does to the queue it was taken from: a    *)
(* blow puts its answers before the rest and what comes of a hit behind    *)
(* it, the discard of the hand its marker behind it.                       *)
(***************************************************************************)
Answers == {x \in GoodItem : x.op \in {"DAMAGE", "CLEAR_CARD_QUEUE"}}
Sequels == {x \in GoodItem : x.op \in {"ESCAPE", "SET_MOVE", "MONSTER_START_TURN"}}

LEMMA OneIsSeq == ASSUME NEW S, NEW x \in S PROVE <<x>> \in Seq(S)
OBVIOUS

LEMMA BetweenNothing ==
  ASSUME NEW S, NEW q \in Seq(S)
  PROVE  << >> \o q \o << >> = q
BY ConcatEmptySeq, EmptySeq

LEMMA HitQueue ==
  ASSUME BoardType, NEW item \in GoodItem, NEW q \in Seq(GoodItem), HitMonster(item, q),
         item.tgt \in Slots
  PROVE  \E pre \in Seq(Answers), post \in Seq(Sequels) :
           /\ actionQueue' = pre \o q \o post
           /\ \A i \in DOMAIN post : post[i].op # "MONSTER_START_TURN"
<1> DEFINE hit == [monsters[item.tgt] EXCEPT !.hp = IF @ > 0 THEN @ - 1 ELSE 0]
<1>1. PICK leaving \in InOrder(Departing(item, hit)) :
        actionQueue' = Reaction(item, hit) \o q \o Departures(leaving) \o ForcedMove(item, hit)
  BY DEF HitMonster
<1> HIDE DEF hit
<1>2. IsFiniteSet(Departing(item, hit)) /\ Departing(item, hit) \subseteq Nat
  <2>1. Departing(item, hit) \subseteq Slots
    BY DEF Departing
  <2> QED BY <2>1, SlotsFinite, FS_Subset
<1>3. leaving \in Seq(Nat)
  BY <1>1, <1>2, InOrderType, SeqMonotonic
<1>4. item.tgt \in Nat
  BY DEF GoodItem, ItemType
<1>5. Reaction(item, hit) \in Seq(Answers)
  <2>1. Damage(item.tgt, Player, Thorns) \in Answers
    BY <1>4, DamageIsGood DEF Answers, Damage, Item, Player, Thorns
  <2>2. Act("CLEAR_CARD_QUEUE", item.tgt, 0) \in Answers
    BY <1>4, ActIsGood DEF Answers, Act, Item, Opcodes
  <2>3. << >> \in Seq(Answers)
    BY EmptySeq
  <2> QED BY <2>1, <2>2, <2>3, OneIsSeq DEF Reaction
<1> DEFINE Sequel == {x \in Sequels : x.op # "MONSTER_START_TURN"}
<1>6. Departures(leaving) \in Seq(Sequel)
  <2>1. \A i \in DOMAIN leaving : Act("ESCAPE", leaving[i], 0) \in Sequel
    <3> SUFFICES ASSUME NEW i \in DOMAIN leaving PROVE Act("ESCAPE", leaving[i], 0) \in Sequel
      OBVIOUS
    <3>1. leaving[i] \in Nat
      BY <1>3, ElementOfSeq, LenProperties
    <3> QED BY <3>1, ActIsGood DEF Sequels, Act, Item, Opcodes
  <2> HIDE DEF Sequel
  <2>2. DOMAIN leaving = 1 .. Len(leaving) /\ Len(leaving) \in Nat
    BY <1>3, LenProperties
  <2>3. Departures(leaving) \in [1 .. Len(leaving) -> Sequel]
    BY <2>1, <2>2 DEF Departures
  <2> QED BY <2>2, <2>3
<1>7. ForcedMove(item, hit) \in Seq(Sequel)
  <2>1. Act("SET_MOVE", item.tgt, 0) \in Sequel
    BY <1>4, ActIsGood DEF Sequels, Act, Item, Opcodes
  <2> HIDE DEF Sequel
  <2> QED BY <2>1, EmptySeq, OneIsSeq DEF ForcedMove
<1> DEFINE post == Departures(leaving) \o ForcedMove(item, hit)
<1>8. post \in Seq(Sequel)
  <2> HIDE DEF Sequel
  <2> QED BY <1>6, <1>7, ConcatProperties
<1>9. post \in Seq(Sequels) /\ \A i \in DOMAIN post : post[i].op # "MONSTER_START_TURN"
  <2>1. \A i \in DOMAIN post : post[i] \in Sequel
    <3> HIDE DEF Sequel, post
    <3> QED BY <1>8, ElementOfSeq, LenProperties
  <2>2. post \in Seq(Sequels)
    <3>1. Sequel \subseteq Sequels
      OBVIOUS
    <3> HIDE DEF Sequel, post
    <3> QED BY <1>8, <3>1, SeqMonotonic
  <2> QED BY <2>1, <2>2
<1>10. actionQueue' = Reaction(item, hit) \o q \o post
  <2>1. /\ Reaction(item, hit) \in Seq(GoodItem \cup Sequel)
        /\ q \in Seq(GoodItem \cup Sequel)
        /\ Departures(leaving) \in Seq(GoodItem \cup Sequel)
        /\ ForcedMove(item, hit) \in Seq(GoodItem \cup Sequel)
    <3>1. Answers \subseteq GoodItem \cup Sequel /\ Sequel \subseteq GoodItem \cup Sequel
      BY DEF Answers
    <3> HIDE DEF Sequel
    <3> QED BY <1>5, <1>6, <1>7, <3>1, SeqMonotonic
  <2> HIDE DEF Sequel
  <2>2. Reaction(item, hit) \o q \in Seq(GoodItem \cup Sequel)
    BY <2>1, ConcatProperties
  <2> QED BY <1>1, <2>1, <2>2, ConcatAssociative
<1> HIDE DEF post, Sequel
<1> QED BY <1>5, <1>9, <1>10

LEMMA ExecuteQueue ==
  ASSUME BoardType, NEW item \in GoodItem, NEW q \in Seq(GoodItem), Execute(item, q)
  PROVE  \E pre \in Seq(Answers), post \in Seq(Sequels) :
           /\ actionQueue' = pre \o q \o post
           /\ item.op # "DAMAGE" => pre = << >>
           /\ item.op \notin {"DAMAGE", "DISCARD_HAND"} => post = << >>
           /\ item.op = "DISCARD_HAND" => post = <<Act("MONSTER_START_TURN", Player, 0)>>
           /\ item.op = "DAMAGE" => \A i \in DOMAIN post : post[i].op # "MONSTER_START_TURN"
<1>0. << >> \in Seq(Answers) /\ << >> \in Seq(Sequels) /\ << >> \o q \o << >> = q
  BY EmptySeq, BetweenNothing
<1>1. CASE item.op = "DAMAGE" /\ ExecDamage(item, q)
  <2>0. ASSUME actionQueue' = q
        PROVE  \E pre \in Seq(Answers), post \in Seq(Sequels) :
                 /\ actionQueue' = pre \o q \o post
                 /\ item.op # "DAMAGE" => pre = << >>
                 /\ item.op \notin {"DAMAGE", "DISCARD_HAND"} => post = << >>
                 /\ item.op = "DISCARD_HAND" =>
                      post = <<Act("MONSTER_START_TURN", Player, 0)>>
                 /\ item.op = "DAMAGE" =>
                      \A i \in DOMAIN post : post[i].op # "MONSTER_START_TURN"
    <3>1. << >> \in Seq(Answers) /\ << >> \in Seq(Sequels)
      BY <1>0
    <3> WITNESS << >> \in Seq(Answers), << >> \in Seq(Sequels)
    <3>2. \A i \in DOMAIN << >> : << >>[i].op # "MONSTER_START_TURN"
      OBVIOUS
    <3> QED BY <1>0, <1>1, <2>0, <3>2
  <2>1. CASE AttackerCancelled(item)
    BY <1>1, <2>0, <2>1 DEF ExecDamage
  <2>2. CASE ~AttackerCancelled(item) /\ item.tgt \in Slots
    <3>1. HitMonster(item, q)
      BY <1>1, <2>2 DEF ExecDamage
    <3>2. PICK pre \in Seq(Answers), post \in Seq(Sequels) :
            /\ actionQueue' = pre \o q \o post
            /\ \A i \in DOMAIN post : post[i].op # "MONSTER_START_TURN"
      BY <2>2, <3>1, HitQueue
    <3> QED BY <1>1, <3>2
  <2>3. CASE ~AttackerCancelled(item) /\ item.tgt \notin Slots
    <3>1. HitPlayer(item, q)
      BY <1>1, <2>3 DEF ExecDamage
    <3>2. <<Damage(Player, item.src, Thorns)>> \in Seq(Answers)
      <4>1. Damage(Player, item.src, Thorns) \in Answers
        BY DamageIsGood DEF GoodItem, ItemType, Answers, Damage, Item, Player, Thorns
      <4> QED BY <4>1, OneIsSeq
    <3>3. <<Damage(Player, item.src, Thorns)>> \o q \o << >> =
            <<Damage(Player, item.src, Thorns)>> \o q
      <4>1. /\ <<Damage(Player, item.src, Thorns)>> \in Seq(GoodItem)
            /\ <<Damage(Player, item.src, Thorns)>> \o q \in Seq(GoodItem)
        BY <3>2, SeqMonotonic, ConcatProperties DEF Answers
      <4> QED BY <4>1, ConcatEmptySeq
    <3>4. CASE PlayerThorns /\ item.n = Normal /\ item.src # Player
      <4>1. actionQueue' = <<Damage(Player, item.src, Thorns)>> \o q
        BY <3>1, <3>4 DEF HitPlayer
      <4>2. << >> \in Seq(Sequels)
        BY <1>0
      <4> WITNESS <<Damage(Player, item.src, Thorns)>> \in Seq(Answers), << >> \in Seq(Sequels)
      <4>3. \A i \in DOMAIN << >> : << >>[i].op # "MONSTER_START_TURN"
        OBVIOUS
      <4> QED BY <1>1, <3>3, <4>1, <4>3
    <3>5. CASE ~(PlayerThorns /\ item.n = Normal /\ item.src # Player)
      <4>1. actionQueue' = q
        BY <3>1, <3>5 DEF HitPlayer
      <4> QED BY <2>0, <4>1
    <3> QED BY <3>4, <3>5
  <2> QED BY <2>1, <2>2, <2>3
<1>2. CASE item.op = "DISCARD_HAND" /\ ExecDiscardHand(item, q)
  <2>1. Act("MONSTER_START_TURN", Player, 0) \in GoodItem
    BY ActIsGood DEF Opcodes, Player
  <2>2. <<Act("MONSTER_START_TURN", Player, 0)>> \in Seq(Sequels)
    <3>1. Act("MONSTER_START_TURN", Player, 0) \in Sequels
      BY <2>1 DEF Sequels, Act, Item
    <3> QED BY <3>1, OneIsSeq
  <2>3. Append(q, Act("MONSTER_START_TURN", Player, 0)) =
          << >> \o q \o <<Act("MONSTER_START_TURN", Player, 0)>>
    <3>1. << >> \o q = q
      BY ConcatEmptySeq
    <3> QED BY <2>1, <3>1, AppendIsConcat
  <2>4. actionQueue' = Append(q, Act("MONSTER_START_TURN", Player, 0))
    BY <1>2 DEF ExecDiscardHand
  <2> QED BY <1>0, <1>2, <2>2, <2>3, <2>4
<1>3. CASE item.op \notin {"DAMAGE", "DISCARD_HAND"}
  <2>1. actionQueue' = q
    BY <1>3 DEF Execute, ExecDraw, ExecHeal, ExecUseCard, ExecPlayTopDraw, ExecPlayCard,
                AutoplayTop, ExecChooseCard, ExecClearCardQueue, ExecCannotLose, ExecSpawn,
                ExecMonster
  <2> QED BY <1>0, <1>3, <2>1
<1> QED BY <1>1, <1>2, <1>3 DEF Execute

LEMMA NamesNone ==
  ASSUME NEW q, NEW S, S \in {Answers, Sequels}, q \in Seq(S)
  PROVE  Named(q) = {}
<1>1. \A x \in S : x.card = NoCard
  BY DEF Answers, Sequels, GoodItem
<1>2. \A i \in DOMAIN q : q[i] \in S
  BY ElementOfSeq, LenProperties
<1> QED BY <1>1, <1>2 DEF Named

\* So running an item queues no filing of a card.
LEMMA ExecuteNames ==
  ASSUME BoardType, NEW item \in GoodItem, NEW q \in Seq(GoodItem), Execute(item, q)
  PROVE  Named(actionQueue') = Named(q) /\ (Once(q) => Once(actionQueue'))
<1>1. PICK pre \in Seq(Answers), post \in Seq(Sequels) : actionQueue' = pre \o q \o post
  BY ExecuteQueue
<1>2. pre \in Seq(GoodItem) /\ post \in Seq(GoodItem)
  <2>1. Answers \subseteq GoodItem /\ Sequels \subseteq GoodItem
    BY DEF Answers, Sequels
  <2> QED BY <2>1, SeqMonotonic
<1>3. Named(pre) = {} /\ Named(post) = {}
  BY NamesNone
<1>4. Named(pre \o q \o post) = Named(q) /\ (Once(q) => Once(pre \o q \o post))
  BY <1>2, <1>3, NamedByThree
<1> QED BY <1>1, <1>4

(***************************************************************************)
(* The piles.  Running an item keeps them apart by itself: it moves a card *)
(* only from where the card is.                                            *)
(***************************************************************************)
PilesApart == OnePileEach /\ HavocMarksOnePlay

\* What CardsLeaveOnlyByRule says of one step.
MovedByRule ==
  /\ InPlay' \subseteq InPlay
  /\ InPlay \ InPlay' \subseteq {c \in limbo : IsPower(c) \/ NeedsEnemy(c)}

LEMMA SamePiles ==
  ASSUME PilesApart, UNCHANGED piles
  PROVE  PilesApart' /\ MovedByRule
BY DEF PilesApart, OnePileEach, HavocMarksOnePlay, MovedByRule, InPlay, piles

LEMMA DrawPiles ==
  ASSUME BoardType, PilesApart, NEW item, NEW q, ExecDraw(item, q)
  PROVE  PilesApart' /\ MovedByRule
<1>1. CASE Cardinality(hand) < HandCap /\ item.n > 0
  <2> DEFINE room == HandCap - Cardinality(hand)
             want == IF item.n < room THEN item.n ELSE room
             rest == want - Cardinality(draw)
  <2>1. PICK S \in SUBSET draw, T \in SUBSET discard :
          /\ Cardinality(S) = IF rest > 0 THEN Cardinality(draw) ELSE want
          /\ hand' = (hand \cup S) \cup T
          /\ IF rest > 0 THEN draw' = discard \ T /\ discard' = {}
             ELSE draw' = draw \ S /\ UNCHANGED discard
          /\ Cardinality(T) = CASE rest <= 0 -> 0
                                [] rest > Cardinality(discard) -> Cardinality(discard)
                                [] OTHER -> rest
    <3>1. DrawCards(item.n)
      BY <1>1 DEF ExecDraw
    <3> QED BY <3>1, Zenon DEF DrawCards
  <2>2. IsFiniteSet(draw) /\ IsFiniteSet(discard)
    BY CardAssumption, FS_Subset DEF BoardType
  <2>3. CASE rest > 0
    <3>1. S = draw
      <4>1. Cardinality(draw) = Cardinality(S)
        BY <2>1, <2>3
      <4> QED BY <2>2, <4>1, FS_Subset
    <3>2. /\ hand' = (hand \cup draw) \cup T /\ draw' = discard \ T /\ discard' = {}
          /\ T \subseteq discard
      BY <2>1, <2>3, <3>1
    <3> QED
      BY <3>2 DEF ExecDraw, PilesApart, OnePileEach, HavocMarksOnePlay, MovedByRule, InPlay
  <2>4. CASE ~(rest > 0)
    <3>1. T = {}
      <4>1. Cardinality(T) = 0
        <5>1. Cardinality(draw) \in Nat /\ Cardinality(S) \in Nat
          BY <2>2, FS_Subset, FS_CardinalityType
        <5>2. rest <= 0
          <6>1. Cardinality(S) = want
            BY <2>1, <2>4
          <6>2. want \in Nat
            BY <5>1, <6>1
          <6> HIDE DEF want
          <6> QED BY <2>4, <5>1, <6>2
        <5>3. Cardinality(discard) \in Nat
          BY <2>2, FS_CardinalityType
        <5>4. rest \in Int
          <6>1. Cardinality(hand) \in Nat
            BY CardAssumption, FS_Subset, FS_CardinalityType DEF BoardType
          <6>2. want \in Int
            BY <2>1, <2>4, <5>1
          <6> HIDE DEF want
          <6> QED BY <5>1, <6>2
        <5> HIDE DEF rest
        <5>5. ~(rest > Cardinality(discard))
          BY <5>2, <5>3, <5>4
        <5> QED BY <2>1, <5>2, <5>5
      <4>2. IsFiniteSet(T)
        BY <2>2, FS_Subset
      <4> QED BY <4>1, <4>2, FS_EmptySet
    <3>2. hand' = hand \cup S /\ draw' = draw \ S /\ discard' = discard /\ S \subseteq draw
      BY <2>1, <2>4, <3>1
    <3> QED
      BY <3>2 DEF ExecDraw, PilesApart, OnePileEach, HavocMarksOnePlay, MovedByRule, InPlay
  <2> HIDE DEF rest
  <2> QED BY <2>3, <2>4
<1>2. CASE ~(Cardinality(hand) < HandCap /\ item.n > 0)
  BY <1>2, SamePiles DEF ExecDraw, piles
<1> QED BY <1>1, <1>2

LEMMA FilePiles ==
  ASSUME PilesApart, NEW S \in SUBSET limbo, FileFromLimbo(S), UNCHANGED <<draw, hand>>
  PROVE  PilesApart' /\ MovedByRule
BY DEF FileFromLimbo, FiledToExhaust, FiledToDiscard, PilesApart, OnePileEach,
       HavocMarksOnePlay, MovedByRule, InPlay

LEMMA AutoplayPiles ==
  ASSUME PilesApart, NEW byHavoc, NEW tgt, NEW q, AutoplayTop(byHavoc, tgt, q)
  PROVE  PilesApart' /\ MovedByRule
<1>1. CASE draw # {}
  <2>1. PICK c \in draw :
          /\ draw' = draw \ {c} /\ discard' = discard /\ limbo' = limbo \cup {c}
          /\ exhaustOnce' \in {exhaustOnce, exhaustOnce \cup {c}}
          /\ UNCHANGED <<hand, exhaust>>
    BY <1>1 DEF AutoplayTop
  <2> QED BY <2>1 DEF PilesApart, OnePileEach, HavocMarksOnePlay, MovedByRule, InPlay
<1>2. CASE draw = {} /\ discard # {}
  <2>1. PICK c \in discard :
          /\ draw' = discard \ {c} /\ discard' = {} /\ limbo' = limbo \cup {c}
          /\ exhaustOnce' \in {exhaustOnce, exhaustOnce \cup {c}}
          /\ UNCHANGED <<hand, exhaust>>
    BY <1>2 DEF AutoplayTop
  <2> QED BY <1>2, <2>1 DEF PilesApart, OnePileEach, HavocMarksOnePlay, MovedByRule, InPlay
<1>3. CASE draw = {} /\ discard = {}
  BY <1>3, SamePiles DEF AutoplayTop, cards
<1> QED BY <1>1, <1>2, <1>3

LEMMA ExecutePiles ==
  ASSUME BoardType, PilesApart, NEW item, NEW q, Execute(item, q)
  PROVE  PilesApart' /\ MovedByRule
<1>1. CASE ExecDraw(item, q)
  BY <1>1, DrawPiles
<1>2. CASE ExecUseCard(item, q)
  BY <1>2, FilePiles DEF ExecUseCard
<1>3. CASE ExecPlayTopDraw(item, q)
  BY <1>3, AutoplayPiles DEF ExecPlayTopDraw
<1>4. CASE ExecPlayCard(item, q)
  BY <1>4, AutoplayPiles DEF ExecPlayCard
<1>5. CASE ExecChooseCard(item, q) \/ ExecDiscardHand(item, q)
  BY <1>5 DEF ExecChooseCard, ExecDiscardHand, PilesApart, OnePileEach, HavocMarksOnePlay,
              MovedByRule, InPlay
<1>6. CASE UNCHANGED piles
  BY <1>6, SamePiles
<1> QED
  BY <1>1, <1>2, <1>3, <1>4, <1>5, <1>6
    DEF Execute, ExecDamage, ExecHeal, ExecClearCardQueue, ExecCannotLose, ExecSpawn,
        ExecMonster, cards

(***************************************************************************)
(* Accepting a play is the one step that could put a card in two piles: it *)
(* takes the card out of the hand and puts it in limbo, and the card could *)
(* by then be anywhere.  It is in limbo or in the hand because every queued *)
(* play names a card that is kept in limbo for it, but for the play the    *)
(* user has just made; because the filing of a card is queued once; and    *)
(* because no card is queued to be played and to be filed.                 *)
(***************************************************************************)
\* The pump still resolves plays.
Working == terminal.stage = "idle" /\ phase # "OVER"

\* Waiting for a verb, the engine has nothing queued but what a choice holds up.
Rest ==
  /\ phase = "NONE" => actionQueue = << >> /\ cardQueue = << >>
  /\ phase = "WAITING" /\ ~ChoicePending => actionQueue = << >> /\ cardQueue = << >>
  /\ terminal.stage # "idle" => phase = "RESOLVING"

HeldInLimbo ==
  \A i \in DOMAIN cardQueue :
    \/ cardQueue[i].card \in limbo \cup {NoCard}
    \/ i = 1 /\ cardQueue[i].card \in hand /\ actionQueue = << >>

Claims ==
  /\ HeldInLimbo
  /\ Named(actionQueue) \subseteq limbo
  /\ Once(cardQueue) /\ Once(actionQueue)
  /\ Named(cardQueue) \cap Named(actionQueue) = {}

PileInv == PilesApart /\ Rest /\ (Working => Claims)

LEMMA NamesAreHeld ==
  ASSUME Named(cardQueue) \subseteq limbo
  PROVE  HeldInLimbo
BY DEF Named, HeldInLimbo

LEMMA HeldAreNames ==
  ASSUME HeldInLimbo, actionQueue # << >>
  PROVE  Named(cardQueue) \subseteq limbo
BY DEF Named, HeldInLimbo

LEMMA BehindTheHead ==
  ASSUME HeldInLimbo, cardQueue \in Seq(PlayType), cardQueue # << >>
  PROVE  Named(Tail(cardQueue)) \subseteq limbo
<1>1. \A i \in DOMAIN Tail(cardQueue) :
        i + 1 \in DOMAIN cardQueue /\ Tail(cardQueue)[i] = cardQueue[i + 1] /\ i + 1 # 1
  <2>1. /\ Len(cardQueue) \in Nat \ {0} /\ DOMAIN cardQueue = 1 .. Len(cardQueue)
        /\ DOMAIN Tail(cardQueue) = 1 .. Len(cardQueue) - 1
        /\ \A i \in 1 .. Len(cardQueue) - 1 : Tail(cardQueue)[i] = cardQueue[i + 1]
    BY HeadTailProperties, LenProperties, EmptySeq
  <2> QED BY <2>1
<1> QED BY <1>1 DEF HeldInLimbo, Named

\* A card taken from a pile and queued to be played is named nowhere yet.
LEMMA AutoplayClaims ==
  ASSUME BoardType, NEW q \in Seq(GoodItem), NEW byHavoc \in BOOLEAN, NEW tgt \in Nat,
         AutoplayTop(byHavoc, tgt, q), OnePileEach,
         Named(cardQueue) \subseteq limbo, Once(cardQueue),
         Named(q) \subseteq limbo, Once(q), Named(cardQueue) \cap Named(q) = {}
  PROVE  Claims'
<1> DEFINE source == IF draw = {} THEN discard ELSE draw
<1>1. CASE source = {}
  <2>1. actionQueue' = q /\ UNCHANGED <<limbo, cardQueue>>
    BY <1>1 DEF AutoplayTop, cards, piles
  <2> HIDE DEF source
  <2>2. HeldInLimbo'
    BY <2>1 DEF Named, HeldInLimbo
  <2> QED BY <2>1, <2>2 DEF Claims
<1>2. CASE source # {}
  <2>1. PICK c \in source :
          /\ limbo' = limbo \cup {c}
          /\ cardQueue' = IF byHavoc THEN QueuedOnTop(cardQueue, Play(c, tgt))
                          ELSE Append(cardQueue, Play(c, tgt))
          /\ actionQueue' = q
    BY <1>2 DEF AutoplayTop
  <2>2. c \in Card /\ c \notin limbo /\ c # NoCard
    BY <2>1, CardAssumption DEF BoardType, OnePileEach
  <2>3. Play(c, tgt) \in PlayType /\ Play(c, tgt).card = c
    BY <2>2 DEF Play, PlayType
  <2>4. Named(cardQueue') \subseteq Named(cardQueue) \cup {c} /\ Once(cardQueue')
    <3>1. CASE ~byHavoc
      BY <2>1, <2>2, <2>3, <3>1, NamedByAppend DEF BoardType
    <3>2. CASE byHavoc /\ cardQueue = << >>
      <4>1. cardQueue' = <<Play(c, tgt)>>
        BY <2>1, <3>2 DEF QueuedOnTop
      <4> QED BY <2>3, <4>1, NamedByOne
    <3>3. CASE byHavoc /\ cardQueue # << >>
      <4> DEFINE r == <<Head(cardQueue), Play(c, tgt)>> \o Tail(cardQueue)
      <4>1. cardQueue' = r
        BY <2>1, <3>3 DEF QueuedOnTop
      <4>2. /\ \A i \in DOMAIN r :
                 \/ i = 1 /\ r[i] = cardQueue[1]
                 \/ i = 2 /\ r[i] = Play(c, tgt)
                 \/ i > 2 /\ i - 1 \in DOMAIN cardQueue /\ r[i] = cardQueue[i - 1]
            /\ DOMAIN r = 1 .. Len(cardQueue) + 1 /\ Len(cardQueue) \in Nat
        <5>1. cardQueue \in Seq(PlayType) /\ Len(cardQueue) \in Nat
          BY LenProperties DEF BoardType
        <5>2. r = <<Head(cardQueue), Play(c, tgt)>> \o Tail(cardQueue)
          OBVIOUS
        <5> HIDE DEF r
        <5> QED BY <2>3, <3>3, <5>1, <5>2, NamedByQueuedOnTop
      <4>3. 1 \in DOMAIN cardQueue
        BY <3>3, LenProperties, EmptySeq DEF BoardType
      <4> HIDE DEF r
      <4>4. \A i \in DOMAIN cardQueue : cardQueue[i].card # c
        BY <2>2 DEF Named
      <4>5. Named(r) \subseteq Named(cardQueue) \cup {c}
        BY <2>3, <4>2, <4>3 DEF Named
      <4>6. Once(r)
        <5> SUFFICES ASSUME NEW i \in DOMAIN r, NEW j \in DOMAIN r, i < j,
                            r[i].card = r[j].card
                     PROVE  r[i].card = NoCard
          BY <4>2 DEF Once
        <5>1. CASE i = 1 /\ j = 2
          BY <2>3, <4>2, <4>3, <4>4, <5>1
        <5>2. CASE i = 1 /\ j > 2
          <6>1. j - 1 # 1 /\ j - 1 \in DOMAIN cardQueue /\ r[j] = cardQueue[j - 1]
                /\ r[i] = cardQueue[1]
            BY <4>2, <5>2
          <6> QED BY <4>3, <6>1 DEF Once
        <5>3. CASE i = 2 /\ j > 2
          BY <2>3, <4>2, <4>4, <5>3
        <5>4. CASE i > 2 /\ j > 2
          <6>1. i - 1 # j - 1
            BY <4>2
          <6> QED BY <4>2, <5>4, <6>1 DEF Once
        <5> QED BY <4>2, <5>1, <5>2, <5>3, <5>4
      <4> QED BY <4>1, <4>5, <4>6
    <3> QED BY <3>1, <3>2, <3>3
  <2> HIDE DEF source
  <2>5. Named(cardQueue') \subseteq limbo' /\ Named(actionQueue') \subseteq limbo'
    BY <2>1, <2>4
  <2>6. HeldInLimbo'
    BY <2>5 DEF Named, HeldInLimbo
  <2>7. Named(cardQueue') \cap Named(actionQueue') = {}
    BY <2>1, <2>2, <2>4
  <2> QED BY <2>1, <2>4, <2>5, <2>6, <2>7 DEF Claims
<1> QED BY <1>1, <1>2

LEMMA ExecuteClaims ==
  ASSUME BoardType, OnePileEach, Claims, actionQueue # << >>,
         Execute(Head(actionQueue), Tail(actionQueue))
  PROVE  Claims'
<1> DEFINE item == Head(actionQueue)
           q == Tail(actionQueue)
<1>1. item \in GoodItem /\ q \in Seq(GoodItem)
  BY DEF BoardType
<1>2. /\ Named(q) \subseteq limbo /\ Once(q) /\ Named(cardQueue) \cap Named(q) = {}
      /\ item.card \notin Named(q) /\ item.card \notin Named(cardQueue)
  <2>1. /\ Named(q) \subseteq Named(actionQueue) /\ Once(q) /\ item.card \notin Named(q)
        /\ item.card \in Named(actionQueue) \cup {NoCard}
    BY NamedByTail DEF BoardType, Claims
  <2> QED BY <2>1 DEF Claims, Named
<1>3. Named(cardQueue) \subseteq limbo /\ Once(cardQueue)
  BY HeldAreNames DEF Claims
<1>4. Named(actionQueue') = Named(q) /\ Once(actionQueue')
  BY <1>1, <1>2, ExecuteNames
<1> HIDE DEF item, q
<1>5. ASSUME Named(cardQueue') \subseteq Named(cardQueue), Once(cardQueue'),
             limbo \ {item.card} \subseteq limbo'
      PROVE  Claims'
  <2>1. Named(cardQueue') \subseteq limbo' /\ Named(actionQueue') \subseteq limbo'
    BY <1>2, <1>3, <1>4, <1>5
  <2>2. HeldInLimbo'
    BY <2>1 DEF Named, HeldInLimbo
  <2> QED BY <1>2, <1>4, <1>5, <2>1, <2>2 DEF Claims
<1>6. CASE ExecUseCard(item, q)
  <2>1. limbo \ {item.card} \subseteq limbo'
    BY <1>6 DEF ExecUseCard, FileFromLimbo
  <2>2. cardQueue' \in {cardQueue, <<EndTurnSentinel>>}
    BY <1>6 DEF ExecUseCard, EndPlayerTurn
  <2>3. Named(<<EndTurnSentinel>>) = {} /\ Once(<<EndTurnSentinel>>)
    BY NamedByOne DEF EndTurnSentinel, Play, Named
  <2> QED BY <1>3, <1>5, <2>1, <2>2, <2>3
<1>7. CASE ExecPlayTopDraw(item, q)
  <2>1. PICK tgt \in RandomTargets : AutoplayTop(TRUE, tgt, q)
    BY <1>7 DEF ExecPlayTopDraw
  <2>2. tgt \in Nat
    BY <2>1, SlotsFinite DEF RandomTargets, Targets, Player
  <2> QED BY <1>1, <1>2, <1>3, <2>1, <2>2, AutoplayClaims
<1>8. CASE ExecPlayCard(item, q)
  <2>1. item.tgt \in Nat
    BY <1>1 DEF GoodItem, ItemType
  <2> QED BY <1>1, <1>2, <1>3, <1>8, <2>1, AutoplayClaims DEF ExecPlayCard
<1>9. CASE cardQueue' = << >> /\ limbo' = limbo
  BY <1>5, <1>9, NamedByNone
<1>10. CASE cardQueue' = cardQueue /\ limbo' = limbo
  BY <1>3, <1>5, <1>10
<1> QED
  BY <1>6, <1>7, <1>8, <1>9, <1>10
    DEF Execute, ExecDraw, ExecDamage, ExecHeal, ExecChooseCard, ExecDiscardHand,
        ExecClearCardQueue, ExecCannotLose, ExecSpawn, ExecMonster, cards, piles, item, q

(***************************************************************************)
(* The steps, one lemma each: what the pump resolves, what the sweep does, *)
(* what the user does.                                                     *)
(***************************************************************************)
LEMMA PileInit == Init => PileInv
<1> SUFFICES ASSUME Init PROVE PileInv
  OBVIOUS
<1>1. PilesApart
  BY DEF Init, PilesApart, OnePileEach, HavocMarksOnePlay
<1>2. Rest
  BY DEF Init, Rest, NoTerminal, Sweep
<1>3. Claims
  <2>1. actionQueue = << >> /\ cardQueue = << >>
    BY DEF Init
  <2> QED BY <2>1 DEF Claims, HeldInLimbo, Named, Once
<1> QED BY <1>1, <1>2, <1>3 DEF PileInv

\* A step of the running pump that ends with nothing for the user to do yet.
LEMMA StillRunning ==
  ASSUME phase' = "RESOLVING"
  PROVE  Rest'
BY DEF Rest

\* Steps that leave the piles and the queue of plays alone, and queue no filing.
LEMMA QueueOnly ==
  ASSUME PileInv, UNCHANGED <<piles, cardQueue>>, Running, actionQueue = << >>,
         cardQueue = << >>, Rest', Named(actionQueue') = {}, Once(actionQueue')
  PROVE  PileInv' /\ MovedByRule
<1>1. PilesApart' /\ MovedByRule
  BY SamePiles DEF PileInv
<1>2. Claims'
  BY DEF Claims, HeldInLimbo, Named, Once
<1> QED BY <1>1, <1>2 DEF PileInv

LEMMA NamedByAct ==
  ASSUME NEW op, NEW tgt, NEW n
  PROVE  Named(<<Act(op, tgt, n)>>) = {} /\ Once(<<Act(op, tgt, n)>>)
BY NamedByOne DEF Act, Item, Named

LEMMA TurnStepsPiles ==
  ASSUME TypeInv, PileInv, BeginFirstTurn \/ StartSubsequentTurn \/ WaitForUser
  PROVE  PileInv' /\ MovedByRule
<1>1. CASE BeginFirstTurn
  <2>1. PilesApart' /\ MovedByRule
    BY <1>1, SamePiles DEF BeginFirstTurn, PileInv
  <2>2. cardQueue' = << >> /\ Named(actionQueue') = {} /\ Once(actionQueue')
    BY <1>1, NamedByAct DEF BeginFirstTurn, StartOfTurn, PileInv, Rest
  <2>3. Claims'
    BY <2>2 DEF Claims, HeldInLimbo, Named, Once
  <2> QED BY <1>1, <2>1, <2>3, StillRunning DEF BeginFirstTurn, PileInv
<1>2. CASE StartSubsequentTurn
  <2>1. Rest'
    BY <1>2, StillRunning DEF StartSubsequentTurn, AllServed, MonstersDue, Running
  <2> QED
    BY <1>2, <2>1, NamedByAct, QueueOnly
      DEF StartSubsequentTurn, StartOfTurn, AllServed, MonstersDue, cards
<1>3. CASE WaitForUser
  <2>1. /\ Running /\ actionQueue = << >> /\ cardQueue = << >> /\ UNCHANGED <<piles, cardQueue>>
        /\ terminal' = terminal
    BY <1>3 DEF WaitForUser, AllServed, MonstersDue, cards, fixtures
  <2>2. CASE TopRefills
    <3>1. actionQueue' = <<Act("DRAW", Player, 1)>> /\ phase' = "RESOLVING"
      BY <1>3, <2>1, <2>2 DEF WaitForUser, Running
    <3> QED BY <2>1, <3>1, NamedByAct, QueueOnly, StillRunning
  <2>3. CASE ~TopRefills
    <3>1. actionQueue' = << >> /\ phase' = "WAITING"
      BY <1>3, <2>1, <2>3 DEF WaitForUser
    <3>2. Rest'
      BY <2>1, <3>1 DEF Rest, Running
    <3> QED BY <2>1, <3>1, <3>2, NamedByNone, QueueOnly
  <2> QED BY <2>2, <2>3
<1> QED BY <1>1, <1>2, <1>3

LEMMA BlockPiles ==
  ASSUME TypeInv, PileInv, BlockOnChoice
  PROVE  PileInv' /\ MovedByRule
<1>1. UNCHANGED <<piles, cardQueue, actionQueue, terminal>> /\ Running /\ phase' = "WAITING"
      /\ ChoicePending
  BY DEF BlockOnChoice, fixtures
<1>2. PilesApart' /\ MovedByRule
  BY <1>1, SamePiles DEF PileInv
<1>3. ChoicePending'
  BY <1>1 DEF ChoicePending, ChoiceRequiresUser, piles
<1>4. Rest'
  BY <1>1, <1>3 DEF Rest, Running
<1>5. Claims'
  BY <1>1 DEF PileInv, Working, Running, Claims, HeldInLimbo, piles
<1> QED BY <1>2, <1>4, <1>5 DEF PileInv

LEMMA RunActionPiles ==
  ASSUME TypeInv, PileInv, RunAction
  PROVE  PileInv' /\ MovedByRule
<1>1. Claims /\ OnePileEach /\ BoardType /\ actionQueue # << >>
  BY DEF RunAction, Running, PileInv, Working, PilesApart, TypeInv
<1>2. Rest'
  BY StillRunning DEF RunAction, Running
<1>3. CASE RunMonsterStartTurn
  <2>1. UNCHANGED <<piles, cardQueue>> /\ actionQueue' = Tail(actionQueue)
    BY <1>3 DEF RunMonsterStartTurn, cards
  <2>2. PilesApart' /\ MovedByRule
    BY <2>1, SamePiles DEF PileInv
  <2>3. Named(actionQueue') \subseteq Named(actionQueue) /\ Once(actionQueue')
    BY <1>1, <2>1, NamedByTail DEF BoardType, Claims
  <2>4. Named(cardQueue') \subseteq limbo'
    BY <1>1, <2>1, HeldAreNames DEF Claims, piles
  <2>5. HeldInLimbo'
    BY <2>4 DEF Named, HeldInLimbo
  <2>6. Claims'
    BY <1>1, <2>1, <2>3, <2>5 DEF Claims, piles
  <2> QED BY <1>2, <2>2, <2>6 DEF PileInv
<1>4. CASE Execute(Head(actionQueue), Tail(actionQueue))
  <2>1. PilesApart' /\ MovedByRule
    BY <1>1, <1>4, ExecutePiles DEF PileInv
  <2>2. Claims'
    BY <1>1, <1>4, ExecuteClaims
  <2> QED BY <1>2, <2>1, <2>2 DEF PileInv
<1> QED BY <1>3, <1>4 DEF RunAction

\* The end of the turn files every Burn once, and nothing else.
LEMMA BurnNames ==
  ASSUME NEW S, IsFiniteSet(S), S \subseteq Card, NEW burns \in Arrangements(S)
  PROVE  LET q == BurnProgram(burns) \o <<Act("DISCARD_HAND", Player, 0)>>
         IN  Named(q) \subseteq S /\ Once(q)
<1> DEFINE n == Cardinality(S)
           last == <<Act("DISCARD_HAND", Player, 0)>>
<1>1. n \in Nat
  BY FS_CardinalityType
<1>2. burns \in [1 .. n -> S] /\ burns \in Surjection(1 .. n, S)
  BY DEF Arrangements, Surjection
<1>3. \A i, j \in 1 .. n : burns[i] = burns[j] => i = j
  <2>1. IsFiniteSet(1 .. n) /\ Cardinality(1 .. n) = n
    BY <1>1, FS_Interval
  <2>2. burns \in Injection(1 .. n, S)
    BY <1>2, <2>1, FS_SurjSameCardinalityImpliesInj
  <2> HIDE DEF n
  <2> QED BY <1>2, <2>2 DEF Injection, IsInjective
<1>4. burns \in Seq(Card) /\ Len(burns) = n
  <2> HIDE DEF n
  <2> QED BY <1>1, <1>2
<1> HIDE DEF n
<1> DEFINE b == BurnProgram(burns)
<1>5. b \in Seq(GoodItem) /\ last \in Seq(GoodItem)
  <2>1. Act("DISCARD_HAND", Player, 0) \in GoodItem
    BY ActIsGood DEF Opcodes, Player
  <2> QED BY <1>4, <2>1, BurnProgramType
<1>6. /\ DOMAIN b = 1 .. 2 * n
      /\ \A k \in 1 .. 2 * n : b[k].card = IF k % 2 = 1 THEN NoCard ELSE burns[k \div 2]
  BY <1>4 DEF BurnProgram, Damage, UseCard, Item
<1>7. \A k \in 1 .. 2 * n : k % 2 # 1 => k \div 2 \in 1 .. n /\ k = 2 * (k \div 2)
  BY <1>1
<1> HIDE DEF b, last
<1>8. Named(b) \subseteq S
  BY <1>2, <1>6, <1>7 DEF Named
<1>9. Once(b)
  <2> SUFFICES ASSUME NEW i \in 1 .. 2 * n, NEW j \in 1 .. 2 * n, i # j,
                      b[i].card = b[j].card, b[i].card # NoCard
               PROVE  FALSE
    BY <1>6 DEF Once
  <2>1. i % 2 # 1 /\ j % 2 # 1
    BY <1>6
  <2>2. burns[i \div 2] = burns[j \div 2]
    BY <1>6, <2>1
  <2>3. i \div 2 = j \div 2
    BY <1>3, <1>7, <2>1, <2>2
  <2> QED BY <1>7, <2>1, <2>3
<1>10. Named(last) = {}
  BY NamedByAct DEF last
<1>11. << >> \in Seq(GoodItem) /\ << >> \o b = b
  BY <1>5, EmptySeq, ConcatEmptySeq
<1>12. Named(b \o last) = Named(b) /\ (Once(b) => Once(b \o last))
  <2>1. /\ Named(<< >> \o b \o last) = Named(b)
        /\ Once(b) => Once(<< >> \o b \o last)
    BY <1>5, <1>10, <1>11, NamedByNone, NamedByThree
  <2> QED BY <1>11, <2>1
<1> QED BY <1>8, <1>9, <1>12 DEF b, last

LEMMA SentinelPiles ==
  ASSUME TypeInv, PileInv, RunSentinel
  PROVE  PileInv' /\ MovedByRule
<1> DEFINE burning == {c \in hand : EndOfTurnTrigger(c)}
<1>1. /\ Running /\ actionQueue = << >> /\ cardQueue # << >>
      /\ hand' = hand \ burning /\ limbo' = limbo \cup burning
      /\ cardQueue' = Tail(cardQueue) /\ phase' = phase
      /\ UNCHANGED <<draw, discard, exhaust, exhaustOnce>>
  BY DEF RunSentinel
<1>2. PICK burns \in Arrangements(burning) :
        actionQueue' = BurnProgram(burns) \o <<Act("DISCARD_HAND", Player, 0)>>
  BY DEF RunSentinel
<1>3. IsFiniteSet(burning) /\ burning \subseteq Card /\ burning \subseteq hand
  BY CardAssumption, FS_Subset DEF TypeInv, BoardType
<1> HIDE DEF burning
<1>4. Named(actionQueue') \subseteq burning /\ Once(actionQueue')
  BY <1>2, <1>3, BurnNames
<1>5. PilesApart' /\ MovedByRule
  BY <1>1, <1>3 DEF PileInv, PilesApart, OnePileEach, HavocMarksOnePlay, MovedByRule, InPlay
<1>6. Claims
  BY <1>1 DEF PileInv, Working, Running
<1>7. Named(cardQueue') \subseteq limbo /\ Once(cardQueue')
  BY <1>1, <1>6, BehindTheHead, NamedByTail DEF Claims, TypeInv, BoardType
<1>8. HeldInLimbo'
  BY <1>1, <1>7 DEF Named, HeldInLimbo
<1>9. Named(cardQueue') \cap Named(actionQueue') = {}
  BY <1>3, <1>4, <1>7 DEF PileInv, PilesApart, OnePileEach
<1>10. Claims'
  BY <1>1, <1>4, <1>7, <1>8, <1>9 DEF Claims
<1>11. Rest'
  BY <1>1, StillRunning DEF Running
<1> QED BY <1>5, <1>10, <1>11 DEF PileInv

\* A card's own program files nothing: the use queued behind it does.
LEMMA EffectsNames ==
  ASSUME NEW c \in Card, NEW tgt \in Nat
  PROVE  /\ Named(Effects(c, tgt) \o <<UseCard(c, Trigger)>>) = {c}
         /\ Once(Effects(c, tgt) \o <<UseCard(c, Trigger)>>)
<1>1. /\ Effects(c, tgt) \in Seq(GoodItem)
      /\ <<UseCard(c, Trigger)>> \in Seq(GoodItem)
      /\ << >> \in Seq(GoodItem)
  BY EffectsType, UseCardIsGood, OneIsSeq, EmptySeq
<1>2. Named(Effects(c, tgt)) = {}
  BY DEF Effects, Named, Damage, Act, Item
<1>3. Named(<<UseCard(c, Trigger)>>) = {c} /\ Once(<<UseCard(c, Trigger)>>)
  BY CardAssumption, NamedByOne DEF UseCard, Item, Named
<1>4. Effects(c, tgt) \o <<UseCard(c, Trigger)>> \o << >> =
        Effects(c, tgt) \o <<UseCard(c, Trigger)>>
  <2>1. Effects(c, tgt) \o <<UseCard(c, Trigger)>> \in Seq(GoodItem)
    BY <1>1, ConcatProperties
  <2> QED BY <2>1, ConcatEmptySeq
<1>5. LET three == Effects(c, tgt) \o <<UseCard(c, Trigger)>> \o << >>
      IN  /\ Named(three) = Named(<<UseCard(c, Trigger)>>)
          /\ Once(<<UseCard(c, Trigger)>>) => Once(three)
  BY <1>1, <1>2, NamedByNone, NamedByThree
<1> QED BY <1>3, <1>4, <1>5

LEMMA CardPlayPiles ==
  ASSUME TypeInv, PileInv, RunCardPlay
  PROVE  PileInv' /\ MovedByRule
<1> DEFINE play == Head(cardQueue)
           c == play.card
<1>1. /\ Running /\ actionQueue = << >> /\ cardQueue # << >> /\ c # NoCard
      /\ cardQueue' = Tail(cardQueue) /\ phase' = phase
      /\ UNCHANGED <<draw, discard, exhaust, exhaustOnce>>
  BY DEF RunCardPlay, IsSentinel
<1>2. c \in Card /\ play.tgt \in Nat
  <2>1. play \in PlayType
    BY <1>1 DEF TypeInv, BoardType
  <2> QED BY <1>1, <2>1 DEF PlayType
<1>3. Claims
  BY <1>1 DEF PileInv, Working, Running
<1>4. /\ Named(cardQueue') \subseteq limbo /\ Once(cardQueue') /\ c \notin Named(cardQueue')
  BY <1>1, <1>3, BehindTheHead, NamedByTail DEF Claims, TypeInv, BoardType
<1>5. c \in limbo \cup hand
  <2>1. 1 \in DOMAIN cardQueue /\ cardQueue[1] = Head(cardQueue)
    BY <1>1, LenProperties, EmptySeq, HeadTailProperties DEF TypeInv, BoardType
  <2> QED BY <1>1, <1>3, <2>1 DEF Claims, HeldInLimbo
<1>6. Rest'
  BY <1>1, StillRunning DEF Running
<1>7. CASE RejectPlay(play)
  <2>1. UNCHANGED <<hand, limbo>> /\ Named(actionQueue') \subseteq limbo \cap {c}
        /\ Once(actionQueue')
    <3>1. Named(<<UseCard(c, DontTrigger)>>) \subseteq {c} /\ Once(<<UseCard(c, DontTrigger)>>)
      BY NamedByOne DEF UseCard, Item, Named
    <3> QED BY <1>7, <3>1, NamedByNone DEF RejectPlay, Autoplaying
  <2>2. PilesApart' /\ MovedByRule
    BY <1>1, <2>1, SamePiles DEF PileInv, piles
  <2>3. Claims'
    <3>1. HeldInLimbo'
      BY <1>4, <2>1 DEF Named, HeldInLimbo
    <3> QED BY <1>4, <2>1, <3>1 DEF Claims
  <2> QED BY <1>6, <2>2, <2>3 DEF PileInv
<1>8. CASE VanishPlay(play)
  <2>1. limbo' = limbo \ {c} /\ UNCHANGED <<hand, actionQueue>> /\ NeedsEnemy(c)
    BY <1>8 DEF VanishPlay, TargetGone
  <2>2. PilesApart' /\ MovedByRule
    BY <1>1, <2>1
      DEF PileInv, PilesApart, OnePileEach, HavocMarksOnePlay, MovedByRule, InPlay
  <2>3. Claims'
    <3>1. HeldInLimbo'
      BY <1>4, <2>1 DEF Named, HeldInLimbo
    <3>2. Named(actionQueue') = {} /\ Once(actionQueue')
      BY <1>1, <2>1, NamedByNone
    <3> QED BY <1>4, <2>1, <3>1, <3>2 DEF Claims
  <2> QED BY <1>6, <2>2, <2>3 DEF PileInv
<1>9. CASE AcceptPlay(play)
  <2>1. /\ hand' = hand \ {c} /\ limbo' = limbo \cup {c}
        /\ actionQueue' = Effects(c, play.tgt) \o <<UseCard(c, Trigger)>>
    BY <1>9 DEF AcceptPlay
  <2> HIDE DEF play, c
  <2>2. Named(actionQueue') = {c} /\ Once(actionQueue')
    BY <1>2, <2>1, EffectsNames
  <2>3. PilesApart' /\ MovedByRule
    BY <1>1, <1>5, <2>1
      DEF PileInv, PilesApart, OnePileEach, HavocMarksOnePlay, MovedByRule, InPlay
  <2>4. Claims'
    <3>1. HeldInLimbo'
      BY <1>4, <2>1 DEF Named, HeldInLimbo
    <3> QED BY <1>4, <2>1, <2>2, <3>1 DEF Claims
  <2> QED BY <1>6, <2>3, <2>4 DEF PileInv
<1> QED BY <1>7, <1>8, <1>9 DEF RunCardPlay

LEMMA MonsterStepsPiles ==
  ASSUME TypeInv, PileInv, QueueMonsters \/ RunMonster
  PROVE  PileInv' /\ MovedByRule
<1>1. /\ Running /\ actionQueue = << >> /\ cardQueue = << >> /\ phase' = phase
      /\ UNCHANGED <<piles, cardQueue>>
  BY DEF QueueMonsters, RunMonster, MonstersDue, cards
<1>2. Named(actionQueue') = {} /\ Once(actionQueue')
  <2>1. CASE actionQueue' = actionQueue
    BY <1>1, <2>1, NamedByNone
  <2>2. CASE RunMonster /\ actionQueue' # actionQueue
    <3>1. actionQueue' = MoveProgram(Head(monsterQueue))
      BY <2>2 DEF RunMonster, TakeTurn
    <3> QED BY <3>1 DEF MoveProgram, Named, Once, Damage, Act, Item
  <2> QED BY <2>1, <2>2 DEF QueueMonsters
<1>3. Rest'
  BY <1>1, StillRunning DEF Running
<1> QED BY <1>1, <1>2, <1>3, QueueOnly

LEMMA SweepPiles ==
  ASSUME TypeInv, PileInv, BeginTerminal \/ SortItem \/ DrainStep \/ FinishTerminal
  PROVE  PileInv' /\ MovedByRule
<1>1. CASE BeginTerminal \/ SortItem
  <2>1. UNCHANGED piles /\ phase' = phase /\ phase = "RESOLVING"
    BY <1>1 DEF BeginTerminal, SortItem, cards, PileInv, Rest
  <2>2. terminal'.stage # "idle"
    <3>1. CASE BeginTerminal
      BY <3>1 DEF BeginTerminal, Sweep
    <3>2. CASE SortItem
      <4>1. terminal.stage = "sort" /\ terminal \in [kind : TerminalKinds,
              stage : {"idle", "sort", "drain"}, kept : Seq(GoodItem), post : Seq(GoodItem)]
        BY <3>2 DEF SortItem, TypeInv, ControlType
      <4> QED BY <3>2, <4>1 DEF SortItem
    <3> QED BY <1>1, <3>1, <3>2
  <2> QED BY <2>1, <2>2, SamePiles, StillRunning DEF PileInv, Working
<1>2. CASE DrainStep
  <2>1. Execute(Head(actionQueue), Tail(actionQueue)) /\ phase' = phase
        /\ terminal.stage = "drain"
    BY <1>2 DEF DrainStep, Draining
  <2>2. PilesApart' /\ MovedByRule
    BY <2>1, ExecutePiles DEF PileInv, TypeInv
  <2>3. phase = "RESOLVING" /\ terminal'.stage # "idle"
    BY <1>2, <2>1 DEF DrainStep, PileInv, Rest, TypeInv, ControlType
  <2> QED BY <2>1, <2>2, <2>3, StillRunning DEF PileInv, Working
<1>3. CASE FinishTerminal
  <2>1. FileFromLimbo(limbo) /\ UNCHANGED <<draw, hand>> /\ phase' = "OVER"
        /\ terminal' = NoTerminal
    BY <1>3 DEF FinishTerminal
  <2>2. PilesApart' /\ MovedByRule
    BY <2>1, FilePiles DEF PileInv
  <2> QED BY <2>1, <2>2 DEF PileInv, Rest, Working, NoTerminal, Sweep
<1> QED BY <1>1, <1>2, <1>3

\* Chaos queues plays of cards that are nowhere named yet.
LEMMA ChaosNames ==
  ASSUME TypeInv, DrinkChaos
  PROVE  Named(actionQueue') = Named(actionQueue) /\ (Once(actionQueue) => Once(actionQueue'))
<1>1. PICK tgts \in [1 .. ChaosPlays -> RandomTargets] :
        actionQueue' = actionQueue \o
                         [i \in 1 .. ChaosPlays |-> Act("PLAY_CARD", tgts[i], 0)]
  BY DEF DrinkChaos
<1> DEFINE plays == [i \in 1 .. ChaosPlays |-> Act("PLAY_CARD", tgts[i], 0)]
<1>2. Named(plays) = {}
  BY DEF Named, Act, Item
<1>3. plays \in Seq(GoodItem)
  <2>1. RandomTargets \subseteq Nat
    BY SlotsFinite DEF RandomTargets, Targets, Player, TypeInv
  <2>2. \A i \in 1 .. ChaosPlays : Act("PLAY_CARD", tgts[i], 0) \in GoodItem
    BY <1>1, <2>1, ActIsGood DEF Opcodes
  <2>3. plays \in [1 .. ChaosPlays -> GoodItem]
    BY <2>2
  <2> QED BY <2>3, TurnAssumption
<1>4. actionQueue' = actionQueue \o plays
  BY <1>1
<1> HIDE DEF plays
<1>5. << >> \o actionQueue = actionQueue /\ << >> \in Seq(GoodItem) /\ actionQueue \in Seq(GoodItem)
  BY ConcatEmptySeq, EmptySeq DEF TypeInv, BoardType
<1>6. /\ Named(<< >> \o actionQueue \o plays) = Named(actionQueue)
      /\ Once(actionQueue) => Once(<< >> \o actionQueue \o plays)
  BY <1>2, <1>3, <1>5, NamedByNone, NamedByThree
<1> QED BY <1>4, <1>5, <1>6

LEMMA UserPiles ==
  ASSUME TypeInv, PileInv, User
  PROVE  PileInv' /\ MovedByRule
<1>1. /\ phase = "WAITING" /\ phase' = "RESOLVING" /\ terminal' = terminal
      /\ UNCHANGED <<draw, discard, limbo, exhaustOnce>>
  BY DEF User, PlayCard, Choose, EndTurn, DrinkChaos, DrinkSmoke, UserActs, board, piles
<1>2. Rest' /\ terminal.stage = "idle"
  BY <1>1, StillRunning DEF PileInv, Rest
<1>3. Claims
  BY <1>1, <1>2 DEF PileInv, Working
<1>4. ASSUME NEW c \in hand, NEW t \in Slots, PlayCard(c, t)
      PROVE  PileInv' /\ MovedByRule
  <2>1. UNCHANGED <<piles, actionQueue>> /\ cardQueue' = Append(cardQueue, Play(c, t))
        /\ ~ChoicePending
    BY <1>4 DEF PlayCard
  <2>2. actionQueue = << >> /\ cardQueue = << >>
    BY <1>1, <2>1 DEF PileInv, Rest
  <2>3. cardQueue' = <<Play(c, t)>>
    BY <2>1, <2>2
  <2>4. Claims'
    <3>1. HeldInLimbo'
      BY <2>1, <2>2, <2>3 DEF HeldInLimbo, Play, piles
    <3>2. Once(cardQueue') /\ Once(actionQueue') /\ Named(actionQueue') = {}
      BY <2>1, <2>2, <2>3, NamedByOne, NamedByNone
    <3> QED BY <3>1, <3>2 DEF Claims
  <2> QED BY <1>2, <2>1, <2>4, SamePiles DEF PileInv
<1>5. ASSUME NEW c \in hand, Choose(c)
      PROVE  PileInv' /\ MovedByRule
  <2>1. /\ hand' = hand \ {c} /\ exhaust' = exhaust \cup {c} /\ cardQueue' = cardQueue
        /\ actionQueue' = [actionQueue EXCEPT ![1].n = @ - 1] /\ ChoicePending
    BY <1>5 DEF Choose
  <2>2. PilesApart' /\ MovedByRule
    BY <1>1, <2>1
      DEF PileInv, PilesApart, OnePileEach, HavocMarksOnePlay, MovedByRule, InPlay
  <2>3. actionQueue # << >> /\ actionQueue \in Seq(GoodItem)
    BY <2>1 DEF ChoicePending, TypeInv, BoardType
  <2>4. DOMAIN actionQueue' = DOMAIN actionQueue
        /\ \A i \in DOMAIN actionQueue : actionQueue'[i].card = actionQueue[i].card
    <3>1. \A i \in DOMAIN actionQueue : actionQueue[i] \in ItemType
      BY <2>3, ElementOfSeq, LenProperties DEF GoodItem
    <3>2. 1 \in DOMAIN actionQueue
      BY <2>3, LenProperties, EmptySeq
    <3> QED BY <2>1, <3>1, <3>2 DEF ItemType
  <2>5. Named(actionQueue') = Named(actionQueue) /\ Once(actionQueue')
    BY <1>3, <2>4 DEF Named, Once, Claims
  <2>6. Named(cardQueue) \subseteq limbo
    BY <1>3, <2>3, HeldAreNames DEF Claims
  <2>7. HeldInLimbo'
    BY <1>1, <2>1, <2>6 DEF Named, HeldInLimbo
  <2>8. Claims'
    BY <1>1, <1>3, <2>1, <2>5, <2>7 DEF Claims
  <2> QED BY <1>2, <2>2, <2>8 DEF PileInv
<1>6. CASE EndTurn
  <2>1. UNCHANGED <<piles, actionQueue>> /\ cardQueue' = Append(cardQueue, EndTurnSentinel)
        /\ ~ChoicePending
    BY <1>6 DEF EndTurn
  <2>2. actionQueue = << >> /\ cardQueue = << >>
    BY <1>1, <2>1 DEF PileInv, Rest
  <2>3. cardQueue' = <<EndTurnSentinel>>
    BY <2>1, <2>2
  <2>4. Claims'
    <3>1. HeldInLimbo'
      BY <2>3 DEF HeldInLimbo, EndTurnSentinel, Play
    <3>2. Once(cardQueue') /\ Once(actionQueue') /\ Named(actionQueue') = {}
      BY <2>1, <2>2, <2>3, NamedByOne, NamedByNone
    <3> QED BY <3>1, <3>2 DEF Claims
  <2> QED BY <1>2, <2>1, <2>4, SamePiles DEF PileInv
<1>7. CASE DrinkChaos
  <2>1. UNCHANGED <<piles, cardQueue>>
    BY <1>7 DEF DrinkChaos
  <2>2. Named(actionQueue') = Named(actionQueue) /\ Once(actionQueue')
    BY <1>3, <1>7, ChaosNames DEF Claims
  <2>3. Named(cardQueue) \subseteq limbo
    <3>1. CASE ChoicePending
      BY <1>3, <3>1, HeldAreNames DEF Claims, ChoicePending
    <3>2. CASE ~ChoicePending
      BY <1>1, <3>2, NamedByNone DEF PileInv, Rest
    <3> QED BY <3>1, <3>2
  <2>4. HeldInLimbo'
    BY <2>1, <2>3 DEF Named, HeldInLimbo, piles
  <2>5. Claims'
    BY <1>3, <2>1, <2>2, <2>4 DEF Claims, piles
  <2> QED BY <1>2, <2>1, <2>5, SamePiles DEF PileInv
<1>8. CASE DrinkSmoke
  <2>1. UNCHANGED <<piles, cardQueue, actionQueue>>
    BY <1>8 DEF DrinkSmoke
  <2>2. Claims'
    BY <1>3, <2>1 DEF Claims, HeldInLimbo, piles
  <2> QED BY <1>2, <2>1, <2>2, SamePiles DEF PileInv
<1> QED BY <1>4, <1>5, <1>6, <1>7, <1>8 DEF User

LEMMA PileNext == TypeInv /\ PileInv /\ [Next]_vars => PileInv' /\ MovedByRule
<1> SUFFICES ASSUME TypeInv, PileInv, [Next]_vars PROVE PileInv' /\ MovedByRule
  OBVIOUS
<1>1. CASE Pump
  BY <1>1, TurnStepsPiles, BlockPiles, RunActionPiles, SentinelPiles, CardPlayPiles,
     MonsterStepsPiles, SweepPiles DEF Pump
<1>2. CASE BeginFirstTurn \/ User
  BY <1>2, TurnStepsPiles, UserPiles
<1>3. CASE UNCHANGED vars
  <2>1. PilesApart' /\ MovedByRule
    BY <1>3, SamePiles DEF vars, PileInv
  <2>2. Rest' /\ (Working => Claims)'
    BY <1>3 DEF vars, control, piles, PileInv, Rest, ChoicePending, ChoiceRequiresUser, Working,
                Claims, HeldInLimbo
  <2> QED BY <2>1, <2>2 DEF PileInv
<1> QED BY <1>1, <1>2, <1>3 DEF Next

\* Outside a sweep nothing is set aside.
Unswept == terminal.stage = "idle" => terminal = NoTerminal

LEMMA UnsweptNext == TypeInv /\ Unswept /\ [Next]_vars => Unswept'
<1> SUFFICES ASSUME TypeInv, Unswept, [Next]_vars PROVE Unswept'
  OBVIOUS
<1>1. terminal \in [kind : TerminalKinds, stage : {"idle", "sort", "drain"},
                    kept : Seq(GoodItem), post : Seq(GoodItem)]
  BY DEF TypeInv, ControlType
<1>2. CASE BeginTerminal \/ SortItem
  <2>1. CASE BeginTerminal
    BY <2>1 DEF BeginTerminal, Sweep, Unswept
  <2>2. CASE SortItem /\ actionQueue # << >>
    BY <1>1, <2>2 DEF SortItem, Unswept
  <2>3. CASE SortItem /\ actionQueue = << >>
    BY <1>1, <2>3 DEF SortItem, Unswept
  <2> QED BY <1>2, <2>1, <2>2, <2>3
<1>3. CASE DrainStep
  BY <1>1, <1>3 DEF DrainStep, Draining, Unswept
<1>4. CASE FinishTerminal
  BY <1>4 DEF FinishTerminal, Unswept
<1>5. CASE terminal' = terminal
  BY <1>5 DEF Unswept
<1> QED
  BY <1>2, <1>3, <1>4, <1>5
    DEF Next, Pump, BeginFirstTurn, BlockOnChoice, RunAction, RunSentinel, RunCardPlay,
        QueueMonsters, RunMonster, StartSubsequentTurn, WaitForUser, fixtures, User, PlayCard,
        Choose, EndTurn, DrinkChaos, DrinkSmoke, board, vars, control

LEMMA SpecTypeAndPiles == Spec => [](TypeInv /\ Unswept /\ PileInv)
<1>1. Init => Unswept
  BY DEF Init, Unswept
<1> QED BY <1>1, TypeInit, TypeNext, UnsweptNext, PileInit, PileNext, PTL DEF Spec

\* Whatever is drawn, played, autoplayed, chosen, burnt or filed, and whoever dies
\* meanwhile: a card is in one pile at a time (piles.cpp, card_play.cpp:313-326).
THEOREM CardsInOnePile == Spec => []OnePileEach
<1>1. PileInv => OnePileEach
  BY DEF PileInv, PilesApart
<1> QED BY <1>1, SpecTypeAndPiles, PTL

\* Havoc's mark never outlives the play it was made for (interp_cards.cpp:1254-1256,
\* 1463-1469): a marked card is in no pile it could be played from.
THEOREM HavocMarksEnd == Spec => []HavocMarksOnePlay
<1>1. PileInv => HavocMarksOnePlay
  BY DEF PileInv, PilesApart
<1> QED BY <1>1, SpecTypeAndPiles, PTL

\* A card leaves the fight only as a power that took effect or an autoplayed attack
\* without a target, and none comes in (interp_cards.cpp:1414-1491,
\* card_play.cpp:704-712).
THEOREM NoCardLost == Spec => CardsLeaveOnlyByRule
<1>1. TypeInv /\ PileInv /\ [Next]_vars =>
        [ /\ InPlay' \subseteq InPlay
          /\ InPlay \ InPlay' \subseteq {c \in limbo : IsPower(c) \/ NeedsEnemy(c)} ]_vars
  BY PileNext DEF MovedByRule
<1> QED BY <1>1, SpecTypeAndPiles, PTL DEF Spec, CardsLeaveOnlyByRule

(***************************************************************************)
(* No card is stranded where nothing empties the card queue.  An Awakened  *)
(* One does it when it is put down, and Time Warp at its limit: the card   *)
(* that was queued to be played then stays in limbo, as the run that looks *)
(* for it shows.  In every other fight a card in limbo is named by the     *)
(* play that will take it out or by the item that will file it, and by     *)
(* then an item that was kept from the sweep counts.                       *)
(***************************************************************************)
TameKinds == MonsterKinds \ {"reviver", "clock"}
TameMonster == {m \in MonsterType : m.kind \in TameKinds}
CalmItem == {x \in GoodItem : x.op # "CLEAR_CARD_QUEUE"}

Tame == monsters \in Seq(TameMonster)
Calm ==
  /\ actionQueue \in Seq(CalmItem)
  /\ terminal.kept \in Seq(CalmItem)
  /\ terminal.post \in Seq(CalmItem)
Filed ==
  limbo \subseteq Named(cardQueue) \cup Named(actionQueue)
                    \cup Named(terminal.kept) \cup Named(terminal.post)

FilingInv == Tame /\ Calm /\ Filed

LEMMA CalmQueue ==
  ASSUME NEW q \in Seq(GoodItem), \A k \in DOMAIN q : q[k].op # "CLEAR_CARD_QUEUE"
  PROVE  q \in Seq(CalmItem)
<1>1. \A k \in 1 .. Len(q) : q[k] \in CalmItem
  BY ElementOfSeq, LenProperties DEF CalmItem
<1>2. q \in [1 .. Len(q) -> CalmItem] /\ Len(q) \in Nat
  BY <1>1, LenProperties
<1> QED BY <1>2

LEMMA TameSlot ==
  ASSUME Tame, NEW i \in Slots
  PROVE  monsters[i] \in TameMonster /\ i \in 1 .. Len(monsters)
BY ElementOfSeq DEF Tame, Slots

LEMMA ExecuteTame ==
  ASSUME Tame, BoardType, NEW item \in GoodItem, NEW q, Execute(item, q)
  PROVE  Tame'
<1>0. ASSUME NEW m \in TameMonster, item.tgt \in Slots,
             monsters' = [monsters EXCEPT ![item.tgt] = m]
      PROVE  Tame'
  BY <1>0, TameSlot, ExceptSeq DEF Tame
<1>1. CASE item.op = "DAMAGE" /\ ExecDamage(item, q)
  <2> DEFINE hit == [monsters[item.tgt] EXCEPT !.hp = IF @ > 0 THEN @ - 1 ELSE 0]
  <2>1. CASE ~AttackerCancelled(item) /\ item.tgt \in Slots
    <3>1. HitMonster(item, q)
      BY <1>1, <2>1 DEF ExecDamage
    <3>2. hit \in MonsterType /\ hit.kind \in TameKinds
      BY <2>1, TameSlot DEF TameMonster, MonsterType
    <3>3. AfterDamage(hit) \in TameMonster
      BY <3>2, AfterDamageType DEF BoardType, AfterDamage, TameMonster, MonsterType
    <3> QED BY <1>0, <2>1, <3>1, <3>3 DEF HitMonster
  <2>2. CASE AttackerCancelled(item) \/ item.tgt \notin Slots
    BY <1>1, <2>2 DEF ExecDamage, HitPlayer, Tame
  <2> QED BY <2>1, <2>2
<1>2. CASE item.op = "HEAL" /\ ExecHeal(item, q)
  <2>1. CASE item.tgt \in Slots /\ ~IsDying(monsters[item.tgt])
    <3>1. [monsters[item.tgt] EXCEPT !.hp = MonsterMaxHp, !.half = FALSE] \in TameMonster
      BY <2>1, TameSlot, FightAssumption DEF TameMonster, MonsterType
    <3> QED BY <1>0, <1>2, <2>1, <3>1 DEF ExecHeal
  <2>2. CASE ~(item.tgt \in Slots /\ ~IsDying(monsters[item.tgt]))
    BY <1>2, <2>2 DEF ExecHeal, Tame
  <2> QED BY <2>1, <2>2
<1>3. CASE item.op = "SPAWN_MONSTER" /\ ExecSpawn(item, q)
  <2> DEFINE n == Len(monsters)
             at == IF item.tgt > n + 1 THEN n + 1 ELSE item.tgt
             born == Monster(n + 1, "slime", item.n)
  <2>1. n \in Nat /\ item.tgt \in Nat \ {0} /\ item.n \in Nat
    BY <1>3 DEF BoardType, GoodItem, ItemType
  <2>2. at \in 1 .. n + 1
    BY <2>1
  <2>3. born \in TameMonster
    BY <2>1, MonsterIsTyped DEF MonsterKinds, TameMonster, TameKinds, Monster
  <2>4. monsters' = SubSeq(monsters, 1, at - 1) \o <<born>> \o SubSeq(monsters, at, n)
    BY <1>3 DEF ExecSpawn, SpawnMonster
  <2> HIDE DEF at, born
  <2>5. \A i \in 1 .. n : monsters[i] \in TameMonster
    BY ElementOfSeq DEF Tame
  <2>6. /\ SubSeq(monsters, 1, at - 1) \in Seq(TameMonster)
        /\ SubSeq(monsters, at, n) \in Seq(TameMonster)
    BY <2>1, <2>2, <2>5, SubSeqProperties DEF Tame
  <2> QED BY <2>3, <2>4, <2>6 DEF Tame
<1>4. CASE item.op \in {"SUICIDE", "ESCAPE", "SET_MOVE", "ROLL_MOVE"} /\ ExecMonster(item, q)
  <2>1. CASE item.tgt \in Slots
    <3>1. ChangedMonster(item) \in TameMonster
      <4>1. monsters[item.tgt] \in MonsterType /\ monsters[item.tgt].kind \in TameKinds
        BY <2>1, TameSlot DEF TameMonster
      <4>2. ChangedMonster(item) \in MonsterType
        BY <4>1 DEF ChangedMonster, ForcedPlan, MonsterType, Plans
      <4>3. ChangedMonster(item).kind = monsters[item.tgt].kind
        BY <4>1 DEF ChangedMonster, MonsterType
      <4> QED BY <4>1, <4>2, <4>3 DEF TameMonster
    <3> QED BY <1>0, <1>4, <2>1, <3>1 DEF ExecMonster
  <2>2. CASE item.tgt \notin Slots
    BY <1>4, <2>2 DEF ExecMonster, Tame
  <2> QED BY <2>1, <2>2
<1>5. CASE UNCHANGED monsters
  BY <1>5 DEF Tame
<1> QED
  BY <1>1, <1>2, <1>3, <1>4, <1>5
    DEF Execute, ExecDraw, ExecUseCard, ExecPlayTopDraw, ExecPlayCard, AutoplayTop,
        ExecChooseCard, ExecDiscardHand, ExecClearCardQueue, ExecCannotLose, fight

LEMMA ExecuteCalm ==
  ASSUME Tame, BoardType, NEW item \in CalmItem, NEW q \in Seq(CalmItem), Execute(item, q)
  PROVE  actionQueue' \in Seq(CalmItem)
<1>0. item \in GoodItem /\ q \in Seq(GoodItem) /\ item.tgt \in Nat /\ item.src \in Nat
  <2>1. CalmItem \subseteq GoodItem
    BY DEF CalmItem
  <2> QED BY <2>1, SeqMonotonic DEF GoodItem, ItemType
<1>1. CASE item.op = "DAMAGE" /\ ExecDamage(item, q)
  <2> DEFINE hit == [monsters[item.tgt] EXCEPT !.hp = IF @ > 0 THEN @ - 1 ELSE 0]
  <2>0. \A tgt \in Nat : /\ Damage(tgt, Player, Thorns) \in CalmItem
                         /\ Damage(Player, tgt, Thorns) \in CalmItem
                         /\ Act("ESCAPE", tgt, 0) \in CalmItem
                         /\ Act("SET_MOVE", tgt, 0) \in CalmItem
    BY DamageIsGood, ActIsGood DEF CalmItem, Damage, Act, Item, Opcodes, Player, Thorns
  <2>1. CASE ~AttackerCancelled(item) /\ item.tgt \in Slots
    <3>1. PICK leaving \in InOrder(Departing(item, hit)) :
            actionQueue' = Reaction(item, hit) \o q \o Departures(leaving)
                             \o ForcedMove(item, hit)
      BY <1>1, <2>1 DEF ExecDamage, HitMonster
    <3>2. hit.kind \in TameKinds
      BY <2>1, TameSlot DEF TameMonster, MonsterType
    <3>3. Reaction(item, hit) \in Seq(CalmItem) /\ ForcedMove(item, hit) \in Seq(CalmItem)
      <4> HIDE DEF hit
      <4>1. ~DownedNow(hit)
        BY <3>2 DEF DownedNow, TameKinds
      <4>2. << >> \in Seq(CalmItem)
        BY EmptySeq
      <4> QED BY <1>0, <2>0, <4>1, <4>2, OneIsSeq DEF Reaction, ForcedMove
    <3>4. Departures(leaving) \in Seq(CalmItem)
      <4>1. IsFiniteSet(Departing(item, hit)) /\ Departing(item, hit) \subseteq Nat
        <5>1. Departing(item, hit) \subseteq Slots
          BY DEF Departing
        <5> QED BY <5>1, SlotsFinite, FS_Subset
      <4>2. leaving \in Seq(Nat)
        BY <3>1, <4>1, InOrderType, SeqMonotonic
      <4>3. \A i \in 1 .. Len(leaving) : Act("ESCAPE", leaving[i], 0) \in CalmItem
        BY <2>0, <4>2, ElementOfSeq
      <4>4. Departures(leaving) \in [1 .. Len(leaving) -> CalmItem] /\ Len(leaving) \in Nat
        BY <4>2, <4>3 DEF Departures
      <4> QED BY <4>4
    <3> HIDE DEF hit
    <3> QED BY <3>1, <3>3, <3>4, ConcatProperties
  <2>2. CASE AttackerCancelled(item) \/ item.tgt \notin Slots
    <3>1. \/ actionQueue' = q
          \/ actionQueue' = <<Damage(Player, item.src, Thorns)>> \o q
      BY <1>1, <2>2 DEF ExecDamage, HitPlayer
    <3>2. <<Damage(Player, item.src, Thorns)>> \in Seq(CalmItem)
      BY <1>0, <2>0, OneIsSeq
    <3> QED BY <3>1, <3>2, ConcatProperties
  <2> QED BY <2>1, <2>2
<1>2. CASE item.op # "DAMAGE"
  <2>1. PICK pre \in Seq(Answers), post \in Seq(Sequels) :
          actionQueue' = pre \o q \o post /\ pre = << >>
    BY <1>0, <1>2, ExecuteQueue
  <2>2. post \in Seq(CalmItem) /\ << >> \in Seq(CalmItem)
    <3>1. Sequels \subseteq CalmItem
      BY DEF Sequels, CalmItem
    <3> QED BY <3>1, SeqMonotonic, EmptySeq
  <2> QED BY <2>1, <2>2, ConcatProperties
<1> QED BY <1>1, <1>2 DEF Execute

\* Only a use takes a card out of limbo, and it is the use that names it; nobody
\* empties the card queue.
LEMMA ExecuteLimbo ==
  ASSUME Tame, BoardType, NEW item \in CalmItem, NEW q \in Seq(CalmItem), Execute(item, q)
  PROVE  /\ limbo' \subseteq limbo \cup Named(cardQueue')
         /\ Named(cardQueue) \subseteq Named(cardQueue')
         /\ item.card \notin limbo' \ Named(cardQueue')
<1>0. item \in GoodItem
  BY DEF CalmItem
<1>1. CASE item.op = "USE_CARD" /\ ExecUseCard(item, q)
  <2>1. ~TimeWarpTicks
    BY TameSlot DEF TimeWarpTicks, TameMonster, TameKinds
  <2> QED BY <1>1, <2>1 DEF ExecUseCard, FileFromLimbo
<1>2. ASSUME NEW byHavoc \in BOOLEAN, NEW tgt \in Nat, AutoplayTop(byHavoc, tgt, q),
             item.op # "USE_CARD"
      PROVE  /\ limbo' \subseteq limbo \cup Named(cardQueue')
             /\ Named(cardQueue) \subseteq Named(cardQueue')
             /\ item.card \notin limbo'
  <2>0. item.card = NoCard /\ NoCard \notin limbo'
    <3>1. BoardType'
      <4>1. q \in Seq(GoodItem)
        BY SeqMonotonic DEF CalmItem
      <4> QED BY <1>2, <4>1, AutoplayType
    <3> QED BY <1>0, <1>2, <3>1, CardAssumption DEF GoodItem, BoardType
  <2> DEFINE source == IF draw = {} THEN discard ELSE draw
  <2>1. CASE source = {}
    BY <1>2, <2>0, <2>1 DEF AutoplayTop, cards, piles
  <2>2. CASE source # {}
    <3>1. PICK c \in source :
            /\ limbo' = limbo \cup {c}
            /\ cardQueue' = IF byHavoc THEN QueuedOnTop(cardQueue, Play(c, tgt))
                            ELSE Append(cardQueue, Play(c, tgt))
      BY <1>2, <2>2 DEF AutoplayTop
    <3>2. c \in Card /\ c # NoCard /\ Play(c, tgt) \in PlayType /\ Play(c, tgt).card = c
      BY <3>1, CardAssumption, PlayIsTyped DEF BoardType, Play
    <3> HIDE DEF source
    <3>3. Named(cardQueue') = Named(cardQueue) \cup {c}
      <4>1. CASE ~byHavoc
        <5>1. cardQueue' = Append(cardQueue, Play(c, tgt)) /\ cardQueue \in Seq(PlayType)
          BY <3>1, <4>1 DEF BoardType
        <5>2. Named(Append(cardQueue, Play(c, tgt))) =
                (Named(cardQueue) \cup {Play(c, tgt).card}) \ {NoCard}
          BY <3>2, <5>1, NamedByAppend
        <5>3. NoCard \notin Named(cardQueue)
          BY DEF Named
        <5> QED BY <3>2, <5>1, <5>2, <5>3
      <4>2. CASE byHavoc /\ cardQueue = << >>
        BY <3>1, <3>2, <4>2 DEF QueuedOnTop, Named
      <4>3. CASE byHavoc /\ cardQueue # << >>
        <5> DEFINE r == <<Head(cardQueue), Play(c, tgt)>> \o Tail(cardQueue)
        <5>1. cardQueue' = r
          BY <3>1, <4>3 DEF QueuedOnTop
        <5>2. r = <<Head(cardQueue), Play(c, tgt)>> \o Tail(cardQueue)
          OBVIOUS
        <5>3. cardQueue \in Seq(PlayType) /\ Len(cardQueue) \in Nat \ {0}
              /\ DOMAIN cardQueue = 1 .. Len(cardQueue)
          BY <4>3, LenProperties, EmptySeq DEF BoardType
        <5> HIDE DEF r
        <5>4. /\ \A i \in DOMAIN r :
                   \/ i = 1 /\ r[i] = cardQueue[1]
                   \/ i = 2 /\ r[i] = Play(c, tgt)
                   \/ i > 2 /\ i - 1 \in DOMAIN cardQueue /\ r[i] = cardQueue[i - 1]
              /\ DOMAIN r = 1 .. Len(cardQueue) + 1
          BY <3>2, <4>3, <5>2, <5>3, NamedByQueuedOnTop
        <5>5. Named(r) \subseteq Named(cardQueue) \cup {c}
          BY <3>2, <5>3, <5>4 DEF Named
        <5>6. \A i \in DOMAIN cardQueue : \E j \in DOMAIN r : r[j] = cardQueue[i]
          <6> SUFFICES ASSUME NEW i \in DOMAIN cardQueue
                       PROVE  \E j \in DOMAIN r : r[j] = cardQueue[i]
            OBVIOUS
          <6>1. CASE i = 1
            <7>1. 1 \in DOMAIN r /\ ~(1 = 2) /\ ~(1 > 2)
              BY <5>3, <5>4
            <7> QED BY <5>4, <6>1, <7>1
          <6>2. CASE i # 1
            <7>1. i + 1 \in DOMAIN r /\ i + 1 # 1 /\ i + 1 # 2 /\ i + 1 - 1 = i
              BY <5>3, <5>4, <6>2
            <7> QED BY <5>4, <7>1
          <6> QED BY <6>1, <6>2
        <5>7. 2 \in DOMAIN r /\ r[2] = Play(c, tgt)
          BY <5>3, <5>4
        <5>8. Named(cardQueue) \subseteq Named(r)
          BY <5>6 DEF Named
        <5>9. c \in Named(r)
          BY <3>2, <5>7 DEF Named
        <5> QED BY <5>1, <5>5, <5>8, <5>9
      <4> QED BY <4>1, <4>2, <4>3
    <3> QED BY <2>0, <3>1, <3>3
  <2> QED BY <2>1, <2>2
<1>3. CASE item.op = "PLAY_TOP_DRAW" /\ ExecPlayTopDraw(item, q)
  <2>1. PICK tgt \in RandomTargets : AutoplayTop(TRUE, tgt, q)
    BY <1>3 DEF ExecPlayTopDraw
  <2>2. tgt \in Nat
    BY <2>1, SlotsFinite DEF RandomTargets, Targets, Player
  <2> QED BY <1>2, <1>3, <2>1, <2>2
<1>4. CASE item.op = "PLAY_CARD" /\ ExecPlayCard(item, q)
  BY <1>0, <1>2, <1>4 DEF ExecPlayCard, GoodItem, ItemType
<1>5. CASE UNCHANGED <<limbo, cardQueue>> /\ item.op # "USE_CARD"
  <2>1. item.card = NoCard /\ NoCard \notin limbo
    BY <1>0, <1>5, CardAssumption DEF GoodItem, BoardType
  <2> QED BY <1>5, <2>1
<1> QED
  BY <1>1, <1>3, <1>4, <1>5
    DEF Execute, ExecDraw, ExecDamage, ExecHeal, ExecChooseCard, ExecDiscardHand,
        ExecCannotLose, ExecSpawn, ExecMonster, cards, piles, CalmItem

\* A pump step that runs the head of the queue keeps every filing.
LEMMA ExecuteFiling ==
  ASSUME TypeInv, FilingInv, actionQueue # << >>,
         Execute(Head(actionQueue), Tail(actionQueue)),
         terminal'.kept = terminal.kept, terminal'.post = terminal.post
  PROVE  FilingInv'
<1> DEFINE item == Head(actionQueue)
           q == Tail(actionQueue)
<1>1. item \in CalmItem /\ q \in Seq(CalmItem) /\ item \in GoodItem /\ q \in Seq(GoodItem)
      /\ BoardType /\ actionQueue \in Seq(GoodItem)
  BY DEF FilingInv, Calm, TypeInv, BoardType
<1>2. Named(actionQueue) \subseteq Named(q) \cup {item.card}
  BY <1>1, NamedByTail
<1>3. Execute(item, q)
  OBVIOUS
<1> HIDE DEF item, q
<1>4. Named(actionQueue') = Named(q)
  BY <1>1, <1>3, ExecuteNames
<1>5. Tame' /\ Calm'
  BY <1>1, <1>3, ExecuteTame, ExecuteCalm DEF FilingInv, Calm
<1>6. /\ limbo' \subseteq limbo \cup Named(cardQueue')
      /\ Named(cardQueue) \subseteq Named(cardQueue')
      /\ item.card \notin limbo' \ Named(cardQueue')
  BY <1>1, <1>3, ExecuteLimbo DEF FilingInv
<1>7. Filed'
  BY <1>2, <1>4, <1>6 DEF FilingInv, Filed
<1> QED BY <1>5, <1>7 DEF FilingInv

\* What the user, the turns and the monsters queue empties no card queue.
LEMMA CalmPrograms ==
  ASSUME TypeInv
  PROVE  /\ \A n \in Nat : <<Act("DRAW", Player, n)>> \in Seq(CalmItem)
         /\ \A burns \in Seq(Card) :
              BurnProgram(burns) \o <<Act("DISCARD_HAND", Player, 0)>> \in Seq(CalmItem)
         /\ \A c \in Card, tgt \in Nat :
              Effects(c, tgt) \o <<UseCard(c, Trigger)>> \in Seq(CalmItem)
         /\ \A c \in Card : <<UseCard(c, DontTrigger)>> \in Seq(CalmItem)
         /\ \A i \in Slots : MoveProgram(i) \in Seq(CalmItem)
         /\ << >> \in Seq(CalmItem)
<1>1. \A n \in Nat : Act("DRAW", Player, n) \in CalmItem
  BY ActIsGood DEF Opcodes, Player, CalmItem, Act, Item
<1>2. \A c \in Card, t \in {Trigger, DontTrigger} : UseCard(c, t) \in CalmItem
  BY UseCardIsGood DEF CalmItem, UseCard, Item
<1>3. Act("DISCARD_HAND", Player, 0) \in CalmItem
  BY ActIsGood DEF Opcodes, Player, CalmItem, Act, Item
<1>4. ASSUME NEW burns \in Seq(Card)
      PROVE  BurnProgram(burns) \o <<Act("DISCARD_HAND", Player, 0)>> \in Seq(CalmItem)
  <2>1. \A k \in DOMAIN BurnProgram(burns) : BurnProgram(burns)[k].op # "CLEAR_CARD_QUEUE"
    BY DEF BurnProgram, Damage, UseCard, Item
  <2>2. BurnProgram(burns) \in Seq(CalmItem)
    BY <2>1, BurnProgramType, CalmQueue
  <2> QED BY <1>3, <2>2, OneIsSeq, ConcatProperties
<1>5. ASSUME NEW c \in Card, NEW tgt \in Nat
      PROVE  Effects(c, tgt) \o <<UseCard(c, Trigger)>> \in Seq(CalmItem)
  <2>1. \A k \in DOMAIN Effects(c, tgt) : Effects(c, tgt)[k].op # "CLEAR_CARD_QUEUE"
    BY DEF Effects, Damage, Act, Item
  <2>2. Effects(c, tgt) \in Seq(CalmItem)
    BY <2>1, EffectsType, CalmQueue
  <2> QED BY <1>2, <2>2, OneIsSeq, ConcatProperties
<1>6. ASSUME NEW i \in Slots PROVE MoveProgram(i) \in Seq(CalmItem)
  <2>1. \A k \in DOMAIN MoveProgram(i) : MoveProgram(i)[k].op # "CLEAR_CARD_QUEUE"
    BY DEF MoveProgram, Damage, Act, Item
  <2> QED BY <2>1, MoveProgramType, CalmQueue DEF TypeInv
<1> QED BY <1>1, <1>2, <1>4, <1>5, <1>6, OneIsSeq, EmptySeq

LEMMA FilingInit ==
  ASSUME \A met \in Encounters : \A i \in DOMAIN met : met[i] \in TameKinds
  PROVE  Init => FilingInv
<1> SUFFICES ASSUME Init PROVE FilingInv
  OBVIOUS
<1>1. PICK met \in Encounters :
        monsters = [i \in 1 .. Len(met) |-> Monster(i, met[i], MonsterMaxHp)]
  BY DEF Init
<1>2. Len(met) \in Nat /\ \A i \in 1 .. Len(met) : met[i] \in TameKinds
  BY FightAssumption, ElementOfSeq, LenProperties
<1>3. \A i \in 1 .. Len(met) : Monster(i, met[i], MonsterMaxHp) \in TameMonster
  BY <1>2, FightAssumption, MonsterIsTyped DEF TameMonster, TameKinds, Monster
<1>4. monsters \in [1 .. Len(met) -> TameMonster]
  BY <1>1, <1>3
<1>5. Tame
  BY <1>2, <1>4 DEF Tame
<1>6. Calm
  BY EmptySeq DEF Init, Calm, NoTerminal, Sweep
<1>7. Filed
  BY DEF Init, Filed
<1> QED BY <1>5, <1>6, <1>7 DEF FilingInv

LEMMA FilingPump ==
  ASSUME TypeInv, Unswept, PileInv, FilingInv, BeginFirstTurn \/ Pump
  PROVE  FilingInv'
<1> USE DEF FilingInv
<1>1. CASE BlockOnChoice
  BY <1>1 DEF BlockOnChoice, fixtures, piles, Tame, Calm, Filed
<1>2. CASE RunAction
  <2>1. CASE RunMonsterStartTurn
    <3>1. /\ actionQueue' = Tail(actionQueue) /\ actionQueue # << >>
          /\ Head(actionQueue).op = "MONSTER_START_TURN"
          /\ UNCHANGED <<limbo, cardQueue, monsters, terminal>>
      BY <1>2, <2>1 DEF RunAction, RunMonsterStartTurn, cards, piles, fight, fixtures
    <3>2. Head(actionQueue) \in GoodItem /\ Tail(actionQueue) \in Seq(CalmItem)
      BY <3>1 DEF Calm, TypeInv, BoardType
    <3>3. Head(actionQueue).card = NoCard
      BY <3>1, <3>2 DEF GoodItem
    <3>4. Named(actionQueue) \subseteq Named(Tail(actionQueue)) \cup {NoCard}
      BY <3>1, <3>3, NamedByTail DEF TypeInv, BoardType
    <3>5. NoCard \notin limbo
      BY CardAssumption DEF TypeInv, BoardType
    <3> QED BY <3>1, <3>2, <3>4, <3>5 DEF Tame, Calm, Filed
  <2>2. CASE Execute(Head(actionQueue), Tail(actionQueue))
    BY <1>2, <2>2, ExecuteFiling DEF RunAction, fixtures
  <2> QED BY <1>2, <2>1, <2>2 DEF RunAction
<1>3. CASE RunSentinel
  <2> DEFINE burning == {c \in hand : EndOfTurnTrigger(c)}
  <2>1. /\ actionQueue = << >> /\ cardQueue # << >> /\ Head(cardQueue).card = NoCard
        /\ limbo' = limbo \cup burning /\ cardQueue' = Tail(cardQueue)
        /\ UNCHANGED <<monsters, terminal>>
    BY <1>3 DEF RunSentinel, IsSentinel, fight, fixtures
  <2>2. PICK burns \in Arrangements(burning) :
          actionQueue' = BurnProgram(burns) \o <<Act("DISCARD_HAND", Player, 0)>>
    BY <1>3 DEF RunSentinel
  <2>3. IsFiniteSet(burning) /\ burning \subseteq Card
    BY CardAssumption, FS_Subset DEF TypeInv, BoardType
  <2> HIDE DEF burning
  <2>4. burns \in Seq(Card) /\ Len(burns) = Cardinality(burning)
    <3>1. Cardinality(burning) \in Nat
      BY <2>3, FS_CardinalityType
    <3>2. burns \in [1 .. Cardinality(burning) -> Card]
      BY <2>2, <2>3 DEF Arrangements
    <3> QED BY <3>1, <3>2
  <2>5. actionQueue' \in Seq(CalmItem)
    BY <2>2, <2>4, CalmPrograms
  <2>6. burning \subseteq Named(actionQueue')
    <3> SUFFICES ASSUME NEW c \in burning PROVE c \in Named(actionQueue')
      OBVIOUS
    <3>1. PICK i \in 1 .. Len(burns) : burns[i] = c
      BY <2>2, <2>4 DEF Arrangements
    <3> DEFINE b == BurnProgram(burns)
               last == <<Act("DISCARD_HAND", Player, 0)>>
    <3>2. 2 * i \in 1 .. 2 * Len(burns) /\ (2 * i) % 2 # 1 /\ (2 * i) \div 2 = i
      BY <2>4
    <3>3. 2 * i \in DOMAIN b /\ b[2 * i].card = c
      BY <3>1, <3>2 DEF BurnProgram, UseCard, Item
    <3>4. b \in Seq(GoodItem) /\ last \in Seq(GoodItem)
      <4>1. Act("DISCARD_HAND", Player, 0) \in GoodItem
        BY ActIsGood DEF Opcodes, Player
      <4> QED BY <2>4, <4>1, BurnProgramType
    <3>5. actionQueue' = b \o last
      BY <2>2
    <3> HIDE DEF b, last
    <3>6. 2 * i \in DOMAIN (b \o last) /\ (b \o last)[2 * i] = b[2 * i]
      BY <3>3, <3>4, ConcatProperties, LenProperties
    <3>7. c # NoCard
      BY <2>3, CardAssumption
    <3> QED BY <3>3, <3>5, <3>6, <3>7 DEF Named
  <2>7. Named(cardQueue) \subseteq Named(cardQueue') \cup {NoCard}
    BY <2>1, NamedByTail DEF TypeInv, BoardType
  <2>8. NoCard \notin limbo
    BY CardAssumption DEF TypeInv, BoardType
  <2>9. Filed'
    BY <2>1, <2>6, <2>7, <2>8, NamedByNone DEF Filed
  <2> QED BY <2>1, <2>5, <2>9 DEF Tame, Calm
<1>4. CASE RunCardPlay
  <2> DEFINE play == Head(cardQueue)
             c == play.card
  <2>1. /\ actionQueue = << >> /\ cardQueue # << >> /\ c # NoCard
        /\ cardQueue' = Tail(cardQueue) /\ UNCHANGED <<monsters, terminal>>
    BY <1>4 DEF RunCardPlay, IsSentinel, fight, fixtures
  <2>2. c \in Card /\ play.tgt \in Nat
    <3>1. play \in PlayType
      BY <2>1 DEF TypeInv, BoardType
    <3> QED BY <2>1, <3>1 DEF PlayType
  <2>3. Named(cardQueue) \subseteq Named(cardQueue') \cup {c}
    BY <2>1, NamedByTail DEF TypeInv, BoardType
  <2>4. actionQueue' \in Seq(CalmItem) /\ limbo' \subseteq (limbo \ {c}) \cup Named(actionQueue')
    <3>1. Named(<<UseCard(c, DontTrigger)>>) = {c}
      BY <2>1 DEF Named, UseCard, Item
    <3>2. CASE RejectPlay(play)
      BY <2>2, <3>1, <3>2, CalmPrograms DEF RejectPlay, Autoplaying
    <3>3. CASE VanishPlay(play)
      BY <2>1, <3>3, CalmPrograms DEF VanishPlay
    <3>4. CASE AcceptPlay(play)
      BY <2>2, <3>4, EffectsNames, CalmPrograms DEF AcceptPlay
    <3> QED BY <1>4, <3>2, <3>3, <3>4 DEF RunCardPlay
  <2> HIDE DEF play, c
  <2>5. Filed'
    BY <2>1, <2>3, <2>4, NamedByNone DEF Filed
  <2> QED BY <2>1, <2>4, <2>5 DEF Tame, Calm
<1>5. CASE QueueMonsters
  BY <1>5 DEF QueueMonsters, cards, piles, fixtures, Tame, Calm, Filed
<1>6. CASE RunMonster
  <2> DEFINE i == Head(monsterQueue)
  <2>1. actionQueue = << >> /\ UNCHANGED <<limbo, cardQueue, terminal>>
    BY <1>6 DEF RunMonster, MonstersDue, cards, piles, fixtures
  <2>2. CASE i \in Slots /\ ~BasicallyDead(monsters[i])
    <3>1. actionQueue' = MoveProgram(i)
      BY <1>6, <2>2 DEF RunMonster, TakeTurn
    <3>2. PICK plan \in NextPlans(monsters[i]) : monsters' = [monsters EXCEPT ![i].plan = plan]
      BY <1>6, <2>2 DEF RunMonster, TakeTurn
    <3> HIDE DEF i
    <3>3. monsters[i] \in MonsterType /\ monsters[i].kind \in TameKinds /\ i \in 1 .. Len(monsters)
      BY <2>2, TameSlot DEF TameMonster
    <3>4. plan \in Plans
      BY <3>2, <3>3 DEF NextPlans, MonsterType, Plans
    <3>5. [monsters[i] EXCEPT !.plan = plan] \in TameMonster
      BY <3>3, <3>4 DEF TameMonster, MonsterType
    <3>6. monsters' = [monsters EXCEPT ![i] = [monsters[i] EXCEPT !.plan = plan]]
      BY <3>2
    <3>7. Tame'
      BY <3>3, <3>5, <3>6, ExceptSeq DEF Tame
    <3> QED BY <2>1, <2>2, <3>1, <3>7, CalmPrograms, NamedByNone DEF Calm, Filed
  <2>3. CASE ~(i \in Slots /\ ~BasicallyDead(monsters[i]))
    BY <1>6, <2>1, <2>3 DEF RunMonster, Tame, Calm, Filed
  <2> QED BY <2>2, <2>3
<1>7. CASE BeginFirstTurn \/ StartSubsequentTurn \/ WaitForUser
  <2>1. UNCHANGED <<limbo, cardQueue, monsters, terminal>>
    BY <1>7 DEF BeginFirstTurn, StartSubsequentTurn, WaitForUser, cards, piles, fight, fixtures
  <2>2. actionQueue = << >>
    BY <1>7
      DEF BeginFirstTurn, StartSubsequentTurn, WaitForUser, AllServed, MonstersDue, PileInv, Rest
  <2>3. actionQueue' \in Seq(CalmItem)
    BY <1>7, CalmPrograms, TurnAssumption
      DEF BeginFirstTurn, StartSubsequentTurn, WaitForUser, StartOfTurn, Calm
  <2> QED BY <2>1, <2>2, <2>3, NamedByNone DEF Tame, Calm, Filed
<1>8. CASE BeginTerminal
  <2>1. UNCHANGED <<limbo, cardQueue, monsters, actionQueue>>
        /\ terminal'.kept = << >> /\ terminal'.post = << >>
    BY <1>8 DEF BeginTerminal, cards, piles, fight, Sweep
  <2>2. terminal.kept = << >> /\ terminal.post = << >>
    BY <1>8 DEF BeginTerminal, Unswept, NoTerminal, Sweep
  <2> QED BY <2>1, <2>2, CalmPrograms DEF Tame, Calm, Filed
<1>9. CASE SortItem
  <2> DEFINE item == Head(actionQueue)
             q == Tail(actionQueue)
  <2>1. UNCHANGED <<limbo, cardQueue, monsters>>
    BY <1>9 DEF SortItem, cards, piles, fight
  <2>2. terminal \in [kind : TerminalKinds, stage : {"idle", "sort", "drain"},
                      kept : Seq(GoodItem), post : Seq(GoodItem)]
    BY DEF TypeInv, ControlType
  <2>3. CASE actionQueue # << >>
    <3>1. item \in CalmItem /\ q \in Seq(CalmItem) /\ actionQueue \in Seq(CalmItem)
      BY <2>3 DEF Calm
    <3>2. Named(actionQueue) \subseteq Named(q) \cup {item.card}
      BY <2>3, <3>1, NamedByTail
    <3>3. \A k \in Seq(CalmItem) : /\ Append(k, item) \in Seq(CalmItem)
                                   /\ Named(Append(k, item)) = (Named(k) \cup {item.card}) \ {NoCard}
      BY <3>1, NamedByAppend, AppendProperties
    <3>4. NoCard \notin limbo
      BY CardAssumption DEF TypeInv, BoardType
    <3>5. /\ actionQueue' = q
          /\ \/ /\ terminal'.post = Append(terminal.post, item)
                /\ terminal'.kept = terminal.kept
             \/ /\ terminal'.kept = Append(terminal.kept, item)
                /\ terminal'.post = terminal.post
      BY <1>9, <2>2, <2>3 DEF SortItem
    <3> HIDE DEF item, q
    <3>6. Calm'
      BY <3>1, <3>3, <3>5 DEF Calm
    <3>7. Filed'
      <4>1. terminal.kept \in Seq(CalmItem) /\ terminal.post \in Seq(CalmItem)
        BY DEF Calm
      <4>2. /\ Named(terminal.kept) \ {NoCard} \subseteq Named(terminal'.kept)
            /\ Named(terminal.post) \ {NoCard} \subseteq Named(terminal'.post)
            /\ {item.card} \ {NoCard} \subseteq Named(terminal'.kept) \cup Named(terminal'.post)
        BY <3>3, <3>5, <4>1
      <4> QED BY <2>1, <3>2, <3>4, <3>5, <4>2 DEF Filed
    <3> QED BY <2>1, <3>6, <3>7 DEF Tame
  <2>4. CASE actionQueue = << >>
    <3>1. actionQueue' = terminal.post /\ terminal'.post = << >> /\ terminal'.kept = terminal.kept
      BY <1>9, <2>2, <2>4 DEF SortItem
    <3> QED BY <2>1, <2>4, <3>1, NamedByNone, CalmPrograms DEF Tame, Calm, Filed
  <2> QED BY <2>3, <2>4
<1>10. CASE DrainStep
  <2>1. terminal'.kept = terminal.kept /\ terminal'.post = terminal.post
    BY <1>10 DEF DrainStep, TypeInv, ControlType
  <2> QED BY <1>10, <2>1, ExecuteFiling DEF DrainStep, Draining
<1>11. CASE FinishTerminal
  <2>1. limbo' = {} /\ actionQueue' = terminal.kept \o actionQueue
        /\ terminal' = NoTerminal /\ monsters' = monsters
    BY <1>11 DEF FinishTerminal, FileFromLimbo
  <2>2. terminal'.kept = << >> /\ terminal'.post = << >>
    BY <2>1 DEF NoTerminal, Sweep
  <2>3. actionQueue' \in Seq(CalmItem)
    BY <2>1, ConcatProperties DEF Calm
  <2> QED BY <2>1, <2>2, <2>3, CalmPrograms DEF Tame, Calm, Filed
<1> QED
  BY <1>1, <1>2, <1>3, <1>4, <1>5, <1>6, <1>7, <1>8, <1>9, <1>10, <1>11 DEF Pump

LEMMA FilingUser ==
  ASSUME TypeInv, PileInv, FilingInv, User
  PROVE  FilingInv'
<1>1. UNCHANGED <<limbo, monsters, terminal>> /\ phase = "WAITING"
  BY DEF User, PlayCard, Choose, EndTurn, DrinkChaos, DrinkSmoke, UserActs, board, piles
<1>2. CASE EndTurn \/ \E c \in hand, t \in Slots : PlayCard(c, t)
  <2>1. cardQueue = << >> /\ actionQueue' = actionQueue
    BY <1>1, <1>2 DEF EndTurn, PlayCard, PileInv, Rest
  <2> QED BY <1>1, <2>1, NamedByNone DEF FilingInv, Tame, Calm, Filed
<1>3. ASSUME NEW c \in hand, Choose(c)
      PROVE  FilingInv'
  <2>1. /\ cardQueue' = cardQueue /\ actionQueue # << >>
        /\ actionQueue' = [actionQueue EXCEPT ![1].n = @ - 1]
        /\ actionQueue[1].n > 0
    BY <1>3 DEF Choose, ChoicePending, ChoiceRequiresUser
  <2>2. 1 \in DOMAIN actionQueue /\ actionQueue[1] \in CalmItem /\ actionQueue \in Seq(CalmItem)
        /\ 1 \in 1 .. Len(actionQueue)
    BY <2>1, LenProperties, EmptySeq, ElementOfSeq DEF FilingInv, Calm
  <2> DEFINE x == [actionQueue[1] EXCEPT !.n = @ - 1]
  <2>3. x \in CalmItem /\ x.card = actionQueue[1].card
    <3>1. x \in GoodItem
      BY <2>1, <2>2, CountedDownIsGood DEF CalmItem
    <3> QED BY <2>2, <3>1 DEF CalmItem, GoodItem, ItemType
  <2>4. actionQueue' = [actionQueue EXCEPT ![1] = x]
    BY <2>1
  <2> HIDE DEF x
  <2>5. actionQueue' \in Seq(CalmItem)
    BY <2>2, <2>3, <2>4, ExceptSeq
  <2>6. Named(actionQueue) \subseteq Named(actionQueue')
    BY <2>2, <2>3, <2>4 DEF Named
  <2> QED BY <1>1, <2>1, <2>5, <2>6 DEF FilingInv, Tame, Calm, Filed
<1>4. CASE DrinkChaos
  <2>1. Named(actionQueue') = Named(actionQueue) /\ cardQueue' = cardQueue
    BY <1>4, ChaosNames DEF DrinkChaos
  <2>2. actionQueue' \in Seq(CalmItem)
    <3>1. PICK tgts \in [1 .. ChaosPlays -> RandomTargets] :
            actionQueue' = actionQueue \o
                             [i \in 1 .. ChaosPlays |-> Act("PLAY_CARD", tgts[i], 0)]
      BY <1>4 DEF DrinkChaos
    <3> DEFINE plays == [i \in 1 .. ChaosPlays |-> Act("PLAY_CARD", tgts[i], 0)]
    <3>2. RandomTargets \subseteq Nat
      BY SlotsFinite DEF RandomTargets, Targets, Player, TypeInv
    <3>3. \A i \in 1 .. ChaosPlays : Act("PLAY_CARD", tgts[i], 0) \in CalmItem
      BY <3>1, <3>2, ActIsGood DEF Opcodes, CalmItem, Act, Item
    <3>4. plays \in [1 .. ChaosPlays -> CalmItem]
      BY <3>3
    <3>5. plays \in Seq(CalmItem)
      BY <3>4, TurnAssumption
    <3>6. actionQueue' = actionQueue \o plays
      BY <3>1
    <3> HIDE DEF plays
    <3> QED BY <3>5, <3>6, ConcatProperties DEF FilingInv, Calm
  <2> QED BY <1>1, <2>1, <2>2 DEF FilingInv, Tame, Calm, Filed
<1>5. CASE DrinkSmoke
  BY <1>1, <1>5 DEF DrinkSmoke, FilingInv, Tame, Calm, Filed
<1> QED BY <1>2, <1>3, <1>4, <1>5 DEF User

LEMMA FilingNext ==
  TypeInv /\ Unswept /\ PileInv /\ FilingInv /\ [Next]_vars => FilingInv'
<1> SUFFICES ASSUME TypeInv, Unswept, PileInv, FilingInv, [Next]_vars PROVE FilingInv'
  OBVIOUS
<1>1. CASE UNCHANGED vars
  BY <1>1 DEF vars, control, piles, FilingInv, Tame, Calm, Filed
<1> QED BY <1>1, FilingPump, FilingUser DEF Next

\* Where there is neither an Awakened One nor a Time Eater, every card in limbo is
\* named by the play or the use that will take it out (interp.cpp:367-372,
\* piles.hpp:120-130).  The hypothesis is about the encounters only: with either of
\* them the property fails, and a run shows how.
THEOREM CardsAreFiled ==
  ASSUME \A met \in Encounters : \A i \in DOMAIN met : met[i] \notin {"reviver", "clock"}
  PROVE  Spec => []NoCardStranded
<1>1. \A met \in Encounters : \A i \in DOMAIN met : met[i] \in TameKinds
  <2> SUFFICES ASSUME NEW met \in Encounters, NEW i \in DOMAIN met
               PROVE  met[i] \in TameKinds
    OBVIOUS
  <2>1. met[i] \in MonsterKinds
    BY FightAssumption, ElementOfSeq, LenProperties
  <2> QED BY <2>1 DEF TameKinds
<1>2. Init => FilingInv
  BY <1>1, FilingInit
<1>3. TypeInv /\ FilingInv => NoCardStranded
  <2> SUFFICES ASSUME TypeInv, FilingInv, NEW c \in Unfiled PROVE FALSE
    BY DEF NoCardStranded
  <2>1. c \in limbo /\ c # NoCard
    BY CardAssumption DEF Unfiled, TypeInv, BoardType
  <2>2. \A q \in {actionQueue, terminal.kept, terminal.post} : c \notin Named(q)
    <3> SUFFICES ASSUME NEW q \in {actionQueue, terminal.kept, terminal.post}, NEW i \in DOMAIN q,
                        q[i].card = c
                 PROVE  FALSE
      BY DEF Named
    <3>1. q \in Seq(GoodItem)
      BY DEF TypeInv, BoardType, ControlType
    <3>2. q[i] \in GoodItem
      BY <3>1, ElementOfSeq, LenProperties
    <3>3. q[i].op = "USE_CARD"
      BY <2>1, <3>2 DEF GoodItem
    <3> QED BY <3>3 DEF Unfiled
  <2>3. c \notin Named(cardQueue)
    BY DEF Unfiled, Named
  <2> QED BY <2>1, <2>2, <2>3 DEF FilingInv, Filed
<1>4. Spec => []FilingInv
  BY <1>2, FilingNext, SpecTypeAndPiles, PTL DEF Spec
<1> QED BY <1>3, <1>4, SpecTypeAndPiles, PTL

-----------------------------------------------------------------------------
(***************************************************************************)
(* The monsters' side of a fight, for every encounter and set of numbers:  *)
(* how a fight is decided, that forced moves hold, that a turn is ended    *)
(* once, and that the rounds follow CombatRound.                           *)
(***************************************************************************)

(***************************************************************************)
(* What is in a queue, without its order.                                  *)
(***************************************************************************)
Has(q, ops) == \E x \in Range(q) : x.op \in ops

LEMMA RangeOfTail ==
  ASSUME NEW S, NEW q \in Seq(S), q # << >>
  PROVE  Range(q) = {Head(q)} \cup Range(Tail(q))
<1>1. /\ Len(q) \in Nat \ {0} /\ DOMAIN q = 1 .. Len(q) /\ Head(q) = q[1]
      /\ DOMAIN Tail(q) = 1 .. Len(q) - 1
      /\ \A i \in 1 .. Len(q) - 1 : Tail(q)[i] = q[i + 1]
  BY HeadTailProperties, LenProperties, EmptySeq
<1>2. \A i \in DOMAIN q : i = 1 \/ (i - 1 \in DOMAIN Tail(q) /\ q[i] = Tail(q)[i - 1])
  BY <1>1
<1>3. \A i \in DOMAIN Tail(q) : i + 1 \in DOMAIN q /\ Tail(q)[i] = q[i + 1]
  BY <1>1
<1>4. 1 \in DOMAIN q
  BY <1>1
<1>5. Range(q) \subseteq {Head(q)} \cup Range(Tail(q))
  <2> SUFFICES ASSUME NEW i \in DOMAIN q PROVE q[i] \in {Head(q)} \cup Range(Tail(q))
    BY DEF Range
  <2> QED BY <1>1, <1>2 DEF Range
<1>6. Head(q) \in Range(q)
  BY <1>1, <1>4 DEF Range
<1>7. Range(Tail(q)) \subseteq Range(q)
  <2> SUFFICES ASSUME NEW i \in DOMAIN Tail(q) PROVE Tail(q)[i] \in Range(q)
    BY DEF Range
  <2> QED BY <1>3 DEF Range
<1> QED BY <1>5, <1>6, <1>7

LEMMA RangeOfNone == Range(<< >>) = {}
BY DEF Range

LEMMA RangeOfOne == ASSUME NEW x PROVE Range(<<x>>) = {x}
BY DEF Range

LEMMA RangeOfAppend ==
  ASSUME NEW S, NEW q \in Seq(S), NEW x \in S
  PROVE  Range(Append(q, x)) = Range(q) \cup {x}
<1>1. Append(q, x) = q \o <<x>> /\ <<x>> \in Seq(S)
  BY AppendIsConcat, OneIsSeq
<1>2. Range(q \o <<x>>) = Range(q) \cup Range(<<x>>)
  BY <1>1, RangeConcatenation
<1> QED BY <1>1, <1>2, RangeOfOne

LEMMA RangeOfThree ==
  ASSUME NEW S, NEW a \in Seq(S), NEW b \in Seq(S), NEW c \in Seq(S)
  PROVE  Range(a \o b \o c) = Range(a) \cup Range(b) \cup Range(c)
<1>1. a \o b \in Seq(S)
  BY ConcatProperties
<1>2. Range((a \o b) \o c) = Range(a \o b) \cup Range(c)
  BY <1>1, RangeConcatenation
<1>3. Range(a \o b) = Range(a) \cup Range(b)
  BY RangeConcatenation
<1> QED BY <1>2, <1>3

\* What a queue of items of one kind holds is of that kind.
LEMMA RangeIn ==
  ASSUME NEW S, NEW q \in Seq(S)
  PROVE  Range(q) \subseteq S
BY RangeOfSeq

(***************************************************************************)
(* What the execution of an item does to the records of the monsters.      *)
(***************************************************************************)
Struck(m) == [m EXCEPT !.hp = IF @ > 0 THEN @ - 1 ELSE 0]
NextRecord(item) ==
  LET m == monsters[item.tgt]
  IN  CASE item.op = "DAMAGE" /\ ~AttackerCancelled(item) -> AfterDamage(Struck(m))
        [] item.op = "HEAL" /\ ~IsDying(m) -> [m EXCEPT !.hp = MonsterMaxHp, !.half = FALSE]
        [] item.op \in {"SUICIDE", "ESCAPE", "SET_MOVE", "ROLL_MOVE"} -> ChangedMonster(item)
        [] OTHER -> m

LEMMA SlotOf ==
  ASSUME BoardType, NEW i \in Slots
  PROVE  i \in 1 .. Len(monsters) /\ i \in Nat /\ monsters[i] \in MonsterType
<1>1. i \in 1 .. Len(monsters) /\ monsters \in Seq(MonsterType)
  BY DEF Slots, BoardType
<1> QED BY <1>1, ElementOfSeq, LenProperties

LEMMA WritesOneRecord ==
  ASSUME BoardType, NEW item \in GoodItem, NEW q, Execute(item, q), item.op # "SPAWN_MONSTER"
  PROVE  /\ Slots' = Slots /\ Len(monsters') = Len(monsters)
         /\ \A i \in Slots : monsters'[i] = IF i = item.tgt THEN NextRecord(item) ELSE monsters[i]
<1>1. monsters' = IF item.tgt \in Slots THEN [monsters EXCEPT ![item.tgt] = NextRecord(item)]
                  ELSE monsters
  <2>0. ASSUME NEW i \in Slots PROVE [monsters EXCEPT ![i] = monsters[i]] = monsters
    BY SlotOf, LenProperties DEF BoardType
  <2>1. CASE item.op = "DAMAGE" /\ ExecDamage(item, q)
    BY <2>0, <2>1 DEF ExecDamage, HitMonster, HitPlayer, NextRecord, Struck
  <2>2. CASE item.op = "HEAL" /\ ExecHeal(item, q)
    BY <2>0, <2>2 DEF ExecHeal, NextRecord
  <2>3. CASE item.op \in {"SUICIDE", "ESCAPE", "SET_MOVE", "ROLL_MOVE"} /\ ExecMonster(item, q)
    BY <2>3 DEF ExecMonster, NextRecord
  <2>4. CASE /\ item.op \notin {"DAMAGE", "HEAL", "SUICIDE", "ESCAPE", "SET_MOVE", "ROLL_MOVE"}
             /\ UNCHANGED monsters
    BY <2>0, <2>4 DEF NextRecord
  <2> QED
    BY <2>1, <2>2, <2>3, <2>4
      DEF Execute, ExecDraw, ExecUseCard, ExecPlayTopDraw, ExecPlayCard, AutoplayTop,
          ExecChooseCard, ExecDiscardHand, ExecClearCardQueue, ExecCannotLose, fight
<1>2. monsters \in Seq(MonsterType) /\ DOMAIN monsters = 1 .. Len(monsters)
      /\ Len(monsters) \in Nat
  BY LenProperties DEF BoardType
<1>3. CASE item.tgt \in Slots
  <2>1. monsters' = [monsters EXCEPT ![item.tgt] = NextRecord(item)]
    BY <1>1, <1>3
  <2>2. Len(monsters') = Len(monsters)
    BY <1>2, <2>1
  <2> QED BY <1>2, <1>3, <2>1, <2>2 DEF Slots
<1>4. CASE item.tgt \notin Slots
  BY <1>1, <1>4 DEF Slots
<1> QED BY <1>3, <1>4

\* A spawn moves the records behind it up a slot.
Behind(item) == IF item.tgt > Len(monsters) + 1 THEN Len(monsters) + 1 ELSE item.tgt
Moved(item, i) == IF i >= Behind(item) THEN i + 1 ELSE i

LEMMA SpawnMovesSlots ==
  ASSUME BoardType, NEW item \in GoodItem, NEW q, item.op = "SPAWN_MONSTER", ExecSpawn(item, q)
  PROVE  /\ Len(monsters') = Len(monsters) + 1 /\ Behind(item) \in Slots'
         /\ monsters'[Behind(item)] = Monster(Len(monsters) + 1, "slime", item.n)
         /\ \A i \in Slots : Moved(item, i) \in Slots' /\ monsters'[Moved(item, i)] = monsters[i]
         /\ \A j \in Slots' : j # Behind(item) => \E i \in Slots : j = Moved(item, i)
<1> DEFINE n == Len(monsters)
           at == Behind(item)
           born == Monster(n + 1, "slime", item.n)
           a == SubSeq(monsters, 1, at - 1)
           b == <<born>>
           c == SubSeq(monsters, at, n)
<1>1. n \in Nat /\ item.tgt \in Nat \ {0} /\ item.n \in Nat
  BY LenProperties DEF BoardType, GoodItem, ItemType
<1>2. at \in 1 .. n + 1
  BY <1>1 DEF Behind
<1>3. monsters' = a \o b \o c
  BY DEF ExecSpawn, SpawnMonster, Behind
<1>4. \A i \in Slots : Moved(item, i) = IF i >= at THEN i + 1 ELSE i
  BY DEF Moved
<1>5. born \in MonsterType
  BY <1>1, MonsterIsTyped DEF MonsterKinds
<1> HIDE DEF at, born
<1>6. \A i \in 1 .. n : monsters[i] \in MonsterType
  BY ElementOfSeq DEF BoardType
<1>7. /\ a \in Seq(MonsterType) /\ Len(a) = at - 1 /\ \A i \in 1 .. at - 1 : a[i] = monsters[i]
      /\ c \in Seq(MonsterType) /\ Len(c) = n - at + 1
      /\ \A i \in 1 .. n - at + 1 : c[i] = monsters[at + i - 1]
  BY <1>1, <1>2, <1>6, SubSeqProperties DEF BoardType
<1>8. b \in Seq(MonsterType) /\ Len(b) = 1 /\ b[1] = born
  BY <1>5, OneIsSeq
<1> HIDE DEF a, b, c
<1>9. /\ a \o b \in Seq(MonsterType) /\ Len(a \o b) = at
      /\ \A i \in 1 .. at - 1 : (a \o b)[i] = a[i]
      /\ (a \o b)[at] = b[1]
  <2>1. /\ a \o b \in Seq(MonsterType) /\ Len(a \o b) = Len(a) + Len(b)
        /\ \A i \in 1 .. Len(a) + Len(b) :
             (a \o b)[i] = IF i <= Len(a) THEN a[i] ELSE b[i - Len(a)]
    BY <1>7, <1>8, ConcatProperties
  <2>2. Len(a) + Len(b) = at /\ at \in 1 .. at /\ ~(at <= Len(a)) /\ at - Len(a) = 1
    BY <1>2, <1>7, <1>8
  <2>3. \A i \in 1 .. at - 1 : i \in 1 .. at /\ i <= Len(a)
    BY <1>2, <1>7
  <2> QED BY <2>1, <2>2, <2>3
<1>10. /\ Len(monsters') = n + 1
       /\ \A i \in 1 .. at : monsters'[i] = (a \o b)[i]
       /\ \A i \in 1 .. n + 1 : i > at => monsters'[i] = c[i - at]
  <2>1. /\ Len((a \o b) \o c) = Len(a \o b) + Len(c)
        /\ \A i \in 1 .. Len(a \o b) + Len(c) :
             ((a \o b) \o c)[i] = IF i <= Len(a \o b) THEN (a \o b)[i] ELSE c[i - Len(a \o b)]
    BY <1>7, <1>9, ConcatProperties
  <2>2. Len(a \o b) + Len(c) = n + 1 /\ Len(a \o b) = at
    BY <1>1, <1>2, <1>7, <1>9
  <2>3. /\ \A i \in 1 .. at : i \in 1 .. n + 1 /\ i <= at
        /\ \A i \in 1 .. n + 1 : i > at => ~(i <= at)
    BY <1>1, <1>2
  <2> QED BY <1>3, <2>1, <2>2, <2>3
<1>11. monsters'[at] = born
  BY <1>2, <1>8, <1>9, <1>10
<1>12. ASSUME NEW i \in 1 .. n, i < at PROVE monsters'[i] = monsters[i]
  <2>1. i \in 1 .. at - 1 /\ i \in 1 .. at
    BY <1>1, <1>2, <1>12
  <2> QED BY <1>7, <1>9, <1>10, <2>1
<1>13. ASSUME NEW i \in 1 .. n, i >= at PROVE monsters'[i + 1] = monsters[i]
  <2>1. PICK j \in 1 .. n + 1 : j = i + 1
    BY <1>1
  <2>2. j > at /\ j - at \in 1 .. n - at + 1 /\ at + (j - at) - 1 = i
    BY <1>1, <1>2, <1>13, <2>1
  <2>3. monsters'[j] = c[j - at]
    BY <1>10, <2>2
  <2> QED BY <1>7, <2>1, <2>2, <2>3
<1>14. Slots = 1 .. n /\ Slots' = 1 .. n + 1
  BY <1>10 DEF Slots
<1>15. \A i \in Slots : Moved(item, i) \in Slots' /\ monsters'[Moved(item, i)] = monsters[i]
  BY <1>1, <1>2, <1>4, <1>12, <1>13, <1>14
<1>16. ASSUME NEW j \in Slots', j # at PROVE \E i \in Slots : j = Moved(item, i)
  <2>1. CASE j < at
    <3>1. j \in Slots /\ Moved(item, j) = j
      BY <1>1, <1>2, <1>4, <1>14, <2>1
    <3> QED BY <3>1
  <2>2. CASE j > at
    <3>1. j - 1 \in Slots /\ Moved(item, j - 1) = j
      BY <1>1, <1>2, <1>4, <1>14, <2>2
    <3> QED BY <3>1
  <2> QED BY <1>1, <1>2, <1>14, <1>16, <2>1, <2>2
<1> QED BY <1>2, <1>10, <1>11, <1>14, <1>15, <1>16 DEF at, born

(***************************************************************************)
(* The kinds of the records: only an Awakened One is half dead, only a     *)
(* large slime splits, only a thief runs.                                  *)
(***************************************************************************)
SoundMonster ==
  {m \in MonsterType : /\ m.half => m.kind = "reviver"
                       /\ m.split => m.kind = "splitter"
                       /\ m.plan = "flee" => m.kind = "thief"}
KindsSound == \A i \in Slots : monsters[i] \in SoundMonster

LEMMA NextRecordSound ==
  ASSUME BoardType, KindsSound, NEW item \in GoodItem, item.tgt \in Slots
  PROVE  /\ NextRecord(item) \in SoundMonster
         /\ NextRecord(item).kind = monsters[item.tgt].kind
         /\ NextRecord(item).id = monsters[item.tgt].id
<1> DEFINE m == monsters[item.tgt]
<1>1. m \in SoundMonster /\ m \in MonsterType
  BY DEF KindsSound, SoundMonster
<1>2. NextRecord(item) \in {AfterDamage(Struck(m)),
        [m EXCEPT !.hp = MonsterMaxHp, !.half = FALSE], ChangedMonster(item), m}
  BY DEF NextRecord
<1>3. Struck(m) \in MonsterType /\ Struck(m) \in SoundMonster /\ Struck(m).kind = m.kind
      /\ Struck(m).id = m.id
  BY <1>1 DEF Struck, SoundMonster, MonsterType
<1>4. AfterDamage(Struck(m)) \in SoundMonster /\ AfterDamage(Struck(m)).kind = m.kind
      /\ AfterDamage(Struck(m)).id = m.id
  <2> DEFINE s == Struck(m)
  <2>1. s \in MonsterType /\ s \in SoundMonster /\ s.kind = m.kind /\ s.id = m.id
    BY <1>3
  <2> HIDE DEF s
  <2>2. AfterDamage(s) \in MonsterType
    BY <2>1, AfterDamageType DEF BoardType
  <2>3. AfterDamage(s) \in SoundMonster /\ AfterDamage(s).kind = s.kind /\ AfterDamage(s).id = s.id
    BY <2>1, <2>2 DEF AfterDamage, SplitsNow, DownedNow, SoundMonster, MonsterType
  <2> QED BY <2>1, <2>3 DEF s
<1>5. [m EXCEPT !.hp = MonsterMaxHp, !.half = FALSE] \in SoundMonster
  BY <1>1, FightAssumption DEF SoundMonster, MonsterType
<1>6. ChangedMonster(item) \in SoundMonster /\ ChangedMonster(item).kind = m.kind
      /\ ChangedMonster(item).id = m.id
  <2>1. ChangedMonster(item) \in MonsterType
    BY <1>1 DEF ChangedMonster, ForcedPlan, MonsterType, Plans
  <2> QED BY <1>1, <2>1 DEF ChangedMonster, ForcedPlan, SoundMonster, MonsterType
<1>7. [m EXCEPT !.hp = MonsterMaxHp, !.half = FALSE].kind = m.kind
      /\ [m EXCEPT !.hp = MonsterMaxHp, !.half = FALSE].id = m.id
  BY <1>1 DEF MonsterType
<1> QED BY <1>1, <1>2, <1>4, <1>5, <1>6, <1>7

LEMMA ExecuteKinds ==
  ASSUME BoardType, KindsSound, NEW item \in GoodItem, NEW q, Execute(item, q)
  PROVE  KindsSound'
<1>1. CASE item.op # "SPAWN_MONSTER"
  BY <1>1, WritesOneRecord, NextRecordSound DEF KindsSound
<1>2. CASE item.op = "SPAWN_MONSTER"
  <2>1. ExecSpawn(item, q)
    BY <1>2 DEF Execute
  <2>2. Monster(Len(monsters) + 1, "slime", item.n) \in SoundMonster
    <3>1. Len(monsters) + 1 \in Nat /\ item.n \in Nat
      BY LenProperties DEF BoardType, GoodItem, ItemType
    <3> QED BY <3>1, MonsterIsTyped DEF SoundMonster, Monster, MonsterKinds
  <2> QED BY <1>2, <2>1, <2>2, SpawnMovesSlots DEF KindsSound
<1> QED BY <1>1, <1>2

\* A monster's turn changes its plan, and the plan of a thief only.
LEMMA TurnRecord ==
  ASSUME BoardType, NEW i \in Slots, TakeTurn(i)
  PROVE  /\ Slots' = Slots /\ Len(monsters') = Len(monsters)
         /\ \A j \in Slots : j # i => monsters'[j] = monsters[j]
         /\ monsters'[i] = [monsters[i] EXCEPT !.plan = monsters'[i].plan]
         /\ monsters'[i].plan \in NextPlans(monsters[i])
<1>1. PICK plan \in NextPlans(monsters[i]) : monsters' = [monsters EXCEPT ![i].plan = plan]
  BY DEF TakeTurn
<1>2. i \in 1 .. Len(monsters) /\ monsters[i] \in MonsterType
  BY SlotOf
<1>3. monsters \in Seq(MonsterType) /\ DOMAIN monsters = 1 .. Len(monsters)
      /\ Len(monsters) \in Nat
  BY LenProperties DEF BoardType
<1>4. monsters' = [monsters EXCEPT ![i] = [monsters[i] EXCEPT !.plan = plan]]
  BY <1>1
<1>5. monsters'[i] = [monsters[i] EXCEPT !.plan = plan] /\ monsters'[i].plan = plan
  BY <1>2, <1>3, <1>4 DEF MonsterType
<1>6. Len(monsters') = Len(monsters)
  BY <1>3, <1>4
<1> QED BY <1>1, <1>3, <1>4, <1>5, <1>6 DEF Slots
(***************************************************************************)
(* What the steps of the running fight queue.                              *)
(***************************************************************************)
Only(q, ops) == \A x \in Range(q) : x.op \in ops

LEMMA HasThree ==
  ASSUME NEW S, NEW a \in Seq(S), NEW b \in Seq(S), NEW c \in Seq(S), NEW ops
  PROVE  /\ Has(a \o b \o c, ops) <=> Has(a, ops) \/ Has(b, ops) \/ Has(c, ops)
         /\ Only(a \o b \o c, ops) <=> Only(a, ops) /\ Only(b, ops) /\ Only(c, ops)
<1>1. Range(a \o b \o c) = Range(a) \cup Range(b) \cup Range(c)
  BY RangeOfThree
<1> QED BY <1>1 DEF Has, Only

LEMMA HasTwo ==
  ASSUME NEW S, NEW a \in Seq(S), NEW b \in Seq(S), NEW ops
  PROVE  /\ Has(a \o b, ops) <=> Has(a, ops) \/ Has(b, ops)
         /\ Only(a \o b, ops) <=> Only(a, ops) /\ Only(b, ops)
<1>1. Range(a \o b) = Range(a) \cup Range(b)
  BY RangeConcatenation
<1> QED BY <1>1 DEF Has, Only

LEMMA HasTail ==
  ASSUME NEW S, NEW q \in Seq(S), q # << >>, NEW ops
  PROVE  /\ Has(q, ops) <=> Head(q).op \in ops \/ Has(Tail(q), ops)
         /\ Only(q, ops) <=> Head(q).op \in ops /\ Only(Tail(q), ops)
<1>1. Range(q) = {Head(q)} \cup Range(Tail(q))
  BY RangeOfTail
<1> QED BY <1>1 DEF Has, Only

LEMMA HasOne ==
  ASSUME NEW x, NEW ops
  PROVE  /\ Has(<<x>>, ops) <=> x.op \in ops
         /\ Only(<<x>>, ops) <=> x.op \in ops
BY RangeOfOne DEF Has, Only

LEMMA HasNone == \A ops : ~Has(<< >>, ops) /\ Only(<< >>, ops)
BY RangeOfNone DEF Has, Only

LEMMA HasNot ==
  ASSUME NEW q, NEW ops, NEW other, Only(q, ops), ops \cap other = {}
  PROVE  ~Has(q, other)
BY DEF Has, Only

\* What running an item leaves of the queue behind it, and what it adds.
LEMMA ExecuteOps ==
  ASSUME BoardType, NEW item \in GoodItem, NEW q \in Seq(GoodItem), Execute(item, q)
  PROVE  /\ item.op \notin {"DAMAGE", "DISCARD_HAND"} => actionQueue' = q
         /\ Range(q) \subseteq Range(actionQueue')
         /\ \A x \in Range(actionQueue') :
              \/ x \in Range(q)
              \/ item.op = "DAMAGE" /\ x.op \in {"DAMAGE", "CLEAR_CARD_QUEUE", "ESCAPE", "SET_MOVE"}
              \/ item.op = "DISCARD_HAND" /\ x.op = "MONSTER_START_TURN"
<1>1. PICK pre \in Seq(Answers), post \in Seq(Sequels) :
        /\ actionQueue' = pre \o q \o post
        /\ item.op # "DAMAGE" => pre = << >>
        /\ item.op \notin {"DAMAGE", "DISCARD_HAND"} => post = << >>
        /\ item.op = "DISCARD_HAND" => post = <<Act("MONSTER_START_TURN", Player, 0)>>
        /\ item.op = "DAMAGE" => \A i \in DOMAIN post : post[i].op # "MONSTER_START_TURN"
  BY ExecuteQueue
<1>2. pre \in Seq(GoodItem) /\ post \in Seq(GoodItem)
  <2>1. Answers \subseteq GoodItem /\ Sequels \subseteq GoodItem
    BY DEF Answers, Sequels
  <2> QED BY <2>1, SeqMonotonic
<1>3. Range(actionQueue') = Range(pre) \cup Range(q) \cup Range(post)
  BY <1>1, <1>2, RangeOfThree
<1>4. Range(pre) \subseteq Answers /\ Range(post) \subseteq Sequels
  BY RangeIn
<1>5. item.op \notin {"DAMAGE", "DISCARD_HAND"} => actionQueue' = q
  BY <1>1, BetweenNothing
<1>6. item.op # "DAMAGE" => Range(pre) = {}
  BY <1>1, RangeOfNone
<1>7. item.op = "DAMAGE" => \A x \in Range(post) : x.op # "MONSTER_START_TURN"
  BY <1>1 DEF Range
<1>8. item.op = "DISCARD_HAND" => \A x \in Range(post) : x.op = "MONSTER_START_TURN"
  BY <1>1, RangeOfOne DEF Act, Item
<1>9. item.op \notin {"DAMAGE", "DISCARD_HAND"} => Range(post) = {}
  BY <1>1, RangeOfNone
<1> QED BY <1>3, <1>4, <1>5, <1>6, <1>7, <1>8, <1>9 DEF Answers, Sequels

PlayOps == {"DRAW", "DAMAGE", "HEAL", "USE_CARD", "PLAY_TOP_DRAW", "DISCARD_HAND"}
ChoiceOps == {"CHOOSE_CARD", "USE_CARD", "PLAY_CARD"}

\* A card's program is that of a choice or has none in it.
LEMMA EffectsOps ==
  ASSUME NEW c \in Card, NEW tgt \in Nat
  PROVE  LET q == Effects(c, tgt) \o <<UseCard(c, Trigger)>>
         IN  (Only(q, PlayOps) \/ Only(q, ChoiceOps)) /\ ~Has(q, {"DISCARD_HAND"})
<1>1. /\ Effects(c, tgt) \in Seq(GoodItem)
      /\ <<UseCard(c, Trigger)>> \in Seq(GoodItem)
  BY EffectsType, UseCardIsGood, OneIsSeq
<1>2. /\ Only(Effects(c, tgt), PlayOps) \/ Only(Effects(c, tgt), ChoiceOps)
      /\ ~Has(Effects(c, tgt), {"DISCARD_HAND"})
  BY DEF Effects, Only, Has, Range, Damage, Act, Item, PlayOps, ChoiceOps
<1>3. /\ Only(<<UseCard(c, Trigger)>>, PlayOps) /\ Only(<<UseCard(c, Trigger)>>, ChoiceOps)
      /\ ~Has(<<UseCard(c, Trigger)>>, {"DISCARD_HAND"})
  BY HasOne DEF UseCard, Item, PlayOps, ChoiceOps
<1> QED BY <1>1, <1>2, <1>3, HasTwo

LEMMA BurnOps ==
  ASSUME NEW burns \in Seq(Card)
  PROVE  /\ Only(BurnProgram(burns), {"DAMAGE", "USE_CARD"})
         /\ \A x \in Range(BurnProgram(burns)) : x.op = "USE_CARD" => x.n = DontTrigger
BY DEF Only, Range, BurnProgram, Damage, UseCard, Item
LEMMA SentinelOps ==
  ASSUME NEW burns \in Seq(Card),
         NEW q, q = BurnProgram(burns) \o <<Act("DISCARD_HAND", Player, 0)>>
  PROVE  /\ Only(q, PlayOps)
         /\ \A x \in Range(q) : x.op = "USE_CARD" => x.n = DontTrigger
<1>1. BurnProgram(burns) \in Seq(GoodItem) /\ <<Act("DISCARD_HAND", Player, 0)>> \in Seq(GoodItem)
  BY BurnProgramType, ActIsGood, OneIsSeq DEF Opcodes, Player
<1>2. Range(q) = Range(BurnProgram(burns)) \cup Range(<<Act("DISCARD_HAND", Player, 0)>>)
  BY <1>1, RangeConcatenation
<1>3. Range(<<Act("DISCARD_HAND", Player, 0)>>) = {Act("DISCARD_HAND", Player, 0)}
  BY RangeOfOne
<1> QED BY <1>2, <1>3, BurnOps DEF Only, PlayOps, Act, Item

(***************************************************************************)
(* A step of the undecided fight runs an item, starts the monsters' turn,  *)
(* gives a monster its turn, or leaves the monsters alone: then it queues  *)
(* what a card, the turn or the user queues.                               *)
(***************************************************************************)
RunsItem ==
  /\ Running /\ actionQueue # << >> /\ ~ChoicePending
  /\ Execute(Head(actionQueue), Tail(actionQueue))
PassesMarker ==
  /\ actionQueue # << >> /\ Head(actionQueue).op = "MONSTER_START_TURN"
  /\ actionQueue' = Tail(actionQueue)
  /\ UNCHANGED <<monsters, cannotLose>>
TurnOf(i) ==
  /\ actionQueue = << >> /\ TakeTurn(i) /\ ~BasicallyDead(monsters[i])
  /\ UNCHANGED cannotLose
Quiet ==
  /\ UNCHANGED <<monsters, cannotLose>>
  /\ \/ actionQueue' = actionQueue
     \/ actionQueue = << >> /\ (Only(actionQueue', PlayOps) \/ Only(actionQueue', ChoiceOps))
     \/ /\ ChoicePending
        /\ \A x \in Range(actionQueue') :
             \/ x.op = "PLAY_CARD"
             \/ \E y \in Range(actionQueue) : x.op = y.op

LEMMA ChaosOps ==
  ASSUME TypeInv, DrinkChaos
  PROVE  \E plays \in Seq(GoodItem) :
           actionQueue' = actionQueue \o plays /\ Only(plays, {"PLAY_CARD"})
<1>1. PICK tgts \in [1 .. ChaosPlays -> RandomTargets] :
        actionQueue' = actionQueue \o
                         [i \in 1 .. ChaosPlays |-> Act("PLAY_CARD", tgts[i], 0)]
  BY DEF DrinkChaos
<1> DEFINE plays == [i \in 1 .. ChaosPlays |-> Act("PLAY_CARD", tgts[i], 0)]
<1>2. \A i \in 1 .. ChaosPlays : Act("PLAY_CARD", tgts[i], 0) \in GoodItem
  <2>1. RandomTargets \subseteq Nat
    BY SlotsFinite DEF RandomTargets, Targets, Player, TypeInv
  <2> QED BY <2>1, ActIsGood DEF Opcodes
<1>3. plays \in Seq(GoodItem)
  BY <1>2, TurnAssumption, IsASeq
<1>4. Only(plays, {"PLAY_CARD"})
  BY DEF Only, Range, Act, Item
<1> QED BY <1>1, <1>3, <1>4

LEMMA ChooseOps ==
  ASSUME TypeInv, NEW c \in hand, Choose(c)
  PROVE  /\ DOMAIN actionQueue' = DOMAIN actionQueue
         /\ \A i \in DOMAIN actionQueue : /\ actionQueue'[i].op = actionQueue[i].op
                                          /\ i # 1 => actionQueue'[i] = actionQueue[i]
         /\ actionQueue # << >> /\ Head(actionQueue).op = "CHOOSE_CARD"
         /\ actionQueue[1] = Head(actionQueue) /\ 1 \in DOMAIN actionQueue
<1>1. actionQueue' = [actionQueue EXCEPT ![1].n = @ - 1] /\ actionQueue # << >>
      /\ Head(actionQueue).op = "CHOOSE_CARD"
  BY DEF Choose, ChoicePending, ChoiceRequiresUser
<1>2. actionQueue \in Seq(GoodItem)
  BY DEF TypeInv, BoardType
<1>3. \A i \in DOMAIN actionQueue : actionQueue[i] \in ItemType
  BY <1>2, ElementOfSeq, LenProperties DEF GoodItem
<1>4. 1 \in DOMAIN actionQueue /\ actionQueue[1] = Head(actionQueue)
  BY <1>1, <1>2, LenProperties, EmptySeq, HeadTailProperties
<1> QED BY <1>1, <1>3, <1>4 DEF ItemType

LEMMA ArrangedType ==
  ASSUME NEW S, IsFiniteSet(S), S \subseteq Card, NEW burns \in Arrangements(S)
  PROVE  burns \in Seq(Card)
<1>1. Cardinality(S) \in Nat /\ burns \in [1 .. Cardinality(S) -> S]
  BY FS_CardinalityType DEF Arrangements
<1>2. burns \in [1 .. Cardinality(S) -> Card]
  BY <1>1
<1> QED BY <1>1, <1>2, IsASeq

LEMMA WorkingStep ==
  ASSUME TypeInv, PileInv, Unswept, [Next]_vars, Working'
  PROVE  /\ Working
         /\ RunsItem \/ PassesMarker \/ Quiet \/ \E i \in Slots : TurnOf(i)
<1>1. CASE BlockOnChoice \/ EndTurn \/ DrinkSmoke \/ UNCHANGED vars
           \/ \E c \in hand, t \in Slots : PlayCard(c, t)
  BY <1>1 DEF BlockOnChoice, EndTurn, DrinkSmoke, PlayCard, UserActs, Running, Working, Quiet,
              fixtures, board, vars, control
<1>2. CASE BeginFirstTurn \/ StartSubsequentTurn
  <2>1. actionQueue = << >> /\ actionQueue' = <<Act("DRAW", Player, HandSize)>>
        /\ UNCHANGED <<monsters, cannotLose>>
    BY <1>2 DEF BeginFirstTurn, StartSubsequentTurn, StartOfTurn, AllServed, MonstersDue,
                PileInv, Rest, fight
  <2>2. Only(actionQueue', PlayOps)
    BY <2>1, HasOne DEF Act, Item, PlayOps
  <2>3. Working
    BY <1>2 DEF BeginFirstTurn, StartSubsequentTurn, AllServed, MonstersDue, Running, Working,
                fixtures
  <2> QED BY <2>1, <2>2, <2>3 DEF Quiet
<1>3. CASE WaitForUser \/ QueueMonsters
  <2>1. actionQueue = << >> /\ actionQueue' \in {<< >>, <<Act("DRAW", Player, 1)>>}
        /\ UNCHANGED <<monsters, cannotLose>> /\ Working
    BY <1>3 DEF WaitForUser, QueueMonsters, AllServed, MonstersDue, Running, Working, fight
  <2>2. Only(actionQueue', PlayOps)
    BY <2>1, HasOne, HasNone DEF Act, Item, PlayOps
  <2> QED BY <2>1, <2>2 DEF Quiet
<1>4. CASE RunAction
  <2>1. Working /\ Running /\ actionQueue # << >> /\ ~ChoicePending
    BY <1>4 DEF RunAction, Running, Working
  <2>2. CASE RunMonsterStartTurn
    BY <2>1, <2>2 DEF RunMonsterStartTurn, PassesMarker, fight
  <2>3. CASE Execute(Head(actionQueue), Tail(actionQueue))
    BY <2>1, <2>3 DEF RunsItem
  <2> QED BY <1>4, <2>1, <2>2, <2>3 DEF RunAction
<1>5. CASE RunSentinel
  <2> DEFINE burning == {c \in hand : EndOfTurnTrigger(c)}
  <2>1. actionQueue = << >> /\ UNCHANGED <<monsters, cannotLose>> /\ Working
    BY <1>5 DEF RunSentinel, Running, Working, fight
  <2>2. PICK burns \in Arrangements(burning) :
          actionQueue' = BurnProgram(burns) \o <<Act("DISCARD_HAND", Player, 0)>>
    BY <1>5 DEF RunSentinel
  <2>3. burns \in Seq(Card)
    <3>1. IsFiniteSet(burning) /\ burning \subseteq Card
      BY CardAssumption, FS_Subset DEF TypeInv, BoardType
    <3> QED BY <3>1, ArrangedType
  <2> QED BY <2>1, <2>2, <2>3, SentinelOps DEF Quiet
<1>6. CASE RunCardPlay
  <2> DEFINE play == Head(cardQueue)
  <2>1. actionQueue = << >> /\ UNCHANGED <<monsters, cannotLose>> /\ Working
    BY <1>6 DEF RunCardPlay, Running, Working, fight
  <2>2. play.card \in Card /\ play.tgt \in Nat
    <3>1. cardQueue \in Seq(PlayType) /\ cardQueue # << >> /\ ~IsSentinel(play)
      BY <1>6 DEF RunCardPlay, TypeInv, BoardType
    <3>2. play \in PlayType
      BY <3>1, HeadTailProperties
    <3> QED BY <3>1, <3>2 DEF PlayType, IsSentinel
  <2>3. actionQueue' \in {<< >>, <<UseCard(play.card, DontTrigger)>>,
                          Effects(play.card, play.tgt) \o <<UseCard(play.card, Trigger)>>}
    BY <1>6, <2>1 DEF RunCardPlay, RejectPlay, VanishPlay, AcceptPlay
  <2>4. Only(actionQueue', PlayOps) \/ Only(actionQueue', ChoiceOps)
    <3> DEFINE q == Effects(play.card, play.tgt) \o <<UseCard(play.card, Trigger)>>
    <3>1. Only(q, PlayOps) \/ Only(q, ChoiceOps)
      BY <2>2, EffectsOps
    <3>2. Only(<<UseCard(play.card, DontTrigger)>>, PlayOps) /\ Only(<< >>, PlayOps)
      BY HasOne, HasNone DEF UseCard, Item, PlayOps
    <3> QED BY <2>3, <3>1, <3>2
  <2> QED BY <2>1, <2>4 DEF Quiet
<1>7. CASE RunMonster
  <2> DEFINE i == Head(monsterQueue)
  <2>1. actionQueue = << >> /\ UNCHANGED cannotLose /\ Working
    BY <1>7 DEF RunMonster, MonstersDue, Running, Working
  <2>2. CASE i \in Slots /\ ~BasicallyDead(monsters[i])
    BY <1>7, <2>1, <2>2 DEF RunMonster, TurnOf
  <2>3. CASE ~(i \in Slots /\ ~BasicallyDead(monsters[i]))
    BY <1>7, <2>1, <2>3 DEF RunMonster, Quiet
  <2> QED BY <2>2, <2>3
<1>8. CASE BeginTerminal \/ SortItem \/ DrainStep \/ FinishTerminal
  <2>1. terminal \in [kind : TerminalKinds, stage : {"idle", "sort", "drain"},
                      kept : Seq(GoodItem), post : Seq(GoodItem)]
    BY DEF TypeInv, ControlType
  <2>2. CASE BeginTerminal
    BY <2>2 DEF BeginTerminal, Sweep, Working
  <2>3. CASE SortItem /\ actionQueue # << >>
    BY <2>1, <2>3 DEF SortItem, Working
  <2>4. CASE SortItem /\ actionQueue = << >>
    BY <2>1, <2>4 DEF SortItem, Working
  <2>5. CASE DrainStep
    BY <2>1, <2>5 DEF DrainStep, Draining, Working
  <2>6. CASE FinishTerminal
    BY <2>6 DEF FinishTerminal, Working
  <2> QED BY <1>8, <2>2, <2>3, <2>4, <2>5, <2>6
<1>9. ASSUME NEW c \in hand, Choose(c)
      PROVE  Working /\ Quiet
  <2>1. UNCHANGED <<monsters, cannotLose, terminal>> /\ ChoicePending /\ phase = "WAITING"
    BY <1>9 DEF Choose, UserActs, board
  <2>2. \A x \in Range(actionQueue') : \E y \in Range(actionQueue) : x.op = y.op
    BY <1>9, ChooseOps DEF Range
  <2> QED BY <2>1, <2>2 DEF Working, Quiet
<1>10. CASE DrinkChaos
  <2>1. UNCHANGED <<monsters, cannotLose, terminal>> /\ phase = "WAITING"
    BY <1>10 DEF DrinkChaos, UserActs, board
  <2>2. PICK plays \in Seq(GoodItem) :
          actionQueue' = actionQueue \o plays /\ Only(plays, {"PLAY_CARD"})
    BY <1>10, ChaosOps
  <2>3. CASE ChoicePending
    <3>1. Range(actionQueue') = Range(actionQueue) \cup Range(plays)
      BY <2>2, RangeConcatenation DEF TypeInv, BoardType
    <3> QED BY <2>1, <2>2, <2>3, <3>1 DEF Working, Quiet, Only
  <2>4. CASE ~ChoicePending
    <3>1. actionQueue = << >>
      BY <2>1, <2>4 DEF PileInv, Rest
    <3>2. actionQueue' = plays
      BY <2>2, <3>1, ConcatEmptySeq
    <3> QED BY <2>1, <2>2, <3>1, <3>2 DEF Working, Quiet, Only, ChoiceOps
  <2> QED BY <2>3, <2>4
<1> QED BY <1>1, <1>2, <1>3, <1>4, <1>5, <1>6, <1>7, <1>8, <1>9, <1>10 DEF Next, Pump, User
(***************************************************************************)
(* A split under way is alone in the queue, and while its first half has   *)
(* run and its last has not, the fight cannot be lost.                     *)
(***************************************************************************)
SplitOps == {"CANNOT_LOSE", "SUICIDE", "SPAWN_MONSTER"}
Born(at, hp) == Act("SPAWN_MONSTER", at, hp)
\* The queue of a split whose first half has run.
SplitRest(i, hp) ==
  {<<Act("SUICIDE", i, 0), Born(i, hp), Born(i + 2, hp), Act("CAN_LOSE", Player, 0)>>,
   <<Born(i, hp), Born(i + 2, hp), Act("CAN_LOSE", Player, 0)>>,
   <<Born(i + 2, hp), Act("CAN_LOSE", Player, 0)>>}

LEMMA SplitRestSteps ==
  ASSUME NEW i, NEW hp, NEW q \in SplitRest(i, hp)
  PROVE  /\ q # << >> /\ Head(q).op \in {"SUICIDE", "SPAWN_MONSTER"}
         /\ Tail(q) \in SplitRest(i, hp) \cup {<<Act("CAN_LOSE", Player, 0)>>}
         /\ Has(Tail(q), {"CAN_LOSE"}) /\ ~Has(q, {"CANNOT_LOSE"})
         /\ ~Has(Tail(q), {"CANNOT_LOSE"})
         /\ Only(q, SplitOps \cup {"CAN_LOSE"})
<1> DEFINE a == Act("SUICIDE", i, 0)
           b == Born(i, hp)
           c == Born(i + 2, hp)
           d == Act("CAN_LOSE", Player, 0)
<1>1. a.op = "SUICIDE" /\ b.op = "SPAWN_MONSTER" /\ c.op = "SPAWN_MONSTER" /\ d.op = "CAN_LOSE"
  BY DEF Born, Act, Item
<1>2. q \in {<<a, b, c, d>>, <<b, c, d>>, <<c, d>>}
  BY DEF SplitRest
<1>3. \A r \in {<<b, c, d>>, <<c, d>>, <<d>>} : r \in SplitRest(i, hp) \cup {<<d>>}
  BY DEF SplitRest
<1> HIDE DEF a, b, c, d
<1>4. CASE q = <<a, b, c, d>>
  <2>1. Head(q) = a /\ Tail(q) = <<b, c, d>>
    BY <1>4
  <2>2. Range(q) = {a, b, c, d} /\ Range(Tail(q)) = {b, c, d}
    BY <1>4, <2>1 DEF Range
  <2> QED BY <1>1, <1>3, <1>4, <2>1, <2>2 DEF Has, Only, SplitOps, d
<1>5. CASE q = <<b, c, d>>
  <2>1. Head(q) = b /\ Tail(q) = <<c, d>>
    BY <1>5
  <2>2. Range(q) = {b, c, d} /\ Range(Tail(q)) = {c, d}
    BY <1>5, <2>1 DEF Range
  <2> QED BY <1>1, <1>3, <1>5, <2>1, <2>2 DEF Has, Only, SplitOps, d
<1>6. CASE q = <<c, d>>
  <2>1. Head(q) = c /\ Tail(q) = <<d>>
    BY <1>6
  <2>2. Range(q) = {c, d} /\ Range(Tail(q)) = {d}
    BY <1>6, <2>1 DEF Range
  <2> QED BY <1>1, <1>3, <1>6, <2>1, <2>2 DEF Has, Only, SplitOps, d
<1> QED BY <1>2, <1>4, <1>5, <1>6

SplitProgram(i, hp) ==
  <<Act("CANNOT_LOSE", Player, 0), Act("SUICIDE", i, 0), Born(i, hp), Born(i + 2, hp),
    Act("CAN_LOSE", Player, 0)>>

LEMMA SplitProgramSteps ==
  ASSUME NEW i, NEW hp, NEW q, q = SplitProgram(i, hp)
  PROVE  /\ q # << >> /\ Head(q).op = "CANNOT_LOSE" /\ Tail(q) \in SplitRest(i, hp)
         /\ Has(Tail(q), {"CAN_LOSE"}) /\ ~Has(Tail(q), {"CANNOT_LOSE"})
         /\ Only(q, SplitOps \cup {"CAN_LOSE"})
<1> DEFINE z == Act("CANNOT_LOSE", Player, 0)
           a == Act("SUICIDE", i, 0)
           b == Born(i, hp)
           c == Born(i + 2, hp)
           d == Act("CAN_LOSE", Player, 0)
<1>1. z.op = "CANNOT_LOSE" /\ a.op = "SUICIDE" /\ b.op = "SPAWN_MONSTER"
      /\ c.op = "SPAWN_MONSTER" /\ d.op = "CAN_LOSE"
  BY DEF Born, Act, Item
<1>2. q = <<z, a, b, c, d>> /\ <<a, b, c, d>> \in SplitRest(i, hp)
  BY DEF SplitProgram, SplitRest
<1> HIDE DEF z, a, b, c, d
<1>3. Head(q) = z /\ Tail(q) = <<a, b, c, d>>
  BY <1>2
<1>4. Range(q) = {z, a, b, c, d} /\ Range(Tail(q)) = {a, b, c, d}
  BY <1>2, <1>3 DEF Range
<1> QED BY <1>1, <1>2, <1>3, <1>4 DEF Has, Only, SplitOps

SplitUnderway ==
  Has(actionQueue, SplitOps) =>
    \/ \E i \in Slots, hp \in Nat :
         /\ actionQueue = SplitProgram(i, hp)
         /\ ~BasicallyDead(monsters[i])
    \/ /\ cannotLose
       /\ \E i, hp \in Nat : actionQueue \in SplitRest(i, hp)

LEMMA SplitQueue ==
  ASSUME SplitUnderway, Has(actionQueue, SplitOps)
  PROVE  /\ actionQueue # << >> /\ Head(actionQueue).op \in SplitOps
         /\ Only(actionQueue, SplitOps \cup {"CAN_LOSE"})
         /\ Has(Tail(actionQueue), {"CAN_LOSE"})
         /\ ~Has(Tail(actionQueue), {"CANNOT_LOSE"})
         /\ Head(actionQueue).op = "CANNOT_LOSE" => AnyMonsterAlive
         /\ Head(actionQueue).op # "CANNOT_LOSE" => cannotLose
BY SplitProgramSteps, SplitRestSteps DEF SplitUnderway, AnyMonsterAlive, SplitOps

LEMMA SplitNext ==
  ASSUME TypeInv, PileInv, Unswept, Working => SplitUnderway, [Next]_vars, Working'
  PROVE  SplitUnderway'
<1>1. /\ Working /\ SplitUnderway
      /\ RunsItem \/ PassesMarker \/ Quiet \/ \E i \in Slots : TurnOf(i)
  BY WorkingStep
<1>2. SUFFICES ASSUME Has(actionQueue', SplitOps) PROVE SplitUnderway'
  BY DEF SplitUnderway, Has
<1>3. CASE RunsItem
  <2> DEFINE item == Head(actionQueue)
             q == Tail(actionQueue)
  <2>1. item \in GoodItem /\ q \in Seq(GoodItem) /\ BoardType /\ Execute(item, q)
        /\ actionQueue # << >> /\ actionQueue \in Seq(GoodItem)
    BY <1>3 DEF RunsItem, TypeInv, BoardType
  <2>2. \A x \in Range(actionQueue') : x.op \in SplitOps => x \in Range(q)
    BY <2>1, ExecuteOps DEF SplitOps
  <2>3. Has(q, SplitOps)
    BY <1>2, <2>2 DEF Has
  <2>4. Has(actionQueue, SplitOps)
    BY <2>1, <2>3, HasTail
  <2>5. item.op \in SplitOps
    BY <1>1, <2>4, SplitQueue
  <2>6. actionQueue' = q
    BY <2>1, <2>5, ExecuteOps DEF SplitOps
  <2>7. CASE \E i \in Slots, hp \in Nat : actionQueue = SplitProgram(i, hp)
    <3>1. PICK i \in Slots, hp \in Nat : actionQueue = SplitProgram(i, hp)
      BY <2>7
    <3>2. q \in SplitRest(i, hp) /\ item.op = "CANNOT_LOSE" /\ i \in Nat
      BY <2>1, <3>1, SplitProgramSteps, SlotOf
    <3>3. cannotLose'
      BY <2>1, <3>2 DEF Execute, ExecCannotLose
    <3> QED BY <2>6, <3>2, <3>3 DEF SplitUnderway
  <2>8. CASE cannotLose /\ \E i, hp \in Nat : actionQueue \in SplitRest(i, hp)
    <3>1. PICK i \in Nat, hp \in Nat : actionQueue \in SplitRest(i, hp)
      BY <2>8
    <3>2. q \in SplitRest(i, hp) \cup {<<Act("CAN_LOSE", Player, 0)>>}
          /\ item.op \in {"SUICIDE", "SPAWN_MONSTER"}
      BY <3>1, SplitRestSteps
    <3>3. ~Has(<<Act("CAN_LOSE", Player, 0)>>, SplitOps)
      BY HasOne DEF SplitOps, Act, Item
    <3>4. cannotLose'
      BY <2>1, <2>8, <3>2 DEF Execute, ExecMonster, ExecSpawn
    <3> QED BY <2>3, <2>6, <3>2, <3>3, <3>4 DEF SplitUnderway
  <2> QED BY <1>1, <2>4, <2>7, <2>8 DEF SplitUnderway
<1>4. CASE PassesMarker
  <2>1. Has(actionQueue, SplitOps)
    BY <1>2, <1>4, HasTail DEF PassesMarker, TypeInv, BoardType
  <2> QED BY <1>1, <1>4, <2>1, SplitQueue DEF PassesMarker, SplitOps
<1>5. ASSUME NEW i \in Slots, TurnOf(i)
      PROVE  SplitUnderway'
  <2>1. BoardType /\ TakeTurn(i) /\ actionQueue' = MoveProgram(i) /\ ~BasicallyDead(monsters[i])
    BY <1>5 DEF TurnOf, TakeTurn, TypeInv
  <2>2. monsters[i].plan = "split"
    BY <1>2, <2>1, HasOne DEF MoveProgram, Has, Range, Damage, Act, Item, SplitOps
  <2>3. monsters[i] \in MonsterType /\ i \in Slots'
        /\ monsters'[i] = [monsters[i] EXCEPT !.plan = monsters'[i].plan]
    BY <2>1, SlotOf, TurnRecord
  <2>4. ~BasicallyDead(monsters[i])'
    BY <2>1, <2>3 DEF BasicallyDead, IsDying, MonsterType
  <2>5. monsters[i].hp \in Nat
    BY <2>3 DEF MonsterType
  <2> QED BY <2>1, <2>2, <2>3, <2>4, <2>5 DEF MoveProgram, SplitUnderway, SplitProgram, Born
<1>6. CASE Quiet
  <2>1. CASE actionQueue' = actionQueue
    BY <1>1, <1>6, <2>1 DEF Quiet, SplitUnderway, Has, Slots, BasicallyDead, IsDying
  <2>2. CASE Only(actionQueue', PlayOps) \/ Only(actionQueue', ChoiceOps)
    BY <1>2, <2>2, HasNot DEF PlayOps, ChoiceOps, SplitOps
  <2>3. CASE /\ ChoicePending
             /\ \A x \in Range(actionQueue') :
                  \/ x.op = "PLAY_CARD"
                  \/ \E y \in Range(actionQueue) : x.op = y.op
    <3>1. Has(actionQueue, SplitOps)
      BY <1>2, <2>3 DEF Has, SplitOps
    <3> QED BY <1>1, <2>3, <3>1, SplitQueue DEF ChoicePending, ChoiceRequiresUser, SplitOps
  <2> QED BY <1>6, <2>1, <2>2, <2>3 DEF Quiet
<1> QED BY <1>1, <1>3, <1>4, <1>5, <1>6
(***************************************************************************)
(* Every state: records are sound, the sweep's included.                   *)
(***************************************************************************)
LEMMA KindsInit == Init => KindsSound
<1> SUFFICES ASSUME Init PROVE KindsSound
  OBVIOUS
<1>1. PICK met \in Encounters :
        monsters = [i \in 1 .. Len(met) |-> Monster(i, met[i], MonsterMaxHp)]
  BY DEF Init
<1>2. met \in Seq(MonsterKinds) /\ Len(met) \in Nat
  BY FightAssumption, LenProperties
<1>3. \A i \in 1 .. Len(met) : met[i] \in MonsterKinds
  BY <1>2, ElementOfSeq
<1>4. Slots = 1 .. Len(met)
  BY <1>1, <1>2 DEF Slots
<1>5. ASSUME NEW i \in 1 .. Len(met) PROVE monsters[i] \in SoundMonster
  <2>1. monsters[i] = Monster(i, met[i], MonsterMaxHp)
    BY <1>1
  <2>2. Monster(i, met[i], MonsterMaxHp) \in MonsterType
    BY <1>2, <1>3, FightAssumption, MonsterIsTyped
  <2> QED BY <2>1, <2>2 DEF SoundMonster, Monster
<1> QED BY <1>4, <1>5 DEF KindsSound

LEMMA KindsNext ==
  ASSUME TypeInv, KindsSound, [Next]_vars
  PROVE  KindsSound'
<1>1. CASE RunAction \/ DrainStep
  <2>1. CASE /\ actionQueue # << >> /\ Execute(Head(actionQueue), Tail(actionQueue))
    <3>1. Head(actionQueue) \in GoodItem /\ BoardType
      BY <2>1 DEF TypeInv, BoardType
    <3> QED BY <2>1, <3>1, ExecuteKinds
  <2>2. CASE RunMonsterStartTurn
    BY <2>2 DEF RunMonsterStartTurn, fight, KindsSound, Slots
  <2> QED BY <1>1, <2>1, <2>2 DEF RunAction, DrainStep, Draining
<1>2. CASE RunMonster
  <2>1. CASE UNCHANGED monsters
    BY <2>1 DEF KindsSound, Slots
  <2>2. ASSUME NEW i \in Slots, TakeTurn(i)
        PROVE  KindsSound'
    <3>1. /\ Slots' = Slots /\ \A j \in Slots : j # i => monsters'[j] = monsters[j]
          /\ monsters'[i] = [monsters[i] EXCEPT !.plan = monsters'[i].plan]
          /\ monsters'[i].plan \in NextPlans(monsters[i])
      BY <2>2, TurnRecord DEF TypeInv
    <3>2. monsters[i] \in SoundMonster
      BY DEF KindsSound
    <3>3. monsters'[i].plan \in Plans
      BY <3>1, <3>2 DEF NextPlans, SoundMonster, MonsterType, Plans
    <3>4. monsters'[i] \in SoundMonster
      BY <3>1, <3>2, <3>3 DEF NextPlans, SoundMonster, MonsterType
    <3> QED BY <3>1, <3>4 DEF KindsSound
  <2> QED BY <1>2, <2>1, <2>2 DEF RunMonster
<1>3. CASE UNCHANGED monsters
  BY <1>3 DEF KindsSound, Slots
<1> QED
  BY <1>1, <1>2, <1>3
    DEF Next, Pump, BeginFirstTurn, BlockOnChoice, RunSentinel, RunCardPlay, QueueMonsters,
        StartSubsequentTurn, WaitForUser, BeginTerminal, SortItem, FinishTerminal, fight,
        User, PlayCard, Choose, EndTurn, DrinkChaos, DrinkSmoke, board, vars

(***************************************************************************)
(* What a hit queues: the reactions before the rest of the queue, those    *)
(* who leave the fight behind it, and the forced move last.                *)
(***************************************************************************)
LEMMA HitAnswers ==
  ASSUME BoardType, NEW item \in GoodItem, NEW q \in Seq(GoodItem), HitMonster(item, q),
         item.tgt \in Slots
  PROVE  \E pre, out \in Seq(GoodItem) :
           /\ actionQueue' = pre \o q \o out \o ForcedMove(item, Struck(monsters[item.tgt]))
           /\ Only(pre, {"DAMAGE", "CLEAR_CARD_QUEUE"})
           /\ \A x \in Range(out) : /\ x.op = "ESCAPE" /\ x.tgt \in Slots
                                    /\ monsters[x.tgt].kind = "cultist"
<1> DEFINE hit == Struck(monsters[item.tgt])
<1>1. PICK leaving \in InOrder(Departing(item, hit)) :
        actionQueue' = Reaction(item, hit) \o q \o Departures(leaving) \o ForcedMove(item, hit)
  BY DEF HitMonster, Struck
<1>2. Reaction(item, hit) \in Seq(GoodItem)
  BY ReactionType
<1>3. Only(Reaction(item, hit), {"DAMAGE", "CLEAR_CARD_QUEUE"})
  BY HasOne, HasNone DEF Reaction, Damage, Act, Item
<1>4. IsFiniteSet(Departing(item, hit)) /\ Departing(item, hit) \subseteq Slots
      /\ \A i \in Departing(item, hit) : monsters[i].kind = "cultist"
  BY SlotsFinite, FS_Subset, FS_EmptySet DEF Departing
<1>5. leaving \in Seq(Departing(item, hit))
  BY <1>4, InOrderType
<1>6. leaving \in Seq(Nat)
  <2>1. Departing(item, hit) \subseteq Nat
    BY <1>4, SlotsFinite
  <2> QED BY <1>5, <2>1, SeqMonotonic
<1>7. Departures(leaving) \in Seq(GoodItem)
  BY <1>6, DeparturesType
<1>8. \A i \in DOMAIN leaving : leaving[i] \in Departing(item, hit)
  BY <1>5, ElementOfSeq, LenProperties
<1>9. \A x \in Range(Departures(leaving)) :
         /\ x.op = "ESCAPE" /\ x.tgt \in Slots /\ monsters[x.tgt].kind = "cultist"
  BY <1>4, <1>8 DEF Departures, Range, Act, Item
<1> QED BY <1>1, <1>2, <1>3, <1>7, <1>9
(***************************************************************************)
(* A choice waits only before uses and plays; an Awakened One never        *)
(* leaves; and where the fight cannot be lost, either it is there or the   *)
(* item is queued that lets the fight be lost again.                       *)
(***************************************************************************)
Choosing == Has(actionQueue, {"CHOOSE_CARD"}) => Only(actionQueue, ChoiceOps)
NoEscape ==
  \A x \in Range(actionQueue) :
    x.op = "ESCAPE" /\ x.tgt \in Slots => monsters[x.tgt].kind # "reviver"
StaysUp ==
  cannotLose => \/ \E i \in Slots : monsters[i].kind = "reviver" /\ ~BasicallyDead(monsters[i])
                \/ Has(actionQueue, {"CAN_LOSE"})

LEMMA ChoosingNext ==
  ASSUME TypeInv, PileInv, Unswept, Working => Choosing, [Next]_vars, Working'
  PROVE  Choosing'
<1>1. /\ Working /\ Choosing
      /\ RunsItem \/ PassesMarker \/ Quiet \/ \E i \in Slots : TurnOf(i)
  BY WorkingStep
<1>2. SUFFICES ASSUME Has(actionQueue', {"CHOOSE_CARD"}) PROVE Only(actionQueue', ChoiceOps)
  BY DEF Choosing, Has, Only
<1>3. CASE RunsItem
  <2> DEFINE item == Head(actionQueue)
             q == Tail(actionQueue)
  <2>1. item \in GoodItem /\ q \in Seq(GoodItem) /\ BoardType /\ Execute(item, q)
        /\ actionQueue # << >> /\ actionQueue \in Seq(GoodItem)
    BY <1>3 DEF RunsItem, TypeInv, BoardType
  <2>2. \A x \in Range(actionQueue') : x.op = "CHOOSE_CARD" => x \in Range(q)
    BY <2>1, ExecuteOps
  <2>3. Has(actionQueue, {"CHOOSE_CARD"})
    <3>1. Has(q, {"CHOOSE_CARD"})
      BY <1>2, <2>2 DEF Has
    <3> QED BY <2>1, <3>1, HasTail
  <2>4. item.op \in ChoiceOps /\ Only(q, ChoiceOps)
    BY <1>1, <2>1, <2>3, HasTail DEF Choosing
  <2> QED BY <2>1, <2>4, ExecuteOps DEF ChoiceOps
<1>4. CASE PassesMarker
  BY <1>1, <1>2, <1>4, HasTail DEF PassesMarker, Choosing, TypeInv, BoardType
<1>5. ASSUME NEW i \in Slots, TurnOf(i) PROVE FALSE
  BY <1>2, <1>5 DEF TurnOf, TakeTurn, MoveProgram, Has, Range, Damage, Act, Item
<1>6. CASE Quiet
  <2>1. CASE actionQueue' = actionQueue
    BY <1>1, <1>2, <2>1 DEF Choosing, Has, Only
  <2>2. CASE Only(actionQueue', PlayOps)
    BY <1>2, <2>2, HasNot DEF PlayOps
  <2>3. CASE /\ ChoicePending
             /\ \A x \in Range(actionQueue') :
                  \/ x.op = "PLAY_CARD"
                  \/ \E y \in Range(actionQueue) : x.op = y.op
    <3>1. Has(actionQueue, {"CHOOSE_CARD"})
      BY <2>3, HasTail DEF ChoicePending, ChoiceRequiresUser, TypeInv, BoardType
    <3> QED BY <1>1, <2>3, <3>1 DEF Choosing, Only, ChoiceOps
  <2> QED BY <1>2, <1>6, <2>1, <2>2, <2>3 DEF Quiet
<1> QED BY <1>1, <1>3, <1>4, <1>5, <1>6

\* A choice that is pending has nothing but uses and plays behind it.
LEMMA PendingOps ==
  ASSUME TypeInv, Choosing, ChoicePending
  PROVE  Only(actionQueue, ChoiceOps)
<1>1. Has(actionQueue, {"CHOOSE_CARD"})
  BY HasTail DEF ChoicePending, ChoiceRequiresUser, TypeInv, BoardType
<1> QED BY <1>1 DEF Choosing

LEMMA DepartingKinds ==
  ASSUME BoardType, NEW item \in GoodItem, NEW q \in Seq(GoodItem), Execute(item, q)
  PROVE  \A x \in Range(actionQueue') :
           x.op = "ESCAPE" /\ x \notin Range(q) =>
             x.tgt \in Slots /\ monsters[x.tgt].kind = "cultist"
<1>1. CASE item.op # "DAMAGE"
  BY <1>1, ExecuteOps
<1>2. CASE item.op = "DAMAGE" /\ ~AttackerCancelled(item) /\ item.tgt \in Slots
  <2>1. HitMonster(item, q)
    BY <1>2 DEF Execute, ExecDamage
  <2> DEFINE last == ForcedMove(item, Struck(monsters[item.tgt]))
  <2>2. PICK pre, out \in Seq(GoodItem) :
           /\ actionQueue' = pre \o q \o out \o last
           /\ Only(pre, {"DAMAGE", "CLEAR_CARD_QUEUE"})
           /\ \A x \in Range(out) : /\ x.op = "ESCAPE" /\ x.tgt \in Slots
                                    /\ monsters[x.tgt].kind = "cultist"
    BY <1>2, <2>1, HitAnswers
  <2>3. last \in Seq(GoodItem) /\ Only(last, {"SET_MOVE"})
    BY ReactionType, HasOne, HasNone DEF ForcedMove, Act, Item
  <2> HIDE DEF last
  <2>4. pre \o q \o out \in Seq(GoodItem)
    BY ConcatProperties
  <2>5. Range(actionQueue') = Range(pre \o q \o out) \cup Range(last)
    <3> DEFINE first == pre \o q \o out
    <3>1. first \in Seq(GoodItem) /\ last \in Seq(GoodItem) /\ actionQueue' = first \o last
      BY <2>2, <2>3, <2>4
    <3> HIDE DEF first
    <3>2. Range(first \o last) = Range(first) \cup Range(last)
      BY <3>1, RangeConcatenation
    <3> QED BY <3>1, <3>2 DEF first
  <2>6. Range(pre \o q \o out) = Range(pre) \cup Range(q) \cup Range(out)
    BY RangeOfThree
  <2> QED BY <2>2, <2>3, <2>5, <2>6 DEF Only
<1>3. CASE item.op = "DAMAGE" /\ (AttackerCancelled(item) \/ item.tgt \notin Slots)
  <2>1. actionQueue' \in {q, <<Damage(Player, item.src, Thorns)>> \o q}
    BY <1>3 DEF Execute, ExecDamage, HitPlayer
  <2>2. Damage(Player, item.src, Thorns) \in GoodItem
    BY DamageIsGood DEF GoodItem, ItemType, Player, Thorns
  <2>3. Range(<<Damage(Player, item.src, Thorns)>> \o q) =
          {Damage(Player, item.src, Thorns)} \cup Range(q)
    <3>1. <<Damage(Player, item.src, Thorns)>> \in Seq(GoodItem)
      BY <2>2, OneIsSeq
    <3>2. Range(<<Damage(Player, item.src, Thorns)>> \o q) =
            Range(<<Damage(Player, item.src, Thorns)>>) \cup Range(q)
      BY <3>1, RangeConcatenation
    <3> QED BY <3>2, RangeOfOne
  <2>4. Damage(Player, item.src, Thorns).op = "DAMAGE"
    BY DEF Damage, Item
  <2>5. \A x \in Range(actionQueue') : x \in Range(q) \/ x = Damage(Player, item.src, Thorns)
    BY <2>1, <2>3
  <2> QED BY <2>4, <2>5
<1> QED BY <1>1, <1>2, <1>3 DEF Execute

LEMMA EscapeNext ==
  ASSUME TypeInv, PileInv, Unswept, KindsSound,
         Working => SplitUnderway /\ Choosing /\ NoEscape, [Next]_vars, Working'
  PROVE  NoEscape'
<1>1. /\ Working /\ SplitUnderway /\ Choosing /\ NoEscape
      /\ RunsItem \/ PassesMarker \/ Quiet \/ \E i \in Slots : TurnOf(i)
  BY WorkingStep
<1>2. CASE RunsItem
  <2> DEFINE item == Head(actionQueue)
             q == Tail(actionQueue)
  <2>1. item \in GoodItem /\ q \in Seq(GoodItem) /\ BoardType /\ Execute(item, q)
        /\ actionQueue # << >> /\ actionQueue \in Seq(GoodItem)
    BY <1>2 DEF RunsItem, TypeInv, BoardType
  <2>2. CASE item.op # "SPAWN_MONSTER"
    <3>1. Slots' = Slots /\ \A i \in Slots : monsters'[i].kind = monsters[i].kind
      BY <2>1, <2>2, WritesOneRecord, NextRecordSound
    <3>2. Range(q) \subseteq Range(actionQueue)
      BY <2>1, RangeOfTail
    <3> QED BY <1>1, <2>1, <3>1, <3>2, DepartingKinds DEF NoEscape
  <2>3. CASE item.op = "SPAWN_MONSTER"
    <3>1. Has(actionQueue, SplitOps)
      BY <2>1, <2>3, HasTail DEF SplitOps
    <3>2. Only(q, SplitOps \cup {"CAN_LOSE"})
      BY <1>1, <2>1, <3>1, SplitQueue, HasTail
    <3>3. actionQueue' = q
      BY <2>1, <2>3, ExecuteOps
    <3> QED BY <3>2, <3>3 DEF NoEscape, Only, SplitOps
  <2> QED BY <2>2, <2>3
<1>3. CASE PassesMarker
  <2>1. Range(Tail(actionQueue)) \subseteq Range(actionQueue)
    BY <1>3, RangeOfTail DEF PassesMarker, TypeInv, BoardType
  <2> QED BY <1>1, <1>3, <2>1 DEF PassesMarker, NoEscape, Slots
<1>4. ASSUME NEW i \in Slots, TurnOf(i)
      PROVE  NoEscape'
  <2>1. BoardType /\ TakeTurn(i) /\ actionQueue' = MoveProgram(i)
    BY <1>4 DEF TurnOf, TakeTurn, TypeInv
  <2>2. monsters[i] \in SoundMonster
    BY DEF KindsSound
  <2>3. \A x \in Range(actionQueue') :
          x.op = "ESCAPE" => x.tgt = i /\ monsters[i].plan \notin {"attack", "split", "rebirth"}
    BY <2>1 DEF MoveProgram, Range, Damage, Act, Item
  <2>4. Slots' = Slots /\ monsters'[i] = [monsters[i] EXCEPT !.plan = monsters'[i].plan]
    BY <2>1, TurnRecord
  <2>5. monsters'[i].kind = monsters[i].kind
    BY <2>2, <2>4 DEF SoundMonster, MonsterType
  <2> QED BY <2>2, <2>3, <2>4, <2>5 DEF NoEscape, SoundMonster, MonsterType, Plans
<1>5. CASE Quiet
  <2>1. CASE actionQueue' = actionQueue
    BY <1>1, <1>5, <2>1 DEF Quiet, NoEscape, Slots
  <2>2. CASE Only(actionQueue', PlayOps) \/ Only(actionQueue', ChoiceOps)
    BY <2>2 DEF NoEscape, Only, PlayOps, ChoiceOps
  <2>3. CASE /\ ChoicePending
             /\ \A x \in Range(actionQueue') :
                  \/ x.op = "PLAY_CARD"
                  \/ \E y \in Range(actionQueue) : x.op = y.op
    BY <1>1, <2>3, PendingOps DEF Only, NoEscape, ChoiceOps
  <2> QED BY <1>5, <2>1, <2>2, <2>3 DEF Quiet
<1> QED BY <1>1, <1>2, <1>3, <1>4, <1>5

\* While the fight cannot be lost, an Awakened One that is up stays in the fight.
LEMMA ReviverStays ==
  ASSUME BoardType, KindsSound, cannotLose, NEW item \in GoodItem, item.tgt \in Slots,
         monsters[item.tgt].kind = "reviver", ~BasicallyDead(monsters[item.tgt]),
         item.op \notin {"SUICIDE", "ESCAPE"}
  PROVE  ~BasicallyDead(NextRecord(item))
<1> DEFINE m == monsters[item.tgt]
<1>1. m \in MonsterType
  BY DEF KindsSound, SoundMonster
<1>2. CASE item.op = "DAMAGE" /\ ~AttackerCancelled(item)
  <2>1. NextRecord(item) = AfterDamage(Struck(m))
    BY <1>2 DEF NextRecord
  <2>2. Struck(m) \in MonsterType /\ Struck(m).kind = "reviver" /\ Struck(m).half = m.half
        /\ Struck(m).escaped = m.escaped
    BY <1>1 DEF Struck, MonsterType
  <2> DEFINE s == Struck(m)
  <2>3. s \in MonsterType /\ s.kind = "reviver" /\ s.escaped = m.escaped /\ cannotLose
    BY <2>2
  <2> HIDE DEF s, m
  <2>4. ~m.escaped
    BY DEF BasicallyDead, m
  <2>5. ~BasicallyDead(AfterDamage(s))
    BY <2>3, <2>4 DEF AfterDamage, SplitsNow, DownedNow, BasicallyDead, IsDying, MonsterType
  <2> QED BY <2>1, <2>5 DEF s, m
<1>3. CASE item.op = "HEAL" /\ ~IsDying(m)
  <2>1. NextRecord(item) = [m EXCEPT !.hp = MonsterMaxHp, !.half = FALSE]
    BY <1>3 DEF NextRecord
  <2> QED BY <1>1, <2>1, FightAssumption DEF BasicallyDead, IsDying, MonsterType
<1>4. CASE item.op \in {"SET_MOVE", "ROLL_MOVE"}
  <2>1. NextRecord(item) \in {[m EXCEPT !.plan = ForcedPlan(m)], [m EXCEPT !.plan = "attack"]}
    BY <1>4 DEF NextRecord, ChangedMonster
  <2> QED BY <1>1, <2>1 DEF BasicallyDead, IsDying, MonsterType
<1>5. CASE NextRecord(item) = m
  BY <1>5
<1> QED BY <1>2, <1>3, <1>4, <1>5 DEF NextRecord

LEMMA StaysUpNext ==
  ASSUME TypeInv, PileInv, Unswept, KindsSound,
         Working => SplitUnderway /\ Choosing /\ NoEscape /\ StaysUp, [Next]_vars, Working'
  PROVE  StaysUp'
<1>1. /\ Working /\ SplitUnderway /\ Choosing /\ NoEscape /\ StaysUp
      /\ RunsItem \/ PassesMarker \/ Quiet \/ \E i \in Slots : TurnOf(i)
  BY WorkingStep
<1>2. CASE RunsItem
  <2> DEFINE item == Head(actionQueue)
             q == Tail(actionQueue)
  <2>1. item \in GoodItem /\ q \in Seq(GoodItem) /\ BoardType /\ Execute(item, q)
        /\ actionQueue # << >> /\ actionQueue \in Seq(GoodItem)
    BY <1>2 DEF RunsItem, TypeInv, BoardType
  <2>2. CASE item.op \in SplitOps
    <3>1. Has(q, {"CAN_LOSE"})
      BY <1>1, <2>1, <2>2, HasTail, SplitQueue
    <3>2. actionQueue' = q
      BY <2>1, <2>2, ExecuteOps DEF SplitOps
    <3> QED BY <3>1, <3>2 DEF StaysUp, Has
  <2>3. CASE item.op = "CAN_LOSE"
    <3>1. ~cannotLose'
      BY <2>1, <2>3 DEF Execute, ExecCannotLose
    <3> QED BY <3>1 DEF StaysUp
  <2>4. CASE item.op \notin SplitOps \cup {"CAN_LOSE"}
    <3>1. cannotLose' = cannotLose
      BY <2>1, <2>4
        DEF Execute, ExecDraw, ExecDamage, ExecHeal, ExecUseCard, ExecPlayTopDraw, ExecPlayCard,
            AutoplayTop, ExecChooseCard, ExecDiscardHand, ExecClearCardQueue, ExecMonster, fight,
            SplitOps
    <3>2. CASE Has(actionQueue, {"CAN_LOSE"})
      <4>1. Has(q, {"CAN_LOSE"})
        BY <2>1, <2>4, <3>2, HasTail
      <4>2. Has(actionQueue', {"CAN_LOSE"})
        BY <2>1, <4>1, ExecuteOps DEF Has
      <4> QED BY <4>2 DEF StaysUp, Has
    <3>3. ASSUME cannotLose,
                 NEW i \in Slots, monsters[i].kind = "reviver", ~BasicallyDead(monsters[i])
          PROVE  StaysUp'
      <4>1. item.op = "ESCAPE" => item.tgt # i
        <5>1. item \in Range(actionQueue)
          BY <2>1, RangeOfTail
        <5> QED BY <1>1, <3>3, <5>1 DEF NoEscape
      <4>2. Slots' = Slots /\ monsters'[i] = IF i = item.tgt THEN NextRecord(item) ELSE monsters[i]
        BY <2>1, <2>4, WritesOneRecord DEF SplitOps
      <4>3. monsters'[i].kind = "reviver"
        BY <2>1, <3>3, <4>2, NextRecordSound
      <4>4. i = item.tgt => ~BasicallyDead(NextRecord(item))
        BY <2>1, <2>4, <3>3, <4>1, ReviverStays DEF SplitOps
      <4>5. ~BasicallyDead(monsters[i])'
        BY <3>3, <4>2, <4>4 DEF BasicallyDead, IsDying
      <4> QED BY <4>2, <4>3, <4>5 DEF StaysUp
    <3> QED BY <1>1, <3>1, <3>2, <3>3 DEF StaysUp
  <2> QED BY <2>2, <2>3, <2>4
<1>3. CASE PassesMarker
  <2>1. Has(actionQueue, {"CAN_LOSE"}) => Has(actionQueue', {"CAN_LOSE"})
    BY <1>3, HasTail DEF PassesMarker, TypeInv, BoardType
  <2> QED BY <1>1, <1>3, <2>1 DEF PassesMarker, StaysUp, Has, Slots, BasicallyDead, IsDying
<1>4. ASSUME NEW i \in Slots, TurnOf(i)
      PROVE  StaysUp'
  <2>1. BoardType /\ TakeTurn(i) /\ cannotLose' = cannotLose /\ ~Has(actionQueue, {"CAN_LOSE"})
    BY <1>4, HasNone DEF TurnOf, TypeInv
  <2>2. Slots' = Slots /\ \A j \in Slots : j # i => monsters'[j] = monsters[j]
    BY <2>1, TurnRecord
  <2>3. monsters'[i] = [monsters[i] EXCEPT !.plan = monsters'[i].plan] /\ monsters[i] \in MonsterType
    BY <2>1, TurnRecord, SlotOf
  <2>4. monsters'[i].kind = monsters[i].kind
        /\ (BasicallyDead(monsters[i])' => BasicallyDead(monsters[i]))
    BY <2>3 DEF MonsterType, BasicallyDead, IsDying
  <2>5. \A j \in Slots : /\ monsters'[j].kind = monsters[j].kind
                         /\ BasicallyDead(monsters[j])' => BasicallyDead(monsters[j])
    BY <2>2, <2>4 DEF BasicallyDead, IsDying
  <2> QED BY <1>1, <2>1, <2>2, <2>5 DEF StaysUp
<1>5. CASE Quiet
  <2>1. CASE actionQueue' = actionQueue
    BY <1>1, <1>5, <2>1 DEF Quiet, StaysUp, Has, Slots, BasicallyDead, IsDying
  <2>2. CASE ~Has(actionQueue, {"CAN_LOSE"})
    BY <1>1, <1>5, <2>2 DEF Quiet, StaysUp, Slots, BasicallyDead, IsDying
  <2>3. CASE actionQueue = << >>
    BY <2>2, <2>3, HasNone
  <2>4. CASE ChoicePending
    <3>1. ~Has(actionQueue, {"CAN_LOSE"})
      BY <1>1, <2>4, PendingOps DEF Has, Only, ChoiceOps
    <3> QED BY <2>2, <3>1
  <2> QED BY <1>5, <2>1, <2>3, <2>4 DEF Quiet
<1> QED BY <1>1, <1>2, <1>3, <1>4, <1>5
(***************************************************************************)
(* Forced moves.  A monster that must rise or split has that plan with no  *)
(* roll queued that would change it, or the item that settles it is queued *)
(* behind every such roll.                                                 *)
(***************************************************************************)
RollOf(x, i) == x.op = "ROLL_MOVE" /\ x.tgt = i
Rolls(q, i) == \E x \in Range(q) : RollOf(x, i)
Settles(q, i, ops) ==
  \E p \in DOMAIN q : /\ q[p].op \in ops /\ q[p].tgt = i
                      /\ \A r \in DOMAIN q : r > p => ~RollOf(q[r], i)
ForcedAt(m, q, i) ==
  /\ m.half => \/ m.plan = "rebirth" /\ ~Rolls(q, i)
               \/ Settles(q, i, {"SET_MOVE", "HEAL"})
  /\ m.split /\ ~BasicallyDead(m) => \/ m.plan = "split" /\ ~Rolls(q, i)
                                     \/ Settles(q, i, {"SET_MOVE"})
Forced == \A i \in Slots : ForcedAt(monsters[i], actionQueue, i)

LEMMA SettledByTail ==
  ASSUME NEW S, NEW q \in Seq(S), q # << >>, NEW i, NEW ops, Settles(q, i, ops)
  PROVE  \/ Settles(Tail(q), i, ops)
         \/ Head(q).op \in ops /\ Head(q).tgt = i /\ ~Rolls(Tail(q), i)
<1>1. /\ Len(q) \in Nat \ {0} /\ DOMAIN q = 1 .. Len(q) /\ Head(q) = q[1]
      /\ DOMAIN Tail(q) = 1 .. Len(q) - 1
      /\ \A j \in 1 .. Len(q) - 1 : Tail(q)[j] = q[j + 1]
  BY HeadTailProperties, LenProperties, EmptySeq
<1>2. PICK p \in DOMAIN q : /\ q[p].op \in ops /\ q[p].tgt = i
                            /\ \A r \in DOMAIN q : r > p => ~RollOf(q[r], i)
  BY DEF Settles
<1>3. CASE p = 1
  <2>1. \A j \in DOMAIN Tail(q) : ~RollOf(Tail(q)[j], i)
    <3> SUFFICES ASSUME NEW j \in DOMAIN Tail(q) PROVE ~RollOf(Tail(q)[j], i)
      OBVIOUS
    <3>1. PICK r \in DOMAIN q : r = j + 1
      BY <1>1
    <3> QED BY <1>1, <1>2, <1>3, <3>1
  <2> QED BY <1>1, <1>2, <1>3, <2>1 DEF Rolls, Range
<1>4. CASE p # 1
  <2>1. PICK k \in DOMAIN Tail(q) : k = p - 1
    BY <1>1, <1>4
  <2>2. Tail(q)[k] = q[p]
    BY <1>1, <2>1
  <2>3. \A j \in DOMAIN Tail(q) : j > k => ~RollOf(Tail(q)[j], i)
    <3> SUFFICES ASSUME NEW j \in DOMAIN Tail(q), j > k PROVE ~RollOf(Tail(q)[j], i)
      OBVIOUS
    <3>1. PICK r \in DOMAIN q : r = j + 1
      BY <1>1
    <3>2. r > p
      BY <1>1, <2>1, <3>1
    <3> QED BY <1>1, <1>2, <3>1, <3>2
  <2> QED BY <1>2, <2>1, <2>2, <2>3 DEF Settles
<1> QED BY <1>3, <1>4

LEMMA SettledBetween ==
  ASSUME NEW S, NEW a \in Seq(S), NEW b \in Seq(S), NEW c \in Seq(S), NEW i, NEW ops,
         Settles(b, i, ops), ~Rolls(c, i)
  PROVE  Settles(a \o b \o c, i, ops)
<1> DEFINE s == a \o b \o c
<1>1. /\ \A p \in DOMAIN s :
           \/ p \in DOMAIN a /\ s[p] = a[p]
           \/ p - Len(a) \in DOMAIN b /\ s[p] = b[p - Len(a)]
           \/ p - Len(a) - Len(b) \in DOMAIN c /\ s[p] = c[p - Len(a) - Len(b)]
      /\ \A k \in DOMAIN b : k + Len(a) \in DOMAIN s /\ s[k + Len(a)] = b[k]
      /\ Len(a) \in Nat /\ DOMAIN s \subseteq Nat /\ DOMAIN a = 1 .. Len(a)
      /\ DOMAIN b \subseteq Nat \ {0}
  <2>1. s \in Seq(S)
    BY ThreeParts
  <2> QED BY <2>1, ThreeParts, LenProperties
<1> HIDE DEF s
<1>2. PICK k \in DOMAIN b : /\ b[k].op \in ops /\ b[k].tgt = i
                            /\ \A r \in DOMAIN b : r > k => ~RollOf(b[r], i)
  BY DEF Settles
<1>3. PICK p \in DOMAIN s : p = k + Len(a) /\ s[p] = b[k]
  BY <1>1, <1>2
<1>4. ASSUME NEW r \in DOMAIN s, r > p PROVE ~RollOf(s[r], i)
  <2>1. r \notin DOMAIN a
    BY <1>1, <1>2, <1>3, <1>4
  <2>2. CASE r - Len(a) \in DOMAIN b /\ s[r] = b[r - Len(a)]
    <3>1. PICK j \in DOMAIN b : j = r - Len(a)
      BY <2>2
    <3>2. j > k
      BY <1>1, <1>2, <1>3, <1>4, <3>1
    <3> QED BY <1>2, <2>2, <3>1, <3>2
  <2>3. CASE r - Len(a) - Len(b) \in DOMAIN c /\ s[r] = c[r - Len(a) - Len(b)]
    <3>1. PICK j \in DOMAIN c : j = r - Len(a) - Len(b)
      BY <2>3
    <3> QED BY <2>3, <3>1 DEF Rolls, Range
  <2> QED BY <1>1, <1>4, <2>1, <2>2, <2>3
<1> QED BY <1>2, <1>3, <1>4 DEF Settles, s

LEMMA SettledLast ==
  ASSUME NEW S, NEW a \in Seq(S), NEW x \in S
  PROVE  \A ops : x.op \in ops => Settles(a \o <<x>>, x.tgt, ops)
<1>1. /\ Len(a) \in Nat /\ DOMAIN (a \o <<x>>) = 1 .. Len(a) + 1
      /\ (a \o <<x>>)[Len(a) + 1] = x
  <2>1. a \o <<x>> = Append(a, x)
    BY AppendIsConcat
  <2> QED BY <2>1, AppendProperties, LenProperties
<1>2. PICK p \in DOMAIN (a \o <<x>>) : p = Len(a) + 1
  BY <1>1
<1>3. \A r \in DOMAIN (a \o <<x>>) : ~(r > p)
  BY <1>1, <1>2
<1> QED BY <1>1, <1>2, <1>3 DEF Settles

\* What running an item does to the settling of the moves.
LEMMA ExecuteSettles ==
  ASSUME BoardType, NEW item \in GoodItem, NEW q \in Seq(GoodItem), Execute(item, q), NEW i
  PROVE  /\ ~Rolls(q, i) => ~Rolls(actionQueue', i)
         /\ \A ops : Settles(q, i, ops) => Settles(actionQueue', i, ops)
<1>1. PICK pre \in Seq(Answers), post \in Seq(Sequels) : actionQueue' = pre \o q \o post
  BY ExecuteQueue
<1>2. pre \in Seq(GoodItem) /\ post \in Seq(GoodItem)
  <2>1. Answers \subseteq GoodItem /\ Sequels \subseteq GoodItem
    BY DEF Answers, Sequels
  <2> QED BY <2>1, SeqMonotonic
<1>3. ~Rolls(pre, i) /\ ~Rolls(post, i)
  <2>1. Range(pre) \subseteq Answers /\ Range(post) \subseteq Sequels
    BY RangeIn
  <2> QED BY <2>1 DEF Rolls, RollOf, Answers, Sequels
<1>4. Range(actionQueue') = Range(pre) \cup Range(q) \cup Range(post)
  BY <1>1, <1>2, RangeOfThree
<1>5. ~Rolls(q, i) => ~Rolls(actionQueue', i)
  BY <1>3, <1>4 DEF Rolls
<1>6. ASSUME NEW ops, Settles(q, i, ops) PROVE Settles(actionQueue', i, ops)
  BY <1>1, <1>2, <1>3, <1>6, SettledBetween
<1> QED BY <1>5, <1>6

\* A hit that makes a monster rise or split queues its move behind everything.
LEMMA HitSettles ==
  ASSUME BoardType, NEW item \in GoodItem, NEW q \in Seq(GoodItem), HitMonster(item, q),
         item.tgt \in Slots, NEW hit, hit = Struck(monsters[item.tgt]),
         SplitsNow(hit) \/ DownedNow(hit)
  PROVE  \A ops : "SET_MOVE" \in ops => Settles(actionQueue', item.tgt, ops)
<1>1. PICK pre, out \in Seq(GoodItem) : actionQueue' = pre \o q \o out \o ForcedMove(item, hit)
  BY HitAnswers
<1> DEFINE a == pre \o q \o out
           x == Act("SET_MOVE", item.tgt, 0)
<1>2. a \in Seq(GoodItem) /\ actionQueue' = a \o <<x>>
  BY <1>1, ConcatProperties DEF ForcedMove
<1>3. x \in GoodItem /\ x.op = "SET_MOVE" /\ x.tgt = item.tgt
  BY ActIsGood DEF Act, Item, Opcodes, GoodItem, ItemType
<1> HIDE DEF a, x
<1>4. \A ops : x.op \in ops => Settles(a \o <<x>>, x.tgt, ops)
  BY <1>2, <1>3, SettledLast
<1> QED BY <1>2, <1>3, <1>4
\* An item that settles nothing for monster i leaves its move as forced as it was.
LEMMA ForcedBehind ==
  ASSUME BoardType, actionQueue # << >>, Execute(Head(actionQueue), Tail(actionQueue)),
         NEW i, NEW m, ForcedAt(m, actionQueue, i),
         ~(Head(actionQueue).op \in {"SET_MOVE", "HEAL"} /\ Head(actionQueue).tgt = i)
  PROVE  ForcedAt(m, actionQueue', i)
<1> DEFINE item == Head(actionQueue)
           q == Tail(actionQueue)
<1>1. item \in GoodItem /\ q \in Seq(GoodItem) /\ actionQueue \in Seq(GoodItem)
  BY DEF BoardType
<1>2. ~Rolls(actionQueue, i) => ~Rolls(actionQueue', i)
  <2>1. Range(q) \subseteq Range(actionQueue)
    BY <1>1, RangeOfTail
  <2>2. ~Rolls(actionQueue, i) => ~Rolls(q, i)
    BY <2>1 DEF Rolls
  <2> QED BY <1>1, <2>2, ExecuteSettles
<1>3. \A ops \in {{"SET_MOVE", "HEAL"}, {"SET_MOVE"}} :
        Settles(actionQueue, i, ops) => Settles(actionQueue', i, ops)
  <2> SUFFICES ASSUME NEW ops \in {{"SET_MOVE", "HEAL"}, {"SET_MOVE"}},
                      Settles(actionQueue, i, ops)
               PROVE  Settles(actionQueue', i, ops)
    OBVIOUS
  <2>1. Settles(q, i, ops)
    BY <1>1, SettledByTail
  <2> QED BY <1>1, <2>1, ExecuteSettles
<1> QED BY <1>2, <1>3 DEF ForcedAt

LEMMA ForcedRecord ==
  ASSUME BoardType, KindsSound, actionQueue # << >>,
         Execute(Head(actionQueue), Tail(actionQueue)), NEW i \in Slots,
         Head(actionQueue).tgt = i, ForcedAt(monsters[i], actionQueue, i)
  PROVE  ForcedAt(NextRecord(Head(actionQueue)), actionQueue', i)
<1> DEFINE item == Head(actionQueue)
           q == Tail(actionQueue)
           m == monsters[i]
           n == NextRecord(item)
<1>1. item \in GoodItem /\ q \in Seq(GoodItem) /\ actionQueue \in Seq(GoodItem)
  BY DEF BoardType
<1>2. m \in SoundMonster /\ m \in MonsterType
  BY DEF KindsSound, SoundMonster
<1>3. m.half => m.kind = "reviver"
  BY <1>2 DEF SoundMonster
<1>4. m.split => m.kind = "splitter" /\ ~m.half
  BY <1>2 DEF SoundMonster
<1>5. CASE item.op = "DAMAGE" /\ ~AttackerCancelled(item)
  <2> DEFINE hit == Struck(m)
  <2>1. n = AfterDamage(hit) /\ HitMonster(item, q)
    BY <1>5 DEF NextRecord, Execute, ExecDamage
  <2>2. CASE SplitsNow(hit) \/ DownedNow(hit)
    <3>1. \A ops : "SET_MOVE" \in ops => Settles(actionQueue', i, ops)
      BY <1>1, <2>1, <2>2, HitSettles
    <3> QED BY <3>1 DEF ForcedAt
  <2>3. CASE ~(SplitsNow(hit) \/ DownedNow(hit))
    <3>1. n = hit
      BY <2>1, <2>3 DEF AfterDamage
    <3>2. hit.half = m.half /\ hit.split = m.split /\ hit.plan = m.plan
          /\ (IsDying(m) => IsDying(hit)) /\ hit.escaped = m.escaped
      BY <1>2 DEF Struck, IsDying, MonsterType
    <3>3. ForcedAt(m, actionQueue', i)
      BY <1>5, ForcedBehind
    <3> HIDE DEF m, n, hit
    <3>4. ForcedAt(n, actionQueue', i)
      BY <3>1, <3>2, <3>3 DEF ForcedAt, BasicallyDead
    <3> QED BY <3>4 DEF n
  <2> QED BY <2>2, <2>3
<1>6. CASE item.op = "HEAL"
  <2>1. CASE IsDying(m)
    <3>1. n = m /\ ~m.half /\ BasicallyDead(m)
      BY <1>6, <2>1 DEF NextRecord, IsDying, BasicallyDead
    <3> QED BY <3>1 DEF ForcedAt
  <2>2. CASE ~IsDying(m)
    <3>1. n = [m EXCEPT !.hp = MonsterMaxHp, !.half = FALSE]
      BY <1>6, <2>2 DEF NextRecord
    <3>2. ~n.half /\ n.split = m.split /\ n.plan = m.plan /\ n.escaped = m.escaped
      BY <1>2, <3>1 DEF MonsterType
    <3>3. Settles(actionQueue, i, {"SET_MOVE"}) => Settles(actionQueue', i, {"SET_MOVE"})
      BY <1>1, <1>6, SettledByTail, ExecuteSettles
    <3>4. ~Rolls(actionQueue, i) => ~Rolls(actionQueue', i)
      <4>1. Range(q) \subseteq Range(actionQueue)
        BY <1>1, RangeOfTail
      <4>2. ~Rolls(actionQueue, i) => ~Rolls(q, i)
        BY <4>1 DEF Rolls
      <4> QED BY <1>1, <4>2, ExecuteSettles
    <3> HIDE DEF m, n
    <3>5. ForcedAt(n, actionQueue', i)
      BY <2>2, <3>2, <3>3, <3>4 DEF ForcedAt, BasicallyDead, m
    <3> QED BY <3>5 DEF n
  <2> QED BY <2>1, <2>2
<1>7. CASE item.op = "SET_MOVE"
  <2>1. n = [m EXCEPT !.plan = ForcedPlan(m)]
    BY <1>7 DEF NextRecord, ChangedMonster
  <2>2. n.half = m.half /\ n.split = m.split /\ n.plan = ForcedPlan(m) /\ n.hp = m.hp
        /\ n.escaped = m.escaped
    BY <1>2, <2>1 DEF MonsterType
  <2>3. ASSUME NEW ops, Settles(actionQueue, i, ops)
        PROVE  Settles(actionQueue', i, ops) \/ ~Rolls(actionQueue', i)
    <3>1. Settles(q, i, ops) \/ ~Rolls(q, i)
      BY <1>1, <2>3, SettledByTail
    <3> QED BY <1>1, <3>1, ExecuteSettles
  <2>4. ~Rolls(actionQueue, i) => ~Rolls(actionQueue', i)
    <3>1. Range(q) \subseteq Range(actionQueue)
      BY <1>1, RangeOfTail
    <3>2. ~Rolls(actionQueue, i) => ~Rolls(q, i)
      BY <3>1 DEF Rolls
    <3> QED BY <1>1, <3>2, ExecuteSettles
  <2>5. m.half => n.plan = "rebirth"
    BY <1>3, <2>2 DEF ForcedPlan
  <2>6. m.split => n.plan = "split"
    BY <1>4, <2>2 DEF ForcedPlan
  <2>7. BasicallyDead(n) = BasicallyDead(m)
    BY <2>2 DEF BasicallyDead, IsDying
  <2>8. ForcedAt(m, actionQueue, i)
    OBVIOUS
  <2> HIDE DEF m, n
  <2>9. ForcedAt(n, actionQueue', i)
    BY <2>2, <2>3, <2>4, <2>5, <2>6, <2>7, <2>8 DEF ForcedAt
  <2> QED BY <2>9 DEF n
<1>8. CASE item.op = "ROLL_MOVE"
  <2>1. n = [m EXCEPT !.plan = "attack"]
    BY <1>8 DEF NextRecord, ChangedMonster
  <2>2. n.half = m.half /\ n.split = m.split /\ n.hp = m.hp /\ n.escaped = m.escaped
    BY <1>2, <2>1 DEF MonsterType
  <2>3. Rolls(actionQueue, i)
    <3>1. item \in Range(actionQueue)
      BY <1>1, RangeOfTail
    <3> QED BY <1>8, <3>1 DEF Rolls, RollOf
  <2>4. ASSUME NEW ops \in {{"SET_MOVE", "HEAL"}, {"SET_MOVE"}}, Settles(actionQueue, i, ops)
        PROVE  Settles(actionQueue', i, ops)
    <3>1. Settles(q, i, ops)
      BY <1>1, <1>8, <2>4, SettledByTail
    <3> QED BY <1>1, <3>1, ExecuteSettles
  <2>5. BasicallyDead(n) = BasicallyDead(m)
    BY <2>2 DEF BasicallyDead, IsDying
  <2>6. ForcedAt(m, actionQueue, i)
    OBVIOUS
  <2> HIDE DEF m, n
  <2>7. ForcedAt(n, actionQueue', i)
    BY <2>2, <2>3, <2>4, <2>5, <2>6 DEF ForcedAt
  <2> QED BY <2>7 DEF n
<1>9. CASE item.op \in {"SUICIDE", "ESCAPE"}
  <2>1. n \in {[m EXCEPT !.hp = 0], [m EXCEPT !.escaped = TRUE]}
    BY <1>9 DEF NextRecord, ChangedMonster
  <2>2. n.half = m.half /\ n.split = m.split /\ n.plan = m.plan
        /\ (~m.half /\ BasicallyDead(m) => BasicallyDead(n))
    BY <1>2, <2>1 DEF MonsterType, BasicallyDead, IsDying
  <2>3. ForcedAt(m, actionQueue', i)
    BY <1>9, ForcedBehind
  <2> HIDE DEF m, n
  <2>4. ForcedAt(n, actionQueue', i)
    BY <1>4, <2>2, <2>3 DEF ForcedAt
  <2> QED BY <2>4 DEF n
<1>10. CASE n = m /\ item.op \notin {"HEAL", "SET_MOVE"}
  <2>1. ForcedAt(m, actionQueue', i)
    BY <1>10, ForcedBehind
  <2> QED BY <1>10, <2>1
<1> QED BY <1>5, <1>6, <1>7, <1>8, <1>9, <1>10 DEF NextRecord

LEMMA ForcedInTurn ==
  ASSUME BoardType, KindsSound, Forced, actionQueue = << >>, NEW i \in Slots, TakeTurn(i)
  PROVE  Forced'
<1>1. /\ Slots' = Slots /\ \A j \in Slots : j # i => monsters'[j] = monsters[j]
      /\ monsters'[i] = [monsters[i] EXCEPT !.plan = monsters'[i].plan]
      /\ monsters'[i].plan \in NextPlans(monsters[i])
  BY TurnRecord
<1>2. actionQueue' = MoveProgram(i)
  BY DEF TakeTurn
<1>3. \A j, ops : ~Rolls(actionQueue, j) /\ ~Settles(actionQueue, j, ops)
  BY DEF Rolls, Settles, Range
<1>4. ASSUME NEW j \in Slots, j # i PROVE ForcedAt(monsters'[j], actionQueue', j)
  <2>1. ~Rolls(actionQueue', j)
    BY <1>2, <1>4 DEF MoveProgram, Rolls, RollOf, Range, Damage, Act, Item
  <2>2. monsters'[j] = monsters[j] /\ ForcedAt(monsters[j], actionQueue, j)
    BY <1>1, <1>4 DEF Forced
  <2> QED BY <1>3, <2>1, <2>2 DEF ForcedAt
<1>5. ForcedAt(monsters'[i], actionQueue', i)
  <2> DEFINE m == monsters[i]
             n == monsters'[i]
  <2>1. m \in SoundMonster /\ ForcedAt(m, actionQueue, i)
    BY DEF KindsSound, Forced
  <2>2. n.half = m.half /\ n.split = m.split /\ n.hp = m.hp /\ n.escaped = m.escaped
    BY <1>1, <2>1 DEF SoundMonster, MonsterType
  <2>3. m.half => m.plan = "rebirth" /\ n.plan = "rebirth"
    BY <1>1, <1>3, <2>1 DEF ForcedAt, SoundMonster, NextPlans
  <2>4. m.split /\ ~BasicallyDead(m) => m.plan = "split" /\ n.plan = "split"
    BY <1>1, <1>3, <2>1 DEF ForcedAt, SoundMonster, NextPlans
  <2>5. m.plan = "split" => ~Rolls(actionQueue', i)
    BY <1>2 DEF MoveProgram, Rolls, RollOf, Range, Act, Item
  <2>6. m.plan = "rebirth" => Settles(actionQueue', i, {"SET_MOVE", "HEAL"})
    <3>1. m.plan = "rebirth" =>
            actionQueue' = <<Act("ROLL_MOVE", i, 0), Act("HEAL", i, 0), Act("CAN_LOSE", Player, 0)>>
      BY <1>2 DEF MoveProgram
    <3> QED BY <3>1 DEF Settles, RollOf, Act, Item
  <2>7. BasicallyDead(n) = BasicallyDead(m)
    BY <2>2 DEF BasicallyDead, IsDying
  <2> HIDE DEF m, n
  <2>8. ForcedAt(n, actionQueue', i)
    BY <2>2, <2>3, <2>4, <2>5, <2>6, <2>7 DEF ForcedAt
  <2> QED BY <2>8 DEF n
<1> QED BY <1>1, <1>4, <1>5 DEF Forced
LEMMA ForcedNext ==
  ASSUME TypeInv, PileInv, Unswept, KindsSound,
         Working => SplitUnderway /\ Choosing /\ Forced, [Next]_vars, Working'
  PROVE  Forced'
<1>1. /\ Working /\ SplitUnderway /\ Choosing /\ Forced
      /\ RunsItem \/ PassesMarker \/ Quiet \/ \E i \in Slots : TurnOf(i)
  BY WorkingStep
<1>2. CASE RunsItem
  <2> DEFINE item == Head(actionQueue)
             q == Tail(actionQueue)
  <2>1. item \in GoodItem /\ q \in Seq(GoodItem) /\ BoardType /\ Execute(item, q)
        /\ actionQueue # << >> /\ actionQueue \in Seq(GoodItem)
    BY <1>2 DEF RunsItem, TypeInv, BoardType
  <2>2. CASE item.op # "SPAWN_MONSTER"
    <3>1. Slots' = Slots /\ \A i \in Slots :
            monsters'[i] = IF i = item.tgt THEN NextRecord(item) ELSE monsters[i]
      BY <2>1, <2>2, WritesOneRecord
    <3>2. ASSUME NEW i \in Slots PROVE ForcedAt(monsters'[i], actionQueue', i)
      <4>1. ForcedAt(monsters[i], actionQueue, i)
        BY <1>1 DEF Forced
      <4>2. CASE item.tgt = i
        BY <2>1, <3>1, <4>1, <4>2, ForcedRecord
      <4>3. CASE item.tgt # i
        BY <2>1, <3>1, <4>1, <4>3, ForcedBehind
      <4> QED BY <4>2, <4>3
    <3> QED BY <3>1, <3>2 DEF Forced
  <2>3. CASE item.op = "SPAWN_MONSTER"
    <3>1. Only(actionQueue, SplitOps \cup {"CAN_LOSE"}) /\ Only(q, SplitOps \cup {"CAN_LOSE"})
      BY <1>1, <2>1, <2>3, SplitQueue, HasTail DEF SplitOps
    <3>2. actionQueue' = q /\ ExecSpawn(item, q)
      BY <2>1, <2>3, ExecuteOps DEF Execute
    <3>3. \A j : ~Rolls(actionQueue', j)
      BY <3>1, <3>2 DEF Only, Rolls, RollOf, SplitOps
    <3>4. \A i : ~Settles(actionQueue, i, {"SET_MOVE", "HEAL"}) /\ ~Settles(actionQueue, i, {"SET_MOVE"})
      BY <3>1 DEF Only, Settles, Range, SplitOps
    <3>5. \A i \in Slots : /\ monsters[i].half => monsters[i].plan = "rebirth"
                           /\ monsters[i].split /\ ~BasicallyDead(monsters[i]) =>
                                monsters[i].plan = "split"
      BY <1>1, <3>4 DEF Forced, ForcedAt
    <3>6. ASSUME NEW j \in Slots' PROVE ForcedAt(monsters'[j], actionQueue', j)
      <4>1. CASE j = Behind(item)
        <5>1. monsters'[j] = Monster(Len(monsters) + 1, "slime", item.n)
          BY <2>1, <2>3, <3>2, <4>1, SpawnMovesSlots
        <5> QED BY <5>1 DEF ForcedAt, Monster
      <4>2. CASE j # Behind(item)
        <5>1. PICK i \in Slots : j = Moved(item, i)
          BY <2>1, <2>3, <3>2, <4>2, SpawnMovesSlots
        <5>2. monsters'[j] = monsters[i]
          BY <2>1, <2>3, <3>2, <5>1, SpawnMovesSlots
        <5> QED BY <3>3, <3>5, <5>2 DEF ForcedAt
      <4> QED BY <4>1, <4>2
    <3> QED BY <3>6 DEF Forced
  <2> QED BY <2>2, <2>3
<1>3. CASE PassesMarker
  <2>1. actionQueue \in Seq(GoodItem) /\ actionQueue # << >>
        /\ Head(actionQueue).op = "MONSTER_START_TURN" /\ actionQueue' = Tail(actionQueue)
        /\ monsters' = monsters
    BY <1>3 DEF PassesMarker, TypeInv, BoardType
  <2>2. \A i : Rolls(actionQueue', i) => Rolls(actionQueue, i)
    <3>1. Range(actionQueue') \subseteq Range(actionQueue)
      BY <2>1, RangeOfTail
    <3> QED BY <3>1 DEF Rolls
  <2>3. \A i : \A ops \in {{"SET_MOVE", "HEAL"}, {"SET_MOVE"}} :
          Settles(actionQueue, i, ops) => Settles(actionQueue', i, ops)
    BY <2>1, SettledByTail
  <2>4. \A i \in Slots : ForcedAt(monsters[i], actionQueue', i)
    BY <1>1, <2>2, <2>3 DEF Forced, ForcedAt
  <2> QED BY <2>1, <2>4 DEF Forced, Slots
<1>4. ASSUME NEW i \in Slots, TurnOf(i) PROVE Forced'
  BY <1>1, <1>4, ForcedInTurn DEF TurnOf, TypeInv
<1>5. CASE Quiet
  <2>1. CASE actionQueue' = actionQueue
    BY <1>1, <1>5, <2>1 DEF Quiet, Forced, Slots
  <2>2. ASSUME \A i : ~Settles(actionQueue, i, {"SET_MOVE", "HEAL"}) /\ ~Settles(actionQueue, i, {"SET_MOVE"}),
               \A i : ~Rolls(actionQueue', i)
        PROVE  Forced'
    <3>1. \A i \in Slots : ForcedAt(monsters[i], actionQueue', i)
      BY <1>1, <2>2 DEF Forced, ForcedAt
    <3> QED BY <1>5, <3>1 DEF Quiet, Forced, Slots
  <2>3. CASE actionQueue = << >> /\ (Only(actionQueue', PlayOps) \/ Only(actionQueue', ChoiceOps))
    <3>1. \A i : ~Settles(actionQueue, i, {"SET_MOVE", "HEAL"}) /\ ~Settles(actionQueue, i, {"SET_MOVE"})
      BY <2>3 DEF Settles
    <3>2. \A i : ~Rolls(actionQueue', i)
      BY <2>3 DEF Rolls, RollOf, Only, PlayOps, ChoiceOps
    <3> QED BY <2>2, <3>1, <3>2
  <2>4. CASE /\ ChoicePending
             /\ \A x \in Range(actionQueue') :
                  \/ x.op = "PLAY_CARD"
                  \/ \E y \in Range(actionQueue) : x.op = y.op
    <3>1. Only(actionQueue, ChoiceOps)
      BY <1>1, <2>4, PendingOps
    <3>2. \A i : ~Settles(actionQueue, i, {"SET_MOVE", "HEAL"}) /\ ~Settles(actionQueue, i, {"SET_MOVE"})
      BY <3>1 DEF Settles, Only, Range, ChoiceOps
    <3>3. \A i : ~Rolls(actionQueue', i)
      BY <2>4, <3>1 DEF Rolls, RollOf, Only, ChoiceOps
    <3> QED BY <2>2, <3>2, <3>3
  <2> QED BY <1>5, <2>1, <2>3, <2>4 DEF Quiet
<1> QED BY <1>1, <1>2, <1>3, <1>4, <1>5

(***************************************************************************)
(* The invariant of the field, and what follows from it.                   *)
(***************************************************************************)
FieldInv ==
  /\ KindsSound
  /\ Working => SplitUnderway /\ Choosing /\ NoEscape /\ StaysUp /\ Forced

LEMMA FieldInit == Init => FieldInv
<1> SUFFICES ASSUME Init PROVE FieldInv
  OBVIOUS
<1>1. PICK met \in Encounters :
        /\ monsters = [i \in 1 .. Len(met) |-> Monster(i, met[i], MonsterMaxHp)]
        /\ cannotLose = (\E i \in DOMAIN met : met[i] = "reviver")
  BY DEF Init
<1>2. Len(met) \in Nat /\ DOMAIN met = 1 .. Len(met)
  BY <1>1, FightAssumption, LenProperties
<1>3. Slots = 1 .. Len(met) /\ \A i \in Slots : monsters[i] = Monster(i, met[i], MonsterMaxHp)
  BY <1>1, <1>2 DEF Slots
<1>4. actionQueue = << >>
  BY DEF Init
<1>5. SplitUnderway /\ Choosing /\ NoEscape
  BY <1>4, HasNone, RangeOfNone DEF SplitUnderway, Choosing, NoEscape
<1>6. StaysUp
  BY <1>1, <1>2, <1>3, FightAssumption DEF StaysUp, Monster, BasicallyDead, IsDying
<1>7. ASSUME NEW i \in Slots PROVE monsters[i].half = FALSE /\ monsters[i].split = FALSE
  <2>1. monsters[i] = Monster(i, met[i], MonsterMaxHp)
    BY <1>3
  <2> QED BY <2>1 DEF Monster
<1>8. Forced
  BY <1>7 DEF Forced, ForcedAt
<1> QED BY <1>5, <1>6, <1>8, KindsInit DEF FieldInv

LEMMA FieldNext ==
  TypeInv /\ Unswept /\ PileInv /\ FieldInv /\ [Next]_vars => FieldInv'
<1> SUFFICES ASSUME TypeInv, Unswept, PileInv, FieldInv, [Next]_vars PROVE FieldInv'
  OBVIOUS
<1>1. KindsSound'
  BY KindsNext DEF FieldInv
<1>2. ASSUME Working' PROVE SplitUnderway' /\ Choosing' /\ NoEscape' /\ StaysUp' /\ Forced'
  BY <1>2, SplitNext, ChoosingNext, EscapeNext, StaysUpNext, ForcedNext DEF FieldInv
<1> QED BY <1>1, <1>2 DEF FieldInv

\* An Awakened One that is down will rise and a slime at half its health will split,
\* whatever was queued when it was hit (monster_awakened_one.cpp:295-311,
\* monster_slime_large.cpp:262-270).
THEOREM ForcedMovesAreKept == Spec => []ForcedMovesHold
<1>1. TypeInv /\ PileInv /\ FieldInv => ForcedMovesHold
  <2> SUFFICES ASSUME TypeInv, PileInv, FieldInv, phase = "WAITING", NEW i \in Slots
               PROVE  /\ monsters[i].half => monsters[i].plan = "rebirth"
                      /\ monsters[i].split /\ ~BasicallyDead(monsters[i]) =>
                           monsters[i].plan = "split"
    BY DEF ForcedMovesHold
  <2>1. Working /\ Choosing /\ ForcedAt(monsters[i], actionQueue, i)
    BY DEF Working, PileInv, Rest, FieldInv, Forced
  <2>2. Only(actionQueue, ChoiceOps)
    <3>1. CASE ChoicePending
      BY <2>1, <3>1, PendingOps
    <3>2. CASE ~ChoicePending
      BY <3>2, HasNone DEF PileInv, Rest
    <3> QED BY <3>1, <3>2
  <2>3. ~Settles(actionQueue, i, {"SET_MOVE", "HEAL"}) /\ ~Settles(actionQueue, i, {"SET_MOVE"})
    BY <2>2 DEF Settles, Only, Range, ChoiceOps
  <2> QED BY <2>1, <2>3 DEF ForcedAt
<1> QED BY <1>1, FieldInit, FieldNext, SpecTypeAndPiles, PTL DEF Spec
(***************************************************************************)
(* How a fight ends.  A sweep keeps what decided the fight: nobody comes   *)
(* back in it and nothing that would let a monster join is left queued.    *)
(***************************************************************************)
JoinOps == {"CANNOT_LOSE", "SPAWN_MONSTER"}
WonSweep ==
  /\ ~AnyMonsterAlive /\ ~cannotLose
  /\ ~Has(actionQueue, JoinOps) /\ ~Has(terminal.kept, JoinOps) /\ ~Has(terminal.post, JoinOps)
SweepDecided ==
  terminal.stage # "idle" =>
    \/ terminal.kind = "defeat" /\ playerHp = 0
    \/ terminal.kind = "escape" /\ playerEscaped
    \/ terminal.kind = "victory" /\ WonSweep
WonForGood == SweepDecided /\ OverMeansDecided

LEMMA DeadStayDead ==
  ASSUME BoardType, KindsSound, ~cannotLose, NEW item \in GoodItem, item.tgt \in Slots,
         BasicallyDead(monsters[item.tgt])
  PROVE  BasicallyDead(NextRecord(item))
<1> DEFINE m == monsters[item.tgt]
<1>1. m \in MonsterType /\ BasicallyDead(m)
  BY DEF KindsSound, SoundMonster
<1>2. CASE item.op = "DAMAGE" /\ ~AttackerCancelled(item)
  <2>1. NextRecord(item) = AfterDamage(Struck(m))
    BY <1>2 DEF NextRecord
  <2>2. Struck(m) \in MonsterType /\ BasicallyDead(Struck(m))
    BY <1>1 DEF Struck, BasicallyDead, IsDying, MonsterType
  <2> DEFINE s == Struck(m)
  <2>3. s \in MonsterType /\ BasicallyDead(s) /\ cannotLose = FALSE
    BY <2>2 DEF BoardType
  <2> HIDE DEF s, m
  <2>4. BasicallyDead(AfterDamage(s))
    BY <2>3 DEF AfterDamage, SplitsNow, DownedNow, BasicallyDead, IsDying, MonsterType
  <2> QED BY <2>1, <2>4 DEF s, m
<1>3. CASE item.op = "HEAL" /\ ~IsDying(m)
  <2>1. NextRecord(item) = [m EXCEPT !.hp = MonsterMaxHp, !.half = FALSE]
    BY <1>3 DEF NextRecord
  <2> QED BY <1>1, <1>3, <2>1 DEF BasicallyDead, MonsterType
<1>4. CASE item.op \in {"SUICIDE", "ESCAPE", "SET_MOVE", "ROLL_MOVE"}
  <2>1. NextRecord(item) \in {[m EXCEPT !.hp = 0], [m EXCEPT !.escaped = TRUE],
                              [m EXCEPT !.plan = ForcedPlan(m)], [m EXCEPT !.plan = "attack"]}
    BY <1>4 DEF NextRecord, ChangedMonster
  <2> QED BY <1>1, <2>1 DEF BasicallyDead, IsDying, MonsterType
<1>5. CASE NextRecord(item) = m
  BY <1>1, <1>5
<1> QED BY <1>2, <1>3, <1>4, <1>5 DEF NextRecord

LEMMA DrainKeepsWon ==
  ASSUME TypeInv, KindsSound, WonSweep, actionQueue # << >>,
         Execute(Head(actionQueue), Tail(actionQueue)),
         terminal'.kept = terminal.kept, terminal'.post = terminal.post
  PROVE  WonSweep'
<1> DEFINE item == Head(actionQueue)
           q == Tail(actionQueue)
<1>1. item \in GoodItem /\ q \in Seq(GoodItem) /\ BoardType /\ Execute(item, q)
      /\ actionQueue \in Seq(GoodItem)
  BY DEF TypeInv, BoardType
<1>2. item.op \notin JoinOps /\ ~Has(q, JoinOps)
  BY <1>1, HasTail DEF WonSweep
<1>3. ~Has(actionQueue', JoinOps)
  BY <1>1, <1>2, ExecuteOps DEF Has, JoinOps
<1>4. ~cannotLose'
  BY <1>1, <1>2
    DEF WonSweep, Execute, ExecDraw, ExecDamage, ExecHeal, ExecUseCard, ExecPlayTopDraw,
        ExecPlayCard, AutoplayTop, ExecChooseCard, ExecDiscardHand, ExecClearCardQueue,
        ExecCannotLose, ExecMonster, fight, JoinOps
<1>5. ~AnyMonsterAlive'
  <2>1. Slots' = Slots /\ \A i \in Slots :
          monsters'[i] = IF i = item.tgt THEN NextRecord(item) ELSE monsters[i]
    BY <1>1, <1>2, WritesOneRecord DEF JoinOps
  <2>2. ASSUME NEW i \in Slots PROVE BasicallyDead(monsters'[i])
    <3>1. BasicallyDead(monsters[i])
      BY DEF WonSweep, AnyMonsterAlive
    <3>2. CASE i = item.tgt
      BY <1>1, <2>1, <3>1, <3>2, DeadStayDead DEF WonSweep
    <3>3. CASE i # item.tgt
      BY <2>1, <3>1, <3>3
    <3> QED BY <3>2, <3>3
  <2> QED BY <2>1, <2>2 DEF AnyMonsterAlive, BasicallyDead, IsDying
<1> QED BY <1>3, <1>4, <1>5 DEF WonSweep, Has

LEMMA BeginDecided ==
  ASSUME TypeInv, FieldInv, BeginTerminal
  PROVE  SweepDecided'
<1>1. /\ Decided /\ Working /\ terminal' = Sweep(TerminalKind, "sort", << >>, << >>)
      /\ UNCHANGED <<actionQueue, playerHp, playerEscaped, monsters, cannotLose>>
  BY DEF BeginTerminal, fight, Working
<1>2. /\ terminal'.kind = TerminalKind /\ terminal'.kept = << >> /\ terminal'.post = << >>
  BY <1>1 DEF Sweep
<1>3. playerHp \in Nat
  BY DEF TypeInv, BoardType
<1>4. CASE playerHp = 0
  BY <1>1, <1>2, <1>4 DEF SweepDecided, TerminalKind
<1>5. CASE playerHp > 0 /\ playerEscaped
  BY <1>1, <1>2, <1>5 DEF SweepDecided, TerminalKind
<1>6. CASE playerHp > 0 /\ ~playerEscaped
  <2>1. terminal'.kind = "victory" /\ ~AnyMonsterAlive /\ ~cannotLose
    BY <1>1, <1>2, <1>6 DEF TerminalKind, Decided
  <2>2. ~Has(actionQueue, SplitOps)
    BY <1>1, <2>1, SplitQueue DEF FieldInv
  <2>3. ~Has(actionQueue', JoinOps) /\ ~Has(terminal'.kept, JoinOps)
        /\ ~Has(terminal'.post, JoinOps)
    BY <1>1, <1>2, <2>2, HasNone DEF Has, JoinOps, SplitOps
  <2>4. ~AnyMonsterAlive' /\ ~cannotLose'
    BY <1>1, <2>1 DEF AnyMonsterAlive, Slots, BasicallyDead, IsDying
  <2> QED BY <2>1, <2>3, <2>4 DEF SweepDecided, WonSweep, Has
<1> QED BY <1>3, <1>4, <1>5, <1>6

LEMMA SortDecided ==
  ASSUME TypeInv, SweepDecided, SortItem
  PROVE  SweepDecided'
<1>1. terminal \in [kind : TerminalKinds, stage : {"idle", "sort", "drain"},
                    kept : Seq(GoodItem), post : Seq(GoodItem)] /\ actionQueue \in Seq(GoodItem)
      /\ terminal.stage # "idle"
  BY DEF TypeInv, ControlType, BoardType, SortItem
<1>2. UNCHANGED <<playerHp, playerEscaped, monsters, cannotLose>> /\ terminal'.kind = terminal.kind
  BY <1>1 DEF SortItem, fight
<1>3. AnyMonsterAlive' = AnyMonsterAlive
  BY <1>2 DEF AnyMonsterAlive, Slots, BasicallyDead, IsDying
<1>4. ASSUME WonSweep PROVE ~Has(actionQueue', JoinOps) /\ ~Has(terminal'.kept, JoinOps)
                            /\ ~Has(terminal'.post, JoinOps)
  <2>1. CASE actionQueue # << >>
    <3> DEFINE x == Head(actionQueue)
    <3>1. x \in GoodItem /\ actionQueue' = Tail(actionQueue)
          /\ \/ terminal'.kept = terminal.kept /\ terminal'.post = Append(terminal.post, x)
             \/ terminal'.post = terminal.post /\ terminal'.kept = Append(terminal.kept, x)
      BY <1>1, <2>1 DEF SortItem
    <3>2. Range(Append(terminal.post, x)) = Range(terminal.post) \cup {x}
          /\ Range(Append(terminal.kept, x)) = Range(terminal.kept) \cup {x}
      <4>1. terminal.post \in Seq(GoodItem) /\ terminal.kept \in Seq(GoodItem)
        BY <1>1
      <4> QED BY <3>1, <4>1, RangeOfAppend
    <3>3. x.op \notin JoinOps /\ ~Has(Tail(actionQueue), JoinOps)
      BY <1>1, <1>4, <2>1, HasTail DEF WonSweep
    <3> QED BY <1>4, <3>1, <3>2, <3>3 DEF WonSweep, Has
  <2>2. CASE actionQueue = << >>
    <3>1. actionQueue' = terminal.post /\ terminal'.kept = terminal.kept /\ terminal'.post = << >>
      BY <1>1, <2>2 DEF SortItem
    <3> QED BY <1>4, <3>1, HasNone DEF WonSweep
  <2> QED BY <2>1, <2>2
<1>5. WonSweep => WonSweep'
  BY <1>2, <1>3, <1>4 DEF WonSweep, Has
<1> QED BY <1>1, <1>2, <1>5 DEF SweepDecided

LEMMA FinishDecided ==
  ASSUME TypeInv, SweepDecided, FinishTerminal
  PROVE  OverMeansDecided'
<1>1. terminal \in [kind : TerminalKinds, stage : {"idle", "sort", "drain"},
                    kept : Seq(GoodItem), post : Seq(GoodItem)] /\ actionQueue \in Seq(GoodItem)
      /\ terminal.stage # "idle"
  BY DEF TypeInv, ControlType, BoardType, FinishTerminal
<1>2. UNCHANGED <<playerHp, playerEscaped, monsters>> /\ actionQueue' = terminal.kept \o actionQueue
  BY DEF FinishTerminal
<1>3. AnyMonsterAlive' = AnyMonsterAlive
  BY <1>2 DEF AnyMonsterAlive, Slots, BasicallyDead, IsDying
<1>4. ResultIsTerminal'
  BY <1>1, <1>2, <1>3 DEF SweepDecided, WonSweep, ResultIsTerminal
<1>5. ASSUME playerHp > 0, ~playerEscaped
      PROVE  \A i \in DOMAIN actionQueue' : actionQueue'[i].op # "SPAWN_MONSTER"
  <2>1. ~Has(actionQueue, JoinOps) /\ ~Has(terminal.kept, JoinOps)
    BY <1>1, <1>5 DEF SweepDecided, WonSweep, TypeInv, BoardType
  <2>2. terminal.kept \in Seq(GoodItem)
    BY <1>1
  <2>3. ~Has(actionQueue', JoinOps)
    BY <1>1, <1>2, <2>1, <2>2, HasTwo
  <2> QED BY <2>3 DEF Has, Range, JoinOps
<1> QED BY <1>2, <1>4, <1>5 DEF OverMeansDecided

LEMMA WonNext ==
  TypeInv /\ Unswept /\ PileInv /\ FieldInv /\ WonForGood /\ [Next]_vars => WonForGood'
<1> SUFFICES ASSUME TypeInv, Unswept, PileInv, FieldInv, WonForGood, [Next]_vars
             PROVE  WonForGood'
  OBVIOUS
<1>1. terminal \in [kind : TerminalKinds, stage : {"idle", "sort", "drain"},
                    kept : Seq(GoodItem), post : Seq(GoodItem)]
  BY DEF TypeInv, ControlType
<1>2. terminal.stage # "idle" => phase = "RESOLVING"
  BY DEF PileInv, Rest
<1>3. CASE BeginTerminal
  <2>1. phase' # "OVER"
    BY <1>3 DEF BeginTerminal
  <2> QED BY <1>3, <2>1, BeginDecided DEF WonForGood, OverMeansDecided
<1>4. CASE SortItem
  <2>1. phase' # "OVER"
    BY <1>2, <1>4 DEF SortItem
  <2> QED BY <1>4, <2>1, SortDecided DEF WonForGood, OverMeansDecided
<1>5. CASE DrainStep
  <2>1. phase' # "OVER" /\ playerHp > 0 /\ terminal.stage # "idle" /\ actionQueue # << >>
        /\ playerEscaped' = playerEscaped
        /\ Execute(Head(actionQueue), Tail(actionQueue))
    BY <1>2, <1>5 DEF DrainStep, Draining
  <2>2. terminal'.kind = terminal.kind /\ terminal'.kept = terminal.kept
        /\ terminal'.post = terminal.post
    BY <1>1, <1>5 DEF DrainStep
  <2>3. WonSweep => WonSweep'
    BY <2>1, <2>2, DrainKeepsWon DEF FieldInv
  <2> QED BY <2>1, <2>2, <2>3 DEF WonForGood, SweepDecided, OverMeansDecided
<1>6. CASE FinishTerminal
  <2>1. terminal' = NoTerminal
    BY <1>6 DEF FinishTerminal
  <2> QED BY <1>6, <2>1, FinishDecided DEF WonForGood, SweepDecided, NoTerminal, Sweep
<1>7. CASE terminal' = terminal /\ terminal.stage = "idle" /\ phase' # "OVER"
  BY <1>7 DEF WonForGood, SweepDecided, OverMeansDecided
<1>8. CASE UNCHANGED vars
  BY <1>8 DEF WonForGood, SweepDecided, OverMeansDecided, WonSweep, ResultIsTerminal,
              AnyMonsterAlive, Slots, BasicallyDead, IsDying, Has, vars, control
<1> QED
  BY <1>2, <1>3, <1>4, <1>5, <1>6, <1>7, <1>8
    DEF Next, Pump, BeginFirstTurn, BlockOnChoice, RunAction, RunSentinel, RunCardPlay,
        QueueMonsters, RunMonster, StartSubsequentTurn, WaitForUser, AllServed, MonstersDue,
        Running, fixtures, User, PlayCard, Choose, EndTurn, DrinkChaos, DrinkSmoke, UserActs,
        board

LEMMA SpecField ==
  Spec => [](TypeInv /\ Unswept /\ PileInv /\ FieldInv /\ WonForGood)
<1>1. Init => WonForGood
  BY DEF Init, WonForGood, SweepDecided, OverMeansDecided, NoTerminal, Sweep
<1> QED BY <1>1, FieldInit, FieldNext, WonNext, SpecTypeAndPiles, PTL DEF Spec

\* A fight is over only when it is decided by the measure the result reports, and a
\* fight that was won has no monster left that was about to join: no large slime is
\* beaten between its own death and its children's arrival (action_queue.cpp:1080-1116,
\* advance.cpp:388-396, monster_slime_large.cpp:83-111).
THEOREM FightsEndDecided == Spec => []OverMeansDecided
<1>1. WonForGood => OverMeansDecided
  BY DEF WonForGood
<1> QED BY <1>1, SpecField, PTL
(***************************************************************************)
(* The end of the turn.                                                    *)
(***************************************************************************)
OnceIn(q, X) == \A p, r \in DOMAIN q : q[p] \in X /\ q[r] \in X => p = r
Lacks(q, X) == Range(q) \cap X = {}

LEMMA OnceInTail ==
  ASSUME NEW S, NEW q \in Seq(S), q # << >>, NEW X, OnceIn(q, X)
  PROVE  OnceIn(Tail(q), X) /\ (Head(q) \in X => Lacks(Tail(q), X))
<1>1. /\ Len(q) \in Nat \ {0} /\ DOMAIN q = 1 .. Len(q) /\ Head(q) = q[1]
      /\ DOMAIN Tail(q) = 1 .. Len(q) - 1
      /\ \A j \in 1 .. Len(q) - 1 : Tail(q)[j] = q[j + 1]
  BY HeadTailProperties, LenProperties, EmptySeq
<1>2. ASSUME NEW j \in DOMAIN Tail(q), NEW k \in DOMAIN Tail(q),
             Tail(q)[j] \in X, Tail(q)[k] \in X
      PROVE  j = k
  <2>1. PICK p \in DOMAIN q : p = j + 1
    BY <1>1
  <2>2. PICK r \in DOMAIN q : r = k + 1
    BY <1>1
  <2>3. p = r
    BY <1>1, <1>2, <2>1, <2>2 DEF OnceIn
  <2> QED BY <1>1, <2>1, <2>2, <2>3
<1>3. ASSUME Head(q) \in X, NEW j \in DOMAIN Tail(q), Tail(q)[j] \in X PROVE FALSE
  <2>1. PICK p \in DOMAIN q : p = j + 1
    BY <1>1
  <2>2. 1 \in DOMAIN q /\ p # 1 /\ q[p] \in X /\ q[1] \in X
    BY <1>1, <1>3, <2>1
  <2> QED BY <2>2 DEF OnceIn
<1> QED BY <1>2, <1>3 DEF OnceIn, Lacks, Range

LEMMA OnceInThree ==
  ASSUME NEW S, NEW a \in Seq(S), NEW b \in Seq(S), NEW c \in Seq(S), NEW X,
         Lacks(a, X), Lacks(c, X), OnceIn(b, X)
  PROVE  OnceIn(a \o b \o c, X)
<1> DEFINE s == a \o b \o c
<1>1. /\ \A p \in DOMAIN s :
           \/ p \in DOMAIN a /\ s[p] = a[p]
           \/ p - Len(a) \in DOMAIN b /\ s[p] = b[p - Len(a)]
           \/ p - Len(a) - Len(b) \in DOMAIN c /\ s[p] = c[p - Len(a) - Len(b)]
      /\ Len(a) \in Nat /\ DOMAIN s \subseteq Nat
  <2>1. s \in Seq(S)
    BY ThreeParts
  <2> QED BY <2>1, ThreeParts, LenProperties
<1> HIDE DEF s
<1>2. ASSUME NEW p \in DOMAIN s, s[p] \in X
      PROVE  p - Len(a) \in DOMAIN b /\ b[p - Len(a)] \in X
  <2>1. CASE p \in DOMAIN a /\ s[p] = a[p]
    BY <1>2, <2>1 DEF Lacks, Range
  <2>2. CASE p - Len(a) - Len(b) \in DOMAIN c /\ s[p] = c[p - Len(a) - Len(b)]
    BY <1>2, <2>2 DEF Lacks, Range
  <2> QED BY <1>1, <1>2, <2>1, <2>2
<1>3. ASSUME NEW p \in DOMAIN s, NEW r \in DOMAIN s, s[p] \in X, s[r] \in X
      PROVE  p = r
  <2>1. p - Len(a) = r - Len(a)
    BY <1>2, <1>3 DEF OnceIn
  <2> QED BY <1>1, <2>1
<1> QED BY <1>3 DEF OnceIn, s

LEMMA OnceInOne ==
  ASSUME NEW x, NEW X
  PROVE  OnceIn(<<x>>, X)
BY DEF OnceIn

LEMMA OnceInNone == \A X : OnceIn(<< >>, X) /\ Lacks(<< >>, X)
BY DEF OnceIn, Lacks, Range

LEMMA OnceInLacking ==
  ASSUME NEW q, NEW X, Lacks(q, X)
  PROVE  OnceIn(q, X)
BY DEF OnceIn, Lacks, Range

LEMMA OnceInLast ==
  ASSUME NEW S, NEW a \in Seq(S), NEW x \in S, NEW X, Lacks(a, X)
  PROVE  OnceIn(a \o <<x>>, X) /\ OnceIn(Append(a, x), X)
<1>1. <<x>> \in Seq(S) /\ << >> \in Seq(S) /\ a \o <<x>> \in Seq(S)
  BY OneIsSeq, EmptySeq, ConcatProperties
<1>2. OnceIn(a \o <<x>> \o << >>, X)
  BY <1>1, OnceInThree, OnceInOne, OnceInNone
<1>3. a \o <<x>> \o << >> = a \o <<x>>
  BY <1>1, ConcatEmptySeq
<1> QED BY <1>2, <1>3, AppendIsConcat

(***************************************************************************)
(* The queue of plays.                                                     *)
(***************************************************************************)
Stops == {p \in PlayType : p.card = NoCard}

\* A play of a card that is queued adds no end of the turn.
LEMMA QueuedPlays ==
  ASSUME NEW q \in Seq(PlayType), NEW x \in PlayType, x \notin Stops
  PROVE  /\ Range(QueuedOnTop(q, x)) \cap Stops = Range(q) \cap Stops
         /\ OnceIn(q, Stops) => OnceIn(QueuedOnTop(q, x), Stops)
         /\ Range(Append(q, x)) \cap Stops = Range(q) \cap Stops
         /\ OnceIn(q, Stops) => OnceIn(Append(q, x), Stops)
<1>1. Range(Append(q, x)) \cap Stops = Range(q) \cap Stops
  BY RangeOfAppend
<1>2. OnceIn(q, Stops) => OnceIn(Append(q, x), Stops)
  <2>1. << >> \in Seq(PlayType) /\ <<x>> \in Seq(PlayType) /\ << >> \o q = q
    BY EmptySeq, OneIsSeq, ConcatEmptySeq
  <2>2. Lacks(<< >>, Stops) /\ Lacks(<<x>>, Stops)
    BY OnceInNone, RangeOfOne DEF Lacks
  <2>3. OnceIn(q, Stops) => OnceIn(<< >> \o q \o <<x>>, Stops)
    BY <2>1, <2>2, OnceInThree
  <2> QED BY <2>1, <2>3, AppendIsConcat
<1>3. CASE q = << >>
  <2>1. QueuedOnTop(q, x) = <<x>>
    BY <1>3 DEF QueuedOnTop
  <2> QED BY <1>1, <1>2, <1>3, <2>1, OnceInOne, RangeOfOne, RangeOfNone
<1>4. CASE q # << >>
  <2> DEFINE r == <<Head(q), x>> \o Tail(q)
  <2>1. /\ \A i \in DOMAIN r : \/ i = 1 /\ r[i] = q[1]
                               \/ i = 2 /\ r[i] = x
                               \/ i > 2 /\ i - 1 \in DOMAIN q /\ r[i] = q[i - 1]
        /\ DOMAIN r = 1 .. Len(q) + 1
    BY <1>4, NamedByQueuedOnTop
  <2>2. Len(q) \in Nat \ {0} /\ DOMAIN q = 1 .. Len(q)
    BY <1>4, LenProperties, EmptySeq
  <2>3. Range(r) = {Head(q), x} \cup Range(Tail(q))
    <3>1. <<Head(q), x>> \in Seq(PlayType) /\ Tail(q) \in Seq(PlayType)
      BY <1>4, HeadTailProperties
    <3>2. Range(<<Head(q), x>>) = {Head(q), x}
      BY DEF Range
    <3>3. Range(<<Head(q), x>> \o Tail(q)) = Range(<<Head(q), x>>) \cup Range(Tail(q))
      BY <3>1, RangeConcatenation
    <3> QED BY <3>2, <3>3
  <2>4. Range(q) = {Head(q)} \cup Range(Tail(q))
    BY <1>4, RangeOfTail
  <2> HIDE DEF r
  <2>5. ASSUME OnceIn(q, Stops), NEW i \in DOMAIN r, NEW j \in DOMAIN r,
               r[i] \in Stops, r[j] \in Stops
        PROVE  i = j
    <3> DEFINE at(k) == IF k = 1 THEN 1 ELSE k - 1
    <3>1. \A k \in DOMAIN r : r[k] \in Stops => k # 2 /\ at(k) \in DOMAIN q /\ q[at(k)] \in Stops
      BY <2>1, <2>2
    <3>2. at(i) = at(j) /\ i # 2 /\ j # 2
      BY <2>5, <3>1 DEF OnceIn
    <3> QED BY <2>1, <2>2, <3>2
  <2>6. QueuedOnTop(q, x) = r
    BY <1>4 DEF QueuedOnTop, r
  <2> QED BY <1>1, <1>2, <2>3, <2>4, <2>5, <2>6 DEF OnceIn
<1> QED BY <1>3, <1>4
\* A use that Time Warp counts, which ends the turn at its limit.
Triggers(q) == \E x \in Range(q) : x.op = "USE_CARD" /\ x.n = Trigger
UsersTurn == monsterAttacksQueued /\ monsterQueue = << >> /\ ~turnHasEnded

LEMMA TriggersThree ==
  ASSUME NEW S, NEW a \in Seq(S), NEW b \in Seq(S), NEW c \in Seq(S)
  PROVE  /\ Triggers(a \o b \o c) <=> Triggers(a) \/ Triggers(b) \/ Triggers(c)
         /\ Triggers(a \o b) <=> Triggers(a) \/ Triggers(b)
<1>1. Range(a \o b \o c) = Range(a) \cup Range(b) \cup Range(c)
  BY RangeOfThree
<1>2. Range(a \o b) = Range(a) \cup Range(b)
  BY RangeConcatenation
<1> QED BY <1>1, <1>2 DEF Triggers

LEMMA TriggersTail ==
  ASSUME NEW S, NEW q \in Seq(S), q # << >>
  PROVE  Triggers(q) <=> Triggers(Tail(q)) \/ (Head(q).op = "USE_CARD" /\ Head(q).n = Trigger)
<1>1. Range(q) = {Head(q)} \cup Range(Tail(q))
  BY RangeOfTail
<1> QED BY <1>1 DEF Triggers

LEMMA TriggersNone == ~Triggers(<< >>)
BY RangeOfNone DEF Triggers

\* Running an item adds no counted use, wakes no monster's turn, and puts an end of
\* the turn in the card queue only as a counted use.
LEMMA ExecuteStops ==
  ASSUME BoardType, NEW item \in GoodItem, NEW q \in Seq(GoodItem), Execute(item, q),
         OnceIn(cardQueue, Stops)
  PROVE  /\ monsterQueue = << >> => monsterQueue' = << >>
         /\ Triggers(actionQueue') => Triggers(q)
         /\ OnceIn(cardQueue', Stops)
         /\ ~(item.op = "USE_CARD" /\ item.n = Trigger) /\ Lacks(cardQueue, Stops) =>
              Lacks(cardQueue', Stops)
<1>1. monsterQueue = << >> => monsterQueue' = << >>
  <2>1. CASE item.op = "SPAWN_MONSTER"
    <3>1. BoardType' /\ ExecSpawn(item, q)
      BY <2>1, ExecuteType DEF Execute
    <3>2. monsterQueue' \in Seq(Nat) /\ DOMAIN monsterQueue' = DOMAIN monsterQueue
      BY <3>1 DEF BoardType, ExecSpawn, SpawnMonster
    <3> QED BY <3>2, LenProperties, EmptySeq
  <2>2. CASE item.op # "SPAWN_MONSTER"
    BY <2>2
      DEF Execute, ExecDraw, ExecDamage, ExecHeal, ExecUseCard, ExecPlayTopDraw, ExecPlayCard,
          AutoplayTop, ExecChooseCard, ExecDiscardHand, ExecClearCardQueue, ExecCannotLose,
          ExecMonster, fight
  <2> QED BY <2>1, <2>2
<1>2. Triggers(actionQueue') => Triggers(q)
  BY ExecuteOps DEF Triggers
<1>3. CASE item.op \in {"PLAY_TOP_DRAW", "PLAY_CARD"}
  <2>1. \/ cardQueue' = cardQueue
        \/ \E x \in PlayType : /\ x \notin Stops
                               /\ cardQueue' \in {QueuedOnTop(cardQueue, x), Append(cardQueue, x)}
    <3>1. PICK byHavoc \in BOOLEAN, tgt \in Nat : AutoplayTop(byHavoc, tgt, q)
      <4>1. RandomTargets \subseteq Nat
        BY SlotsFinite DEF RandomTargets, Targets, Player
      <4>2. item.tgt \in Nat
        BY DEF GoodItem, ItemType
      <4> QED BY <1>3, <4>1, <4>2 DEF Execute, ExecPlayTopDraw, ExecPlayCard
    <3>2. ASSUME NEW c \in Card,
                 cardQueue' = IF byHavoc THEN QueuedOnTop(cardQueue, Play(c, tgt))
                              ELSE Append(cardQueue, Play(c, tgt))
          PROVE  \E x \in PlayType :
                   /\ x \notin Stops
                   /\ cardQueue' \in {QueuedOnTop(cardQueue, x), Append(cardQueue, x)}
      <4>1. Play(c, tgt) \in PlayType /\ Play(c, tgt) \notin Stops
        BY PlayIsTyped, CardAssumption DEF Play, Stops
      <4> QED BY <3>2, <4>1
    <3> QED BY <3>1, <3>2 DEF AutoplayTop, cards, BoardType
  <2>2. cardQueue \in Seq(PlayType)
    BY DEF BoardType
  <2>3. ASSUME NEW x \in PlayType, x \notin Stops,
               cardQueue' \in {QueuedOnTop(cardQueue, x), Append(cardQueue, x)}
        PROVE  OnceIn(cardQueue', Stops) /\ (Lacks(cardQueue, Stops) => Lacks(cardQueue', Stops))
    <3>1. /\ Range(QueuedOnTop(cardQueue, x)) \cap Stops = Range(cardQueue) \cap Stops
          /\ OnceIn(QueuedOnTop(cardQueue, x), Stops)
          /\ Range(Append(cardQueue, x)) \cap Stops = Range(cardQueue) \cap Stops
          /\ OnceIn(Append(cardQueue, x), Stops)
      BY <2>2, <2>3, QueuedPlays
    <3> QED BY <2>3, <3>1 DEF Lacks
  <2> QED BY <1>1, <1>2, <2>1, <2>3
<1>4. CASE item.op = "USE_CARD"
  <2>1. \/ cardQueue' = cardQueue
        \/ item.n = Trigger /\ cardQueue' = <<EndTurnSentinel>>
    BY <1>4 DEF Execute, ExecUseCard, EndPlayerTurn
  <2> QED BY <1>1, <1>2, <1>4, <2>1, OnceInOne
<1>5. CASE cardQueue' \in {cardQueue, << >>}
  BY <1>1, <1>2, <1>5, OnceInNone
<1>6. CASE item.op \notin {"PLAY_TOP_DRAW", "PLAY_CARD", "USE_CARD"}
  <2>1. cardQueue' \in {cardQueue, << >>}
    BY <1>6
      DEF Execute, ExecDraw, ExecDamage, ExecHeal, ExecChooseCard, ExecDiscardHand,
          ExecClearCardQueue, ExecCannotLose, ExecSpawn, ExecMonster, cards
  <2> QED BY <1>5, <2>1
<1> QED BY <1>3, <1>4, <1>6

(***************************************************************************)
(* The items that end the turn: the hand's discard and the marker that     *)
(* takes its place.                                                        *)
(***************************************************************************)
EndOps == {"DISCARD_HAND", "MONSTER_START_TURN"}
Ends == {x \in GoodItem : x.op \in EndOps}

LEMMA LacksEnds ==
  ASSUME NEW q \in Seq(GoodItem)
  PROVE  Lacks(q, Ends) <=> ~Has(q, EndOps)
BY RangeIn DEF Lacks, Has, Ends

LEMMA ExecuteEnds ==
  ASSUME BoardType, actionQueue # << >>, Execute(Head(actionQueue), Tail(actionQueue)),
         OnceIn(actionQueue, Ends)
  PROVE  /\ OnceIn(actionQueue', Ends)
         /\ Lacks(actionQueue', Ends) <=> Lacks(actionQueue, Ends)
<1> DEFINE item == Head(actionQueue)
           q == Tail(actionQueue)
<1>1. /\ actionQueue \in Seq(GoodItem) /\ item \in GoodItem /\ q \in Seq(GoodItem)
      /\ Execute(item, q)
  BY DEF BoardType
<1>2. Range(actionQueue) = {item} \cup Range(q) /\ OnceIn(q, Ends)
      /\ (item \in Ends => Lacks(q, Ends))
  BY <1>1, RangeOfTail, OnceInTail
<1> HIDE DEF item, q
<1>3. PICK pre \in Seq(Answers), post \in Seq(Sequels) :
        /\ actionQueue' = pre \o q \o post
        /\ item.op # "DAMAGE" => pre = << >>
        /\ item.op \notin {"DAMAGE", "DISCARD_HAND"} => post = << >>
        /\ item.op = "DISCARD_HAND" => post = <<Act("MONSTER_START_TURN", Player, 0)>>
        /\ item.op = "DAMAGE" => \A i \in DOMAIN post : post[i].op # "MONSTER_START_TURN"
  BY <1>1, ExecuteQueue
<1>4. pre \in Seq(GoodItem) /\ post \in Seq(GoodItem) /\ Lacks(pre, Ends)
  <2>1. Answers \subseteq GoodItem /\ Sequels \subseteq GoodItem
    BY DEF Answers, Sequels
  <2>2. Range(pre) \subseteq Answers
    BY RangeIn
  <2> QED BY <2>1, <2>2, SeqMonotonic DEF Lacks, Ends, EndOps, Answers
<1>5. Range(actionQueue') = Range(pre) \cup Range(q) \cup Range(post)
  BY <1>1, <1>3, <1>4, RangeOfThree
<1>6. CASE item.op = "DISCARD_HAND"
  <2> DEFINE x == Act("MONSTER_START_TURN", Player, 0)
  <2>1. x \in Ends /\ x \in GoodItem
    BY ActIsGood DEF Opcodes, Player, Ends, EndOps, Act, Item
  <2>2. item \in Ends
    BY <1>1, <1>6 DEF Ends, EndOps
  <2>3. post = <<x>> /\ pre = << >>
    BY <1>3, <1>6
  <2> HIDE DEF x
  <2>4. Range(post) = {x}
    BY <2>3, RangeOfOne
  <2>5. OnceIn(q \o <<x>>, Ends)
    BY <1>1, <1>2, <2>1, <2>2, OnceInLast
  <2>6. actionQueue' = q \o <<x>>
    BY <1>1, <1>3, <2>3, ConcatEmptySeq
  <2> QED BY <1>2, <1>5, <2>1, <2>2, <2>4, <2>5, <2>6 DEF Lacks
<1>7. CASE item.op # "DISCARD_HAND"
  <2>1. Lacks(post, Ends)
    <3>1. CASE item.op = "DAMAGE"
      BY <1>3, <3>1, RangeIn DEF Lacks, Range, Ends, EndOps, Sequels
    <3>2. CASE item.op # "DAMAGE"
      BY <1>3, <1>7, <3>2, OnceInNone
    <3> QED BY <3>1, <3>2
  <2>2. item \notin Ends
    BY <1>1, <1>7 DEF Ends, EndOps, Execute
  <2>3. OnceIn(actionQueue', Ends)
    BY <1>1, <1>2, <1>3, <1>4, <2>1, OnceInThree
  <2> QED BY <1>2, <1>4, <1>5, <2>1, <2>2, <2>3 DEF Lacks
<1> QED BY <1>6, <1>7
(***************************************************************************)
(* The invariant of the turn.  An end of the turn that is queued, and a    *)
(* use that could queue one, is there only in the user's own turn; while   *)
(* the turn is being ended, the one item that ends it is queued.           *)
(***************************************************************************)
StopsInUsersTurn ==
  /\ OnceIn(cardQueue, Stops)
  /\ ~Lacks(cardQueue, Stops) => UsersTurn
UsesInUsersTurn ==
  Triggers(actionQueue) \/ Triggers(terminal.kept) \/ Triggers(terminal.post) => UsersTurn
EndIsQueued ==
  /\ OnceIn(actionQueue, Ends)
  /\ ~Lacks(actionQueue, Ends) => ~turnHasEnded /\ ~monsterAttacksQueued
  /\ Lacks(actionQueue, Ends) /\ ~turnHasEnded => monsterAttacksQueued /\ monsterQueue = << >>
UserDecides ==
  /\ phase = "WAITING" /\ ~ChoicePending => UsersTurn
  /\ phase = "NONE" => turn = 0 /\ UsersTurn
TurnInv ==
  /\ StopsInUsersTurn /\ UsesInUsersTurn /\ UserDecides
  /\ ~monsterAttacksQueued => monsterQueue = << >>
  /\ Working => EndIsQueued

LEMMA TurnInit == Init => TurnInv
<1> SUFFICES ASSUME Init PROVE TurnInv
  OBVIOUS
<1>1. /\ actionQueue = << >> /\ cardQueue = << >> /\ UsersTurn /\ turn = 0
      /\ terminal.kept = << >> /\ terminal.post = << >> /\ phase = "NONE"
  BY DEF Init, UsersTurn, NoTerminal, Sweep
<1> QED
  BY <1>1, OnceInNone, TriggersNone
    DEF TurnInv, StopsInUsersTurn, UsesInUsersTurn, UserDecides, EndIsQueued, UsersTurn

\* In the user's turn everything holds of a queue without an end of the turn.
LEMMA UsersTurnHolds ==
  ASSUME UsersTurn', OnceIn(cardQueue', Stops), phase' # "NONE", Lacks(actionQueue', Ends)
  PROVE  TurnInv'
BY OnceInLacking
  DEF TurnInv, StopsInUsersTurn, UsesInUsersTurn, UserDecides, EndIsQueued, UsersTurn, ChoicePending

LEMMA EndOfOne ==
  ASSUME NEW x, x.op \notin EndOps
  PROVE  Lacks(<<x>>, Ends)
BY RangeOfOne DEF Lacks, Ends

LEMMA StartsTurn ==
  ASSUME TypeInv, PileInv, TurnInv, BeginFirstTurn \/ StartSubsequentTurn
  PROVE  TurnInv'
<1>1. actionQueue' = <<Act("DRAW", Player, HandSize)>> /\ phase' = "RESOLVING"
  BY DEF BeginFirstTurn, StartSubsequentTurn, StartOfTurn, AllServed, MonstersDue, Running
<1>2. Lacks(actionQueue', Ends)
  BY <1>1, EndOfOne DEF Act, Item, EndOps
<1>3. UsersTurn' /\ cardQueue' = << >>
  BY DEF BeginFirstTurn, StartSubsequentTurn, StartOfTurn, AllServed, MonstersDue, TurnInv,
         UserDecides, UsersTurn, PileInv, Rest, cards, fight
<1> QED BY <1>1, <1>2, <1>3, UsersTurnHolds, OnceInNone

LEMMA RunActionTurn ==
  ASSUME TypeInv, Unswept, TurnInv, RunAction
  PROVE  TurnInv'
<1> DEFINE item == Head(actionQueue)
           q == Tail(actionQueue)
<1>1. /\ actionQueue \in Seq(GoodItem) /\ item \in GoodItem /\ q \in Seq(GoodItem)
      /\ BoardType /\ actionQueue # << >> /\ phase = "RESOLVING" /\ Working
      /\ UNCHANGED <<phase, turn, monsterAttacksQueued, terminal>>
  BY DEF RunAction, Running, TypeInv, BoardType, fixtures, Working
<1>2. EndIsQueued
  BY <1>1 DEF TurnInv
<1>3. CASE Execute(item, q) /\ UNCHANGED turnHasEnded
  <2>1. /\ monsterQueue = << >> => monsterQueue' = << >>
        /\ Triggers(actionQueue') => Triggers(q)
        /\ OnceIn(cardQueue', Stops)
        /\ ~(item.op = "USE_CARD" /\ item.n = Trigger) /\ Lacks(cardQueue, Stops) =>
              Lacks(cardQueue', Stops)
    BY <1>1, <1>3, ExecuteStops DEF TurnInv, StopsInUsersTurn
  <2>2. UsersTurn => UsersTurn'
    BY <1>1, <1>3, <2>1 DEF UsersTurn
  <2>3. Triggers(actionQueue) <=> Triggers(q) \/ (item.op = "USE_CARD" /\ item.n = Trigger)
    BY <1>1, TriggersTail
  <2>4. StopsInUsersTurn' /\ UsesInUsersTurn'
    BY <1>1, <2>1, <2>2, <2>3 DEF TurnInv, StopsInUsersTurn, UsesInUsersTurn, Lacks, Triggers
  <2>5. OnceIn(actionQueue', Ends) /\ (Lacks(actionQueue', Ends) <=> Lacks(actionQueue, Ends))
    BY <1>1, <1>2, <1>3, ExecuteEnds DEF EndIsQueued
  <2>6. EndIsQueued'
    BY <1>1, <1>2, <1>3, <2>1, <2>5 DEF EndIsQueued, OnceIn, Lacks
  <2> QED BY <1>1, <2>1, <2>4, <2>6 DEF TurnInv, UserDecides
<1>4. CASE RunMonsterStartTurn
  <2>1. /\ actionQueue' = q /\ turnHasEnded' = TRUE /\ item.op = "MONSTER_START_TURN"
        /\ UNCHANGED <<cardQueue, monsterQueue>>
    BY <1>4 DEF RunMonsterStartTurn, cards, fight
  <2>2. Range(actionQueue) = {item} \cup Range(q)
    BY <1>1, RangeOfTail
  <2>3. item \in Ends
    BY <1>1, <2>1 DEF Ends, EndOps
  <2>4. ~turnHasEnded /\ ~monsterAttacksQueued /\ Lacks(q, Ends)
    BY <1>1, <1>2, <2>2, <2>3, OnceInTail DEF EndIsQueued, Lacks
  <2>5. ~UsersTurn
    BY <2>4 DEF UsersTurn
  <2>6. Lacks(cardQueue', Stops) /\ ~Triggers(actionQueue') /\ ~Triggers(terminal'.kept)
        /\ ~Triggers(terminal'.post)
    BY <1>1, <2>1, <2>2, <2>5 DEF TurnInv, StopsInUsersTurn, UsesInUsersTurn, Triggers, Lacks
  <2>7. EndIsQueued'
    BY <2>1, <2>4, OnceInLacking DEF EndIsQueued, OnceIn, Lacks
  <2> QED
    BY <1>1, <2>1, <2>6, <2>7, OnceInLacking
      DEF TurnInv, UserDecides, StopsInUsersTurn, UsesInUsersTurn, OnceIn, Lacks, Triggers
<1> QED BY <1>3, <1>4 DEF RunAction

LEMMA SentinelTurn ==
  ASSUME TypeInv, Unswept, TurnInv, RunSentinel
  PROVE  TurnInv'
<1>1. PICK burns \in Arrangements({c \in hand : EndOfTurnTrigger(c)}) :
        actionQueue' = BurnProgram(burns) \o <<Act("DISCARD_HAND", Player, 0)>>
  BY DEF RunSentinel
<1>2. /\ cardQueue \in Seq(PlayType) /\ cardQueue # << >> /\ Head(cardQueue) \in Stops
      /\ cardQueue' = Tail(cardQueue) /\ monsterAttacksQueued' = FALSE
      /\ phase = "RESOLVING" /\ Working
      /\ UNCHANGED <<phase, turn, turnHasEnded, monsterQueue, terminal>>
  <2>1. Head(cardQueue) \in PlayType
    BY DEF RunSentinel, TypeInv, BoardType
  <2> QED BY <2>1 DEF RunSentinel, TypeInv, BoardType, IsSentinel, Stops, Running, Working,
                      fight, fixtures
<1>3. Range(cardQueue) = {Head(cardQueue)} \cup Range(Tail(cardQueue))
  BY <1>2, RangeOfTail
<1>4. UsersTurn /\ Lacks(cardQueue', Stops)
  BY <1>2, <1>3, OnceInTail DEF TurnInv, StopsInUsersTurn, Lacks
<1>5. burns \in Seq(Card)
  <2>1. IsFiniteSet({c \in hand : EndOfTurnTrigger(c)})
        /\ {c \in hand : EndOfTurnTrigger(c)} \subseteq Card
    <3>1. {c \in hand : EndOfTurnTrigger(c)} \subseteq Card
      BY DEF TypeInv, BoardType
    <3> QED BY <3>1, CardAssumption, FS_Subset
  <2> QED BY <2>1, ArrangedType
<1> DEFINE x == Act("DISCARD_HAND", Player, 0)
<1>6. BurnProgram(burns) \in Seq(GoodItem) /\ x \in GoodItem /\ x \in Ends
  BY <1>5, BurnProgramType, ActIsGood DEF Opcodes, Player, Ends, EndOps, Act, Item
<1>7. Lacks(BurnProgram(burns), Ends)
  BY <1>5, BurnOps DEF Only, Lacks, Ends, EndOps
<1>8. OnceIn(actionQueue', Ends)
  BY <1>1, <1>6, <1>7, OnceInLast
<1>9. ~Lacks(actionQueue', Ends)
  <2>1. <<x>> \in Seq(GoodItem)
    BY <1>6, OneIsSeq
  <2>2. Range(BurnProgram(burns) \o <<x>>) = Range(BurnProgram(burns)) \cup Range(<<x>>)
    BY <1>6, <2>1, RangeConcatenation
  <2>3. Range(<<x>>) = {x}
    BY RangeOfOne
  <2> QED BY <1>1, <1>6, <2>2, <2>3 DEF Lacks
<1>10. ~Triggers(actionQueue')
  <2>1. \A y \in Range(actionQueue') : y.op = "USE_CARD" => y.n = DontTrigger
    BY <1>1, <1>5, SentinelOps
  <2> QED BY <2>1 DEF Triggers, Trigger, DontTrigger
<1>11. terminal.kept = << >> /\ terminal.post = << >>
  BY <1>2 DEF Working, Unswept, NoTerminal, Sweep
<1>12. ~Triggers(terminal'.kept) /\ ~Triggers(terminal'.post)
  BY <1>2, <1>11, TriggersNone
<1> HIDE DEF x
<1>13. StopsInUsersTurn' /\ UsesInUsersTurn'
  BY <1>4, <1>10, <1>12, OnceInLacking
    DEF StopsInUsersTurn, UsesInUsersTurn, OnceIn, Lacks, Triggers
<1>14. EndIsQueued'
  BY <1>2, <1>4, <1>8, <1>9 DEF EndIsQueued, UsersTurn, OnceIn, Lacks
<1> QED BY <1>2, <1>4, <1>13, <1>14 DEF TurnInv, UserDecides, UsersTurn
LEMMA CardPlayTurn ==
  ASSUME TypeInv, Unswept, TurnInv, RunCardPlay
  PROVE  TurnInv'
<1> DEFINE play == Head(cardQueue)
<1>1. /\ cardQueue \in Seq(PlayType) /\ cardQueue # << >> /\ play \in PlayType
      /\ cardQueue' = Tail(cardQueue) /\ actionQueue = << >>
      /\ phase = "RESOLVING" /\ Working
      /\ UNCHANGED <<phase, turn, turnHasEnded, monsterAttacksQueued, monsterQueue, terminal>>
  BY DEF RunCardPlay, TypeInv, BoardType, Running, Working, fight, fixtures
<1>2. /\ OnceIn(cardQueue', Stops)
      /\ Lacks(cardQueue, Stops) => Lacks(cardQueue', Stops)
  <2>1. Range(cardQueue) = {play} \cup Range(Tail(cardQueue))
    BY <1>1, RangeOfTail
  <2> QED BY <1>1, <2>1, OnceInTail DEF TurnInv, StopsInUsersTurn, Lacks
<1>3. Lacks(actionQueue, Ends) /\ EndIsQueued
  BY <1>1, OnceInNone DEF TurnInv
<1>4. terminal.kept = << >> /\ terminal.post = << >>
  BY <1>1 DEF Working, Unswept, NoTerminal, Sweep
<1>5. ASSUME Triggers(actionQueue') PROVE ~turnHasEnded
  <2>1. CASE RejectPlay(play)
    <3>1. \A x \in Range(actionQueue') : x = UseCard(play.card, DontTrigger)
      BY <2>1, RangeOfOne, RangeOfNone DEF RejectPlay
    <3> QED BY <1>5, <3>1 DEF Triggers, UseCard, Item, Trigger, DontTrigger
  <2>2. CASE VanishPlay(play)
    BY <1>1, <1>5, <2>2, TriggersNone DEF VanishPlay
  <2>3. CASE AcceptPlay(play)
    BY <2>3 DEF AcceptPlay, CardCanUse, CardCanUseWithoutTarget
  <2> QED BY <2>1, <2>2, <2>3 DEF RunCardPlay
<1>6. Lacks(actionQueue', Ends)
  <2>1. play.card \in Card /\ play.tgt \in Nat
    BY <1>1 DEF RunCardPlay, IsSentinel, PlayType
  <2>2. CASE RejectPlay(play)
    <3>1. \A x \in Range(actionQueue') : x = UseCard(play.card, DontTrigger)
      BY <2>2, RangeOfOne, RangeOfNone DEF RejectPlay
    <3> QED BY <3>1 DEF Lacks, Ends, EndOps, UseCard, Item
  <2>3. CASE VanishPlay(play)
    BY <1>1, <2>3, OnceInNone DEF VanishPlay
  <2>4. CASE AcceptPlay(play)
    <3> DEFINE r == Effects(play.card, play.tgt) \o <<UseCard(play.card, Trigger)>>
    <3>1. (Only(r, PlayOps) \/ Only(r, ChoiceOps)) /\ ~Has(r, {"DISCARD_HAND"})
      BY <2>1, EffectsOps
    <3>2. actionQueue' = r
      BY <2>4 DEF AcceptPlay
    <3> HIDE DEF r
    <3> QED BY <3>1, <3>2 DEF Lacks, Ends, EndOps, Only, Has, PlayOps, ChoiceOps
  <2> QED BY <2>2, <2>3, <2>4 DEF RunCardPlay
<1>7. UsersTurn' = UsersTurn
  BY <1>1 DEF UsersTurn
<1>8. ~turnHasEnded => UsersTurn
  BY <1>3 DEF EndIsQueued, UsersTurn
<1>9. StopsInUsersTurn'
  BY <1>2, <1>7 DEF TurnInv, StopsInUsersTurn, OnceIn, Lacks
<1>10. ~Triggers(terminal'.kept) /\ ~Triggers(terminal'.post)
  BY <1>1, <1>4, TriggersNone
<1>11. UsesInUsersTurn'
  BY <1>5, <1>7, <1>8, <1>10 DEF UsesInUsersTurn, Triggers
<1>12. EndIsQueued'
  BY <1>1, <1>3, <1>6, OnceInLacking DEF EndIsQueued, OnceIn, Lacks
<1> QED BY <1>1, <1>9, <1>11, <1>12 DEF TurnInv, UserDecides

LEMMA MonstersTurn ==
  ASSUME TypeInv, Unswept, TurnInv, QueueMonsters \/ RunMonster
  PROVE  TurnInv'
<1>1. /\ actionQueue = << >> /\ cardQueue = << >> /\ cardQueue' = << >>
      /\ phase = "RESOLVING" /\ Working /\ turnHasEnded' = turnHasEnded
      /\ monsterAttacksQueued' = TRUE /\ UNCHANGED <<phase, terminal>>
  BY DEF QueueMonsters, RunMonster, MonstersDue, Running, Working, fixtures, cards, TypeInv,
         ControlType
<1>2. turnHasEnded
  BY <1>1, OnceInNone DEF TurnInv, EndIsQueued, QueueMonsters, RunMonster
<1>3. Lacks(actionQueue', Ends) /\ ~Triggers(actionQueue')
  <2>1. CASE actionQueue' = actionQueue
    BY <1>1, <2>1, OnceInNone, TriggersNone
  <2>2. ASSUME NEW i, actionQueue' = MoveProgram(i)
        PROVE  Only(actionQueue', Opcodes \ (EndOps \cup {"USE_CARD"}))
    BY <2>2 DEF MoveProgram, Only, Range, Damage, Act, Item, Opcodes, EndOps
  <2>3. ASSUME Only(actionQueue', Opcodes \ (EndOps \cup {"USE_CARD"}))
        PROVE  Lacks(actionQueue', Ends) /\ ~Triggers(actionQueue')
    BY <2>3 DEF Only, Lacks, Ends, Triggers
  <2> QED BY <2>1, <2>2, <2>3 DEF QueueMonsters, RunMonster, TakeTurn
<1>4. terminal.kept = << >> /\ terminal.post = << >>
  BY <1>1 DEF Working, Unswept, NoTerminal, Sweep
<1>5. ~Triggers(terminal'.kept) /\ ~Triggers(terminal'.post)
  BY <1>1, <1>4, TriggersNone
<1>6. StopsInUsersTurn' /\ UsesInUsersTurn'
  BY <1>1, <1>3, <1>5, OnceInNone
    DEF StopsInUsersTurn, UsesInUsersTurn, OnceIn, Lacks, Triggers
<1>7. EndIsQueued'
  BY <1>1, <1>2, <1>3, OnceInLacking DEF EndIsQueued, OnceIn, Lacks
<1> QED BY <1>1, <1>6, <1>7 DEF TurnInv, UserDecides

\* When nothing is left to do the turn is the user's: the fight is undecided, so
\* a monster is left or an Awakened One is down, and an ended turn goes on.
LEMMA WaitTurn ==
  ASSUME TypeInv, Unswept, FieldInv, TurnInv, WaitForUser
  PROVE  TurnInv'
<1>1. /\ actionQueue = << >> /\ cardQueue = << >> /\ cardQueue' = << >> /\ Working
      /\ monsterAttacksQueued /\ monsterQueue = << >> /\ ~Decided
      /\ UNCHANGED <<turnHasEnded, monsterAttacksQueued, monsterQueue>>
  BY DEF WaitForUser, AllServed, MonstersDue, Running, Working, cards, fight
<1>2. AnyMonsterAlive
  <2>1. cannotLose => AnyMonsterAlive
    BY <1>1, HasNone DEF FieldInv, StaysUp, AnyMonsterAlive
  <2> QED BY <1>1, <2>1 DEF Decided
<1>3. UsersTurn /\ UsersTurn'
  BY <1>1, <1>2 DEF WaitForUser, UsersTurn
<1>4. Lacks(actionQueue', Ends)
  <2>1. actionQueue' \in {<< >>, <<Act("DRAW", Player, 1)>>}
    BY <1>1 DEF WaitForUser
  <2>2. Lacks(<<Act("DRAW", Player, 1)>>, Ends)
    BY EndOfOne DEF Act, Item, EndOps
  <2> QED BY <2>1, <2>2, OnceInNone
<1>5. phase' # "NONE"
  BY DEF WaitForUser, AllServed, MonstersDue, Running
<1> QED BY <1>1, <1>3, <1>4, <1>5, UsersTurnHolds, OnceInNone

LEMMA SweepTurn ==
  ASSUME TypeInv, Unswept, PileInv, TurnInv,
         BeginTerminal \/ SortItem \/ DrainStep \/ FinishTerminal
  PROVE  TurnInv'
<1>1. /\ actionQueue \in Seq(GoodItem) /\ BoardType
      /\ terminal \in [kind : TerminalKinds, stage : {"idle", "sort", "drain"},
                       kept : Seq(GoodItem), post : Seq(GoodItem)]
      /\ terminal.kept \in Seq(GoodItem) /\ terminal.post \in Seq(GoodItem)
      /\ phase = "RESOLVING"
  BY DEF TypeInv, ControlType, BoardType, PileInv, Rest, BeginTerminal, SortItem, DrainStep,
         Draining, FinishTerminal
<1>2. ~Working' /\ phase' \in {"RESOLVING", "OVER"}
      /\ UNCHANGED <<turn, turnHasEnded, monsterAttacksQueued>>
  <2>1. CASE BeginTerminal
    BY <1>1, <2>1 DEF BeginTerminal, Working, Sweep
  <2>2. CASE SortItem
    <3>1. terminal'.stage \in {"sort", "drain"}
      BY <1>1, <2>2 DEF SortItem
    <3> QED BY <1>1, <2>2, <3>1 DEF SortItem, Working
  <2>3. CASE DrainStep
    <3>1. terminal'.stage \in {"sort", "drain"}
      BY <1>1, <2>3 DEF DrainStep, Draining
    <3> QED BY <1>1, <2>3, <3>1 DEF DrainStep, Working
  <2>4. CASE FinishTerminal
    BY <2>4 DEF FinishTerminal, Working
  <2> QED BY <2>1, <2>2, <2>3, <2>4
<1>3. SUFFICES /\ monsterQueue = << >> => monsterQueue' = << >>
               /\ StopsInUsersTurn'
               /\ Triggers(actionQueue') \/ Triggers(terminal'.kept) \/ Triggers(terminal'.post)
                    => Triggers(actionQueue) \/ Triggers(terminal.kept) \/ Triggers(terminal.post)
  <2>1. UsersTurn => UsersTurn'
    BY <1>2, <1>3 DEF UsersTurn
  <2>2. UsesInUsersTurn'
    BY <1>3, <2>1 DEF TurnInv, UsesInUsersTurn, Triggers
  <2> QED BY <1>2, <1>3, <2>2 DEF TurnInv, UserDecides
<1>4. CASE BeginTerminal
  <2>1. UNCHANGED <<actionQueue, cardQueue, monsterQueue>>
        /\ terminal'.kept = << >> /\ terminal'.post = << >>
    BY <1>4 DEF BeginTerminal, Sweep, cards, fight
  <2> QED BY <1>2, <2>1, TriggersNone
          DEF TurnInv, StopsInUsersTurn, UsersTurn, OnceIn, Lacks, Triggers
<1>5. CASE SortItem
  <2>1. UNCHANGED <<cardQueue, monsterQueue>>
    BY <1>5 DEF SortItem, cards, fight
  <2>2. StopsInUsersTurn'
    BY <1>2, <2>1 DEF TurnInv, StopsInUsersTurn, UsersTurn, OnceIn, Lacks
  <2>3. CASE actionQueue # << >>
    <3> DEFINE x == Head(actionQueue)
    <3>1. x \in GoodItem /\ actionQueue' = Tail(actionQueue)
          /\ \/ terminal'.kept = terminal.kept /\ terminal'.post = Append(terminal.post, x)
             \/ terminal'.post = terminal.post /\ terminal'.kept = Append(terminal.kept, x)
      BY <1>1, <1>5, <2>3 DEF SortItem
    <3>2. Range(Append(terminal.post, x)) = Range(terminal.post) \cup {x}
          /\ Range(Append(terminal.kept, x)) = Range(terminal.kept) \cup {x}
      BY <1>1, <3>1, RangeOfAppend
    <3>3. Range(actionQueue) = {x} \cup Range(Tail(actionQueue))
      BY <1>1, <2>3, RangeOfTail
    <3> QED BY <2>1, <2>2, <3>1, <3>2, <3>3 DEF Triggers
  <2>4. CASE actionQueue = << >>
    <3>1. actionQueue' = terminal.post /\ terminal'.kept = terminal.kept /\ terminal'.post = << >>
      BY <1>1, <1>5, <2>4 DEF SortItem
    <3> QED BY <2>1, <2>2, <3>1, TriggersNone
  <2> QED BY <2>3, <2>4
<1>6. CASE DrainStep
  <2> DEFINE item == Head(actionQueue)
             q == Tail(actionQueue)
  <2>1. /\ actionQueue # << >> /\ item \in GoodItem /\ q \in Seq(GoodItem) /\ Execute(item, q)
        /\ terminal'.kept = terminal.kept /\ terminal'.post = terminal.post
    BY <1>1, <1>6 DEF DrainStep, Draining
  <2>2. /\ monsterQueue = << >> => monsterQueue' = << >>
        /\ Triggers(actionQueue') => Triggers(q)
        /\ OnceIn(cardQueue', Stops)
        /\ ~(item.op = "USE_CARD" /\ item.n = Trigger) /\ Lacks(cardQueue, Stops) =>
              Lacks(cardQueue', Stops)
    BY <1>1, <2>1, ExecuteStops DEF TurnInv, StopsInUsersTurn
  <2>3. UsersTurn => UsersTurn'
    BY <1>2, <2>2 DEF UsersTurn
  <2>4. Triggers(actionQueue) <=> Triggers(q) \/ (item.op = "USE_CARD" /\ item.n = Trigger)
    BY <1>1, <2>1, TriggersTail
  <2>5. StopsInUsersTurn'
    BY <2>2, <2>3, <2>4 DEF TurnInv, StopsInUsersTurn, UsesInUsersTurn, Lacks
  <2> QED BY <2>1, <2>2, <2>4, <2>5 DEF Triggers
<1>7. CASE FinishTerminal
  <2>1. /\ actionQueue' = terminal.kept \o actionQueue /\ cardQueue' = << >>
        /\ monsterQueue' = monsterQueue /\ terminal'.kept = << >> /\ terminal'.post = << >>
    BY <1>7 DEF FinishTerminal, NoTerminal, Sweep
  <2>2. Triggers(terminal.kept \o actionQueue) <=> Triggers(terminal.kept) \/ Triggers(actionQueue)
    BY <1>1, TriggersThree
  <2>3. StopsInUsersTurn'
    BY <2>1, OnceInNone DEF StopsInUsersTurn, OnceIn, Lacks
  <2> QED BY <2>1, <2>2, <2>3, TriggersNone DEF Triggers
<1> QED BY <1>4, <1>5, <1>6, <1>7
LEMMA UserTurn ==
  ASSUME TypeInv, Unswept, PileInv, TurnInv, User
  PROVE  TurnInv'
<1>1. /\ phase = "WAITING" /\ phase' = "RESOLVING" /\ Working /\ Working'
      /\ actionQueue \in Seq(GoodItem)
      /\ UNCHANGED <<turn, turnHasEnded, monsterAttacksQueued, monsterQueue, terminal>>
  BY DEF User, PlayCard, EndTurn, Choose, DrinkChaos, DrinkSmoke, UserActs, board, Working,
         PileInv, Rest, TypeInv, BoardType
<1>2. EndIsQueued
  BY <1>1 DEF TurnInv
<1>3. UsersTurn' = UsersTurn
  BY <1>1 DEF UsersTurn
<1>4. CASE ~ChoicePending /\ actionQueue' = actionQueue
           /\ \E x \in PlayType : cardQueue' = Append(cardQueue, x)
  <2>1. PICK x \in PlayType : cardQueue' = Append(cardQueue, x)
    BY <1>4
  <2>2. cardQueue = << >> /\ actionQueue = << >> /\ UsersTurn
    BY <1>1, <1>4 DEF PileInv, Rest, TurnInv, UserDecides
  <2>3. cardQueue' = <<x>>
    BY <2>1, <2>2
  <2> QED BY <1>1, <1>3, <1>4, <2>2, <2>3, UsersTurnHolds, OnceInOne, OnceInNone
<1>5. CASE cardQueue' = cardQueue
           /\ (Lacks(actionQueue', Ends) <=> Lacks(actionQueue, Ends))
           /\ OnceIn(actionQueue', Ends) /\ (Triggers(actionQueue') => Triggers(actionQueue))
  BY <1>1, <1>2, <1>3, <1>5
    DEF TurnInv, StopsInUsersTurn, UsesInUsersTurn, EndIsQueued, UserDecides, OnceIn, Lacks,
        Triggers
<1>6. ASSUME NEW c \in hand, NEW t \in Slots, PlayCard(c, t)
      PROVE  TurnInv'
  <2>1. c \in Card /\ t \in Nat
    BY SlotsFinite DEF TypeInv, BoardType
  <2> QED BY <1>4, <1>6, <2>1, PlayIsTyped DEF PlayCard
<1>7. CASE EndTurn
  BY <1>4, <1>7, SentinelIsTyped DEF EndTurn
<1>8. ASSUME NEW c \in hand, Choose(c)
      PROVE  TurnInv'
  <2>1. /\ DOMAIN actionQueue' = DOMAIN actionQueue
        /\ \A i \in DOMAIN actionQueue : /\ actionQueue'[i].op = actionQueue[i].op
                                         /\ i # 1 => actionQueue'[i] = actionQueue[i]
        /\ actionQueue # << >> /\ Head(actionQueue).op = "CHOOSE_CARD"
        /\ actionQueue[1] = Head(actionQueue) /\ 1 \in DOMAIN actionQueue
    BY <1>8, ChooseOps
  <2>2. \A i \in DOMAIN actionQueue : actionQueue'[i] \in Ends <=> actionQueue[i] \in Ends
    BY <2>1 DEF Ends, EndOps
  <2>3. Triggers(actionQueue') => Triggers(actionQueue)
    BY <2>1 DEF Triggers, Range
  <2>4. cardQueue' = cardQueue
    BY <1>8 DEF Choose
  <2>5. OnceIn(actionQueue', Ends) /\ (Lacks(actionQueue', Ends) <=> Lacks(actionQueue, Ends))
    BY <1>2, <2>1, <2>2 DEF EndIsQueued, OnceIn, Lacks, Range
  <2> QED BY <1>5, <2>3, <2>4, <2>5
<1>9. CASE DrinkChaos
  <2>1. PICK plays \in Seq(GoodItem) :
          actionQueue' = actionQueue \o plays /\ Only(plays, {"PLAY_CARD"})
    BY <1>9, ChaosOps
  <2>2. Lacks(plays, Ends) /\ ~Triggers(plays)
    BY <2>1 DEF Only, Lacks, Ends, EndOps, Triggers
  <2>3. Range(actionQueue \o plays) = Range(actionQueue) \cup Range(plays)
    BY <1>1, RangeConcatenation
  <2>4. OnceIn(actionQueue', Ends)
    <3>1. << >> \in Seq(GoodItem) /\ << >> \o actionQueue = actionQueue
      BY <1>1, EmptySeq, ConcatEmptySeq
    <3>2. OnceIn(<< >> \o actionQueue \o plays, Ends)
      BY <1>1, <1>2, <2>2, <3>1, OnceInThree, OnceInNone DEF EndIsQueued
    <3> QED BY <2>1, <3>1, <3>2
  <2>5. (Lacks(actionQueue', Ends) <=> Lacks(actionQueue, Ends))
        /\ (Triggers(actionQueue') => Triggers(actionQueue))
    BY <2>1, <2>2, <2>3 DEF Lacks, Triggers
  <2> QED BY <1>5, <1>9, <2>4, <2>5 DEF DrinkChaos, cards
<1>10. CASE DrinkSmoke
  BY <1>2, <1>5, <1>10 DEF DrinkSmoke, EndIsQueued, Lacks, OnceIn, Triggers
<1> QED BY <1>6, <1>7, <1>8, <1>9, <1>10 DEF User

LEMMA TurnNext ==
  TypeInv /\ Unswept /\ PileInv /\ FieldInv /\ TurnInv /\ [Next]_vars => TurnInv'
<1> SUFFICES ASSUME TypeInv, Unswept, PileInv, FieldInv, TurnInv, [Next]_vars PROVE TurnInv'
  OBVIOUS
<1>1. CASE BeginFirstTurn
  BY <1>1, StartsTurn
<1>2. CASE Pump
  <2>1. CASE BlockOnChoice
    BY <2>1
      DEF BlockOnChoice, Running, Working, fixtures, TurnInv, StopsInUsersTurn,
          UsesInUsersTurn, UserDecides, EndIsQueued, UsersTurn, OnceIn, Lacks, Triggers,
          ChoicePending, ChoiceRequiresUser, piles
  <2> QED BY <1>2, <2>1, RunActionTurn, SentinelTurn, CardPlayTurn, MonstersTurn, StartsTurn,
             WaitTurn, SweepTurn DEF Pump
<1>3. CASE User
  BY <1>3, UserTurn
<1>4. CASE UNCHANGED vars
  BY <1>4
    DEF vars, control, piles, Working, TurnInv, StopsInUsersTurn, UsesInUsersTurn, UserDecides,
        EndIsQueued, UsersTurn, OnceIn, Lacks, Triggers, ChoicePending, ChoiceRequiresUser
<1> QED BY <1>1, <1>2, <1>3, <1>4 DEF Next

LEMMA SpecTurn == Spec => [](TypeInv /\ Unswept /\ PileInv /\ FieldInv /\ TurnInv)
<1> QED BY TurnInit, TurnNext, SpecField, PTL DEF Spec

\* A turn is ended once: the user's END_TURN and Time Warp's forced one never meet in
\* the card queue, and none waits there once the turn is being ended
\* (action_queue.cpp:1250-1289, interp.cpp:377-394, advance.cpp:540-546).
THEOREM OneEndPerTurn == Spec => []TurnEndsOnce
<1>1. TypeInv /\ TurnInv => TurnEndsOnce
  <2> SUFFICES ASSUME TypeInv, TurnInv PROVE TurnEndsOnce
    OBVIOUS
  <2>1. \A i \in Sentinels : cardQueue[i] \in Stops /\ cardQueue[i] \in Range(cardQueue)
    BY ElementOfSeq, LenProperties
      DEF Sentinels, IsSentinel, Stops, TypeInv, BoardType, Range
  <2>2. Sentinels # {} => UsersTurn
    BY <2>1 DEF TurnInv, StopsInUsersTurn, Lacks
  <2>3. \A i, j \in Sentinels : i = j
    BY <2>1 DEF TurnInv, StopsInUsersTurn, OnceIn, Sentinels
  <2>4. Cardinality(Sentinels) <= 1
    <3>1. CASE Sentinels = {}
      <4>1. Cardinality(Sentinels) = 0
        BY <3>1, FS_EmptySet
      <4> QED BY <4>1
    <3>2. CASE Sentinels # {}
      <4>1. PICK i \in Sentinels : Sentinels = {i}
        BY <2>3, <3>2
      <4>2. Cardinality(Sentinels) = 1
        BY <4>1, FS_Singleton
      <4> QED BY <4>2
    <3> QED BY <3>1, <3>2
  <2> QED BY <2>2, <2>4 DEF TurnEndsOnce, UsersTurn
<1> QED BY <1>1, SpecTurn, PTL
(***************************************************************************)
(* The rounds.  Every record has its own number, slots or not, and every   *)
(* monster that is owed a turn is owed one.                                *)
(***************************************************************************)
InFight == IdsAt({i \in Slots : ~BasicallyDead(monsters[i])})
Owed == IdsAt({monsterQueue[k] : k \in DOMAIN monsterQueue})
OwnIds ==
  /\ \A i \in Slots : monsters[i].id \in Slots
  /\ \A i, j \in Slots : monsters[i].id = monsters[j].id => i = j
OwedOnce ==
  /\ \A k \in DOMAIN monsterQueue : monsterQueue[k] \in Slots
  /\ \A k, l \in DOMAIN monsterQueue : monsterQueue[k] = monsterQueue[l] => k = l
IdInv == OwnIds /\ OwedOnce

LEMMA InOrderLists ==
  ASSUME NEW S, IsFiniteSet(S), S \subseteq Nat, NEW q \in InOrder(S)
  PROVE  /\ q \in Seq(S)
         /\ \A k, l \in DOMAIN q : q[k] = q[l] => k = l
         /\ {q[k] : k \in DOMAIN q} = S
<1>1. /\ Cardinality(S) \in Nat /\ q \in [1 .. Cardinality(S) -> S] /\ q \in Seq(S)
      /\ \A k, l \in DOMAIN q : k < l => q[k] < q[l]
  BY FS_CardinalityType, InOrderType DEF InOrder
<1>2. ASSUME NEW k \in DOMAIN q, NEW l \in DOMAIN q, q[k] = q[l] PROVE k = l
  <2>0. DOMAIN q = 1 .. Cardinality(S) /\ \A p \in DOMAIN q : q[p] \in S
    BY <1>1
  <2>1. k \in Nat /\ l \in Nat /\ q[k] \in Nat /\ q[l] \in Nat
    <3>1. k \in 1 .. Cardinality(S) /\ l \in 1 .. Cardinality(S) /\ q[k] \in S /\ q[l] \in S
      BY <2>0, Zenon
    <3>2. k \in Nat /\ l \in Nat
      BY <3>1
    <3> QED BY <3>1, <3>2
  <2>2. ~(q[k] < q[l]) /\ ~(q[l] < q[k])
    BY <1>2, <2>1
  <2>3. ~(k < l) /\ ~(l < k)
    BY <1>1, <2>2
  <2> QED BY <2>1, <2>3
<1>3. q \in Surjection(1 .. Cardinality(S), S)
  <2>1. q \in Injection(1 .. Cardinality(S), S)
    BY <1>1, <1>2 DEF Injection, IsInjective
  <2>2. Cardinality(1 .. Cardinality(S)) = Cardinality(S)
    BY <1>1, FS_Interval
  <2> QED BY <2>1, <2>2, FS_Injection
<1>4. \A x \in S : \E k \in 1 .. Cardinality(S) : q[k] = x
  BY <1>3 DEF Surjection
<1>5. DOMAIN q = 1 .. Cardinality(S) /\ \A k \in DOMAIN q : q[k] \in S
  BY <1>1
<1>6. {q[k] : k \in DOMAIN q} = S
  BY <1>4, <1>5
<1> QED BY <1>1, <1>2, <1>6

\* Running an item leaves every record its number and owes the same monsters a turn,
\* a spawn that moves the slots included.
LEMMA ExecuteIds ==
  ASSUME BoardType, KindsSound, IdInv, NEW item \in GoodItem, NEW q, Execute(item, q)
  PROVE  IdInv' /\ Owed' = Owed
<1>1. CASE item.op # "SPAWN_MONSTER"
  <2>1. Slots' = Slots /\ \A i \in Slots : monsters'[i].id = monsters[i].id
    BY <1>1, WritesOneRecord, NextRecordSound
  <2>2. monsterQueue' = monsterQueue
    BY <1>1
      DEF Execute, ExecDraw, ExecDamage, ExecHeal, ExecUseCard, ExecPlayTopDraw, ExecPlayCard,
          AutoplayTop, ExecChooseCard, ExecDiscardHand, ExecClearCardQueue, ExecCannotLose,
          ExecMonster, fight
  <2>3. IdInv'
    BY <2>1, <2>2 DEF IdInv, OwnIds, OwedOnce
  <2>4. Owed' = Owed
    BY <2>1, <2>2 DEF IdInv, OwedOnce, Owed, IdsAt
  <2> QED BY <2>3, <2>4
<1>2. CASE item.op = "SPAWN_MONSTER"
  <2> DEFINE at == Behind(item)
  <2>1. ExecSpawn(item, q)
    BY <1>2 DEF Execute
  <2>2. /\ Len(monsters') = Len(monsters) + 1 /\ at \in Slots'
        /\ monsters'[at] = Monster(Len(monsters) + 1, "slime", item.n)
        /\ \A i \in Slots : Moved(item, i) \in Slots' /\ monsters'[Moved(item, i)] = monsters[i]
        /\ \A j \in Slots' : j # at => \E i \in Slots : j = Moved(item, i)
    BY <1>2, <2>1, SpawnMovesSlots
  <2>3. monsterQueue' = [k \in DOMAIN monsterQueue |-> Moved(item, monsterQueue[k])]
    BY <2>1 DEF ExecSpawn, SpawnMonster, Moved, Behind
  <2>4. /\ Len(monsters) \in Nat /\ Slots = 1 .. Len(monsters)
        /\ Slots' = 1 .. Len(monsters) + 1 /\ at \in Nat
    BY <2>2, LenProperties DEF BoardType, Slots
  <2>5. monsters'[at].id = Len(monsters) + 1
    BY <2>2 DEF Monster
  <2>6. \A i, j \in Slots : Moved(item, i) = Moved(item, j) => i = j
    BY <2>4 DEF Moved
  <2> HIDE DEF at
  <2>7. OwnIds'
    <3>1. ASSUME NEW j \in Slots'
          PROVE  \/ j = at /\ monsters'[j].id = Len(monsters) + 1
                 \/ \E i \in Slots : j = Moved(item, i) /\ monsters'[j].id = monsters[i].id
      BY <2>2, <2>5
    <3>2. \A i \in Slots : monsters[i].id \in 1 .. Len(monsters)
      BY <2>4 DEF IdInv, OwnIds
    <3>3. \A j \in Slots' : monsters'[j].id \in Slots'
      BY <2>4, <3>1, <3>2
    <3>4. ASSUME NEW j \in Slots', NEW k \in Slots', monsters'[j].id = monsters'[k].id
          PROVE  j = k
      <4>1. CASE j = at /\ monsters'[j].id = Len(monsters) + 1
        BY <2>4, <3>1, <3>2, <3>4, <4>1
      <4>2. CASE k = at /\ monsters'[k].id = Len(monsters) + 1
        BY <2>4, <3>1, <3>2, <3>4, <4>2
      <4>3. ASSUME NEW i \in Slots, NEW l \in Slots, j = Moved(item, i), k = Moved(item, l),
                   monsters'[j].id = monsters[i].id, monsters'[k].id = monsters[l].id
            PROVE  j = k
        BY <3>4, <4>3 DEF IdInv, OwnIds
      <4> QED BY <3>1, <4>1, <4>2, <4>3
    <3> QED BY <3>3, <3>4 DEF OwnIds
  <2>8. \A k \in DOMAIN monsterQueue : monsterQueue[k] \in Slots
    BY DEF IdInv, OwedOnce
  <2>9. OwedOnce'
    BY <2>2, <2>3, <2>6, <2>8 DEF IdInv, OwedOnce
  <2>10. Owed' = Owed
    <3>1. \A k \in DOMAIN monsterQueue :
            monsters'[monsterQueue'[k]].id = monsters[monsterQueue[k]].id
      BY <2>2, <2>3, <2>8
    <3>2. DOMAIN monsterQueue' = DOMAIN monsterQueue
      BY <2>3
    <3> QED BY <3>1, <3>2 DEF Owed, IdsAt
  <2> QED BY <2>7, <2>9, <2>10 DEF IdInv
<1> QED BY <1>1, <1>2

LEMMA IdInit == Init => IdInv
<1> SUFFICES ASSUME Init PROVE IdInv
  OBVIOUS
<1>1. PICK met \in Encounters :
        monsters = [i \in 1 .. Len(met) |-> Monster(i, met[i], MonsterMaxHp)]
  BY DEF Init
<1>2. Len(met) \in Nat
  BY FightAssumption, LenProperties
<1>3. Slots = 1 .. Len(met) /\ \A i \in Slots : monsters[i] = Monster(i, met[i], MonsterMaxHp)
  BY <1>1, <1>2 DEF Slots
<1>4. ASSUME NEW i \in Slots PROVE monsters[i].id = i
  <2>1. monsters[i] = Monster(i, met[i], MonsterMaxHp)
    BY <1>3
  <2> QED BY <2>1 DEF Monster
<1>5. DOMAIN monsterQueue = {}
  BY DEF Init
<1> QED BY <1>4, <1>5 DEF IdInv, OwnIds, OwedOnce

\* The records and the monsters owed a turn stay what they are.
SameField == UNCHANGED <<monsters, monsterQueue>>

LEMMA SameFieldIds ==
  ASSUME SameField
  PROVE  (IdInv => IdInv') /\ Owed' = Owed /\ InFight' = InFight
BY DEF SameField, IdInv, OwnIds, OwedOnce, Owed, InFight, IdsAt, Slots, BasicallyDead, IsDying

LEMMA MusterIds ==
  ASSUME TypeInv, TurnInv, IdInv, QueueMonsters
  PROVE  IdInv' /\ Owed' = InFight /\ InFight' = InFight
<1>1. PICK queue \in InOrder(MonstersToQueue) : monsterQueue' = monsterQueue \o queue
  BY DEF QueueMonsters
<1>2. monsters' = monsters /\ Slots' = Slots
  BY DEF QueueMonsters, Slots
<1>3. IsFiniteSet(MonstersToQueue) /\ MonstersToQueue \subseteq Nat
      /\ MonstersToQueue \subseteq Slots
  BY SlotsFinite, FS_Subset DEF MonstersToQueue, TypeInv
<1>4. /\ queue \in Seq(MonstersToQueue)
      /\ \A k, l \in DOMAIN queue : queue[k] = queue[l] => k = l
      /\ {queue[k] : k \in DOMAIN queue} = MonstersToQueue
  BY <1>3, InOrderLists
<1>5. monsterQueue' = queue
  <2>1. monsterQueue = << >>
    BY DEF QueueMonsters, TurnInv
  <2> QED BY <1>1, <1>4, <2>1, ConcatEmptySeq
<1>6. IdInv'
  BY <1>2, <1>3, <1>4, <1>5 DEF IdInv, OwnIds, OwedOnce
<1>7. Owed' = IdsAt(MonstersToQueue)
  <2>1. Owed' = {monsters'[i].id : i \in {monsterQueue'[k] : k \in DOMAIN monsterQueue'}}
    BY DEF Owed, IdsAt
  <2> QED BY <1>2, <1>4, <1>5, <2>1 DEF IdsAt
<1>8. IdsAt(MonstersToQueue) = InFight /\ InFight' = InFight
  <2>1. InFight' = InFight
    BY <1>2 DEF IdsAt, InFight, BasicallyDead, IsDying
  <2> QED BY <2>1 DEF InFight, MonstersToQueue
<1> QED BY <1>6, <1>7, <1>8

LEMMA ServedIds ==
  ASSUME TypeInv, IdInv, RunMonster
  PROVE  IdInv' /\ InFight' = InFight /\ \E m \in Owed : Owed' = Owed \ {m}
<1> DEFINE i == Head(monsterQueue)
<1>1. /\ monsterQueue # << >> /\ monsterQueue' = Tail(monsterQueue) /\ monsterQueue \in Seq(Nat)
      /\ BoardType
  BY DEF RunMonster, TypeInv, BoardType
<1>2. /\ Len(monsterQueue) \in Nat \ {0} /\ DOMAIN monsterQueue = 1 .. Len(monsterQueue)
      /\ i = monsterQueue[1] /\ DOMAIN monsterQueue' = 1 .. Len(monsterQueue) - 1
      /\ \A k \in 1 .. Len(monsterQueue) - 1 : monsterQueue'[k] = monsterQueue[k + 1]
  BY <1>1, HeadTailProperties, LenProperties, EmptySeq
<1>3. i \in Slots
  BY <1>2 DEF IdInv, OwedOnce
<1>4. /\ Slots' = Slots
      /\ \A j \in Slots : /\ monsters'[j].id = monsters[j].id
                          /\ BasicallyDead(monsters'[j]) <=> BasicallyDead(monsters[j])
  <2>1. CASE UNCHANGED monsters
    BY <2>1 DEF Slots
  <2>2. CASE TakeTurn(i)
    <3>1. /\ Slots' = Slots /\ \A j \in Slots : j # i => monsters'[j] = monsters[j]
          /\ monsters'[i] = [monsters[i] EXCEPT !.plan = monsters'[i].plan]
          /\ monsters[i] \in MonsterType
      BY <1>1, <1>3, <2>2, TurnRecord, SlotOf
    <3>2. monsters'[i].id = monsters[i].id
          /\ (BasicallyDead(monsters'[i]) <=> BasicallyDead(monsters[i]))
      BY <3>1 DEF MonsterType, BasicallyDead, IsDying
    <3> QED BY <3>1, <3>2
  <2> QED BY <2>1, <2>2 DEF RunMonster
<1>5. InFight' = InFight
  <2>1. {j \in Slots' : ~BasicallyDead(monsters'[j])} = {j \in Slots : ~BasicallyDead(monsters[j])}
    BY <1>4
  <2>2. InFight' = {monsters'[j].id : j \in {k \in Slots' : ~BasicallyDead(monsters'[k])}}
    BY DEF InFight, IdsAt, BasicallyDead, IsDying
  <2> QED BY <1>4, <2>1, <2>2 DEF InFight, IdsAt
<1>6. \A k \in DOMAIN monsterQueue : k # 1 =>
         k - 1 \in DOMAIN monsterQueue' /\ monsterQueue'[k - 1] = monsterQueue[k]
  BY <1>2
<1>7. \A k \in DOMAIN monsterQueue' :
         \E l \in DOMAIN monsterQueue : l # 1 /\ l = k + 1 /\ monsterQueue'[k] = monsterQueue[l]
  <2> SUFFICES ASSUME NEW k \in DOMAIN monsterQueue'
               PROVE  \E l \in DOMAIN monsterQueue :
                        l # 1 /\ l = k + 1 /\ monsterQueue'[k] = monsterQueue[l]
    OBVIOUS
  <2>1. PICK l \in DOMAIN monsterQueue : l = k + 1
    BY <1>2
  <2> QED BY <1>2, <2>1
<1>8. OwedOnce'
  <2>1. \A k \in DOMAIN monsterQueue' : monsterQueue'[k] \in Slots'
    BY <1>4, <1>7 DEF IdInv, OwedOnce
  <2>2. ASSUME NEW k \in DOMAIN monsterQueue', NEW l \in DOMAIN monsterQueue',
               monsterQueue'[k] = monsterQueue'[l]
        PROVE  k = l
    <3>1. PICK p \in DOMAIN monsterQueue : p = k + 1 /\ monsterQueue'[k] = monsterQueue[p]
      BY <1>7
    <3>2. PICK r \in DOMAIN monsterQueue : r = l + 1 /\ monsterQueue'[l] = monsterQueue[r]
      BY <1>7
    <3>3. p = r
      BY <2>2, <3>1, <3>2 DEF IdInv, OwedOnce
    <3> QED BY <1>2, <3>1, <3>2, <3>3
  <2> QED BY <2>1, <2>2 DEF OwedOnce
<1>9. IdInv'
  BY <1>4, <1>8 DEF IdInv, OwnIds
<1>10. Owed' = Owed \ {monsters[i].id} /\ monsters[i].id \in Owed
  <2>1. Owed = {monsters[monsterQueue[k]].id : k \in DOMAIN monsterQueue}
    BY DEF Owed, IdsAt
  <2>2. Owed' = {monsters'[monsterQueue'[k]].id : k \in DOMAIN monsterQueue'}
    BY DEF Owed, IdsAt
  <2>3. \A k \in DOMAIN monsterQueue' : monsters'[monsterQueue'[k]].id = monsters[monsterQueue'[k]].id
    BY <1>4, <1>8 DEF OwedOnce
  <2>4. \A k \in DOMAIN monsterQueue : k # 1 => monsters[monsterQueue[k]].id # monsters[i].id
    BY <1>2, <1>3 DEF IdInv, OwnIds, OwedOnce
  <2>5. 1 \in DOMAIN monsterQueue
    BY <1>2
  <2> HIDE DEF i
  <2>6. Owed' \subseteq Owed \ {monsters[i].id}
    BY <1>7, <2>1, <2>2, <2>3, <2>4
  <2>7. ASSUME NEW k \in DOMAIN monsterQueue, monsters[monsterQueue[k]].id # monsters[i].id
        PROVE  monsters[monsterQueue[k]].id \in Owed'
    <3>1. k # 1
      BY <1>2, <2>7
    <3>2. k - 1 \in DOMAIN monsterQueue' /\ monsterQueue'[k - 1] = monsterQueue[k]
      BY <1>6, <3>1
    <3> QED BY <2>2, <2>3, <3>2
  <2> QED BY <1>2, <2>1, <2>5, <2>6, <2>7
<1> QED BY <1>5, <1>9, <1>10
\* The steps of CombatRound, in terms of the fight.
LEMMA RoundSteps ==
  /\ Stage = "start" /\ Stage' = "player" /\ turn' = 1 /\ InFight' = InFight /\ Owed' = Owed
       => Round!Next
  /\ Stage \notin {"start", "over"} /\ InFight' \in SUBSET Nat /\ Stage' = Stage
       /\ turn' = turn /\ Owed' = Owed
       => Round!Next
  /\ Stage = "player" /\ Stage' = "ending" /\ turn' = turn /\ InFight' = InFight /\ Owed' = Owed
       => Round!Next
  /\ Stage = "ending" /\ Stage' = "called" /\ turn' = turn /\ InFight' = InFight /\ Owed' = Owed
       => Round!Next
  /\ Stage = "called" /\ Stage' = "acting" /\ turn' = turn /\ InFight' = InFight
       /\ Owed' = InFight
       => Round!Next
  /\ Stage = "acting" /\ (\E m \in Owed : Owed' = Owed \ {m}) /\ Stage' = Stage
       /\ turn' = turn /\ InFight' = InFight
       => Round!Next
  /\ Stage = "acting" /\ Owed = {} /\ InFight # {} /\ Stage' = "player" /\ turn' = turn + 1
       /\ InFight' = InFight /\ Owed' = Owed
       => Round!Next
  /\ Stage \notin {"start", "over"} /\ Stage' = "over" /\ turn' = turn /\ InFight' = InFight
       /\ Owed' = Owed
       => Round!Next
  /\ Stage' = Stage /\ turn' = turn /\ InFight' = InFight /\ Owed' = Owed
       => UNCHANGED Round!vars
BY DEF Round!Next, Round!Begin, Round!Battle, Round!EndTurn, Round!CallMonsters, Round!Muster,
       Round!Served, Round!NextRound, Round!Over, Round!vars, InFight, Owed

LEMMA StageIs ==
  ASSUME TypeInv
  PROVE  /\ phase = "NONE" <=> Stage = "start"
         /\ phase = "OVER" <=> Stage = "over"
         /\ phase \in {"RESOLVING", "WAITING"} =>
              /\ Stage = "player" <=> ~turnHasEnded /\ monsterAttacksQueued
              /\ Stage = "ending" <=> ~turnHasEnded /\ ~monsterAttacksQueued
              /\ Stage = "called" <=> turnHasEnded /\ ~monsterAttacksQueued
              /\ Stage = "acting" <=> turnHasEnded /\ monsterAttacksQueued
BY DEF Stage, TypeInv, ControlType, Phases

LEMMA InFightType ==
  ASSUME BoardType
  PROVE  InFight \in SUBSET Nat
BY SlotOf DEF InFight, IdsAt, MonsterType

\* A step that leaves the control and the field alone is none of CombatRound's.
LEMMA StageSame ==
  ASSUME UNCHANGED <<turnHasEnded, monsterAttacksQueued>>,
         phase' = phase \/ (phase \in {"RESOLVING", "WAITING"} /\ phase' \in {"RESOLVING", "WAITING"})
  PROVE  Stage' = Stage
BY DEF Stage

RoundStep == Round!Next \/ UNCHANGED Round!vars

LEMMA ItemRound ==
  ASSUME TypeInv, TypeInv', FieldInv, IdInv, actionQueue # << >>, phase = "RESOLVING",
         Execute(Head(actionQueue), Tail(actionQueue)),
         UNCHANGED <<phase, turn, turnHasEnded, monsterAttacksQueued>>
  PROVE  IdInv' /\ RoundStep
<1>1. Head(actionQueue) \in GoodItem /\ BoardType /\ BoardType' /\ KindsSound
  BY DEF TypeInv, BoardType, FieldInv
<1>2. IdInv' /\ Owed' = Owed
  BY <1>1, ExecuteIds
<1>3. InFight' \in SUBSET Nat
  <2>1. InFight \in SUBSET Nat
    BY <1>1, InFightType
  <2>2. \A i \in Slots' : monsters'[i] \in MonsterType
    <3>1. monsters' \in Seq(MonsterType) /\ Slots' = 1 .. Len(monsters')
      BY <1>1 DEF BoardType, Slots
    <3> QED BY <3>1, ElementOfSeq
  <2> QED BY <2>2 DEF InFight, IdsAt, MonsterType
<1>4. Stage' = Stage /\ Stage \notin {"start", "over"}
  BY StageSame, StageIs
<1> QED BY <1>2, <1>3, <1>4, RoundSteps DEF RoundStep

LEMMA RunActionRound ==
  ASSUME TypeInv, TypeInv', FieldInv, TurnInv, IdInv, RunAction
  PROVE  IdInv' /\ RoundStep
<1>1. actionQueue # << >> /\ phase = "RESOLVING" /\ phase' = phase /\ Working
      /\ UNCHANGED <<turn, monsterAttacksQueued>>
  BY DEF RunAction, Running, Working
<1>2. CASE Execute(Head(actionQueue), Tail(actionQueue)) /\ UNCHANGED turnHasEnded
  BY <1>1, <1>2, ItemRound
<1>3. CASE RunMonsterStartTurn
  <2>1. SameField /\ turnHasEnded' = TRUE /\ Head(actionQueue).op = "MONSTER_START_TURN"
    BY <1>3 DEF RunMonsterStartTurn, SameField, fight
  <2>2. Head(actionQueue) \in Ends /\ Head(actionQueue) \in Range(actionQueue)
    BY <1>1, <2>1, RangeOfTail DEF Ends, EndOps, TypeInv, BoardType
  <2>3. ~turnHasEnded /\ ~monsterAttacksQueued
    BY <1>1, <2>2 DEF TurnInv, EndIsQueued, Lacks
  <2>4. Stage = "ending" /\ Stage' = "called"
    BY <1>1, <2>1, <2>3 DEF Stage
  <2> QED BY <1>1, <2>1, <2>4, SameFieldIds, RoundSteps DEF RoundStep
<1> QED BY <1>2, <1>3 DEF RunAction

LEMMA TurnsRound ==
  ASSUME TypeInv, TurnInv, IdInv,
         BeginFirstTurn \/ RunSentinel \/ QueueMonsters \/ RunMonster \/ StartSubsequentTurn
  PROVE  IdInv' /\ RoundStep
<1>1. CASE BeginFirstTurn
  <2>1. /\ SameField /\ UsersTurn /\ turn = 0 /\ phase' = "RESOLVING" /\ turn' = turn + 1
        /\ phase = "NONE" /\ turnHasEnded' = FALSE /\ monsterAttacksQueued' = monsterAttacksQueued
    BY <1>1 DEF BeginFirstTurn, StartOfTurn, SameField, TurnInv, UserDecides
  <2>2. Stage = "start" /\ Stage' = "player" /\ turn' = 1
    BY <2>1 DEF Stage, UsersTurn
  <2> QED BY <2>1, <2>2, SameFieldIds, RoundSteps DEF RoundStep
<1>2. CASE RunSentinel
  <2>1. /\ SameField /\ phase = "RESOLVING" /\ turn' = turn /\ monsterAttacksQueued' = FALSE
        /\ UNCHANGED <<phase, turnHasEnded>>
        /\ Head(cardQueue) \in Range(cardQueue) /\ Head(cardQueue) \in Stops
    <3>1. Head(cardQueue) \in PlayType /\ Head(cardQueue) \in Range(cardQueue)
      BY <1>2, RangeOfTail DEF RunSentinel, TypeInv, BoardType
    <3> QED BY <1>2, <3>1 DEF RunSentinel, Running, SameField, fight, IsSentinel, Stops
  <2>2. UsersTurn
    BY <2>1 DEF TurnInv, StopsInUsersTurn, Lacks
  <2>3. Stage = "player" /\ Stage' = "ending"
    BY <2>1, <2>2 DEF Stage, UsersTurn
  <2> QED BY <2>1, <2>3, SameFieldIds, RoundSteps DEF RoundStep
<1>3. CASE QueueMonsters \/ RunMonster
  <2>1. /\ phase = "RESOLVING" /\ actionQueue = << >> /\ Working
        /\ UNCHANGED <<phase, turn, turnHasEnded>>
        /\ QueueMonsters => ~monsterAttacksQueued /\ monsterAttacksQueued' = TRUE
        /\ RunMonster => monsterAttacksQueued /\ monsterAttacksQueued' = monsterAttacksQueued
                         /\ monsterQueue # << >>
    BY <1>3 DEF QueueMonsters, RunMonster, MonstersDue, Running, Working
  <2>2. turnHasEnded
    BY <1>3, <2>1, OnceInNone DEF TurnInv, EndIsQueued
  <2>3. CASE QueueMonsters
    <3>1. Stage = "called" /\ Stage' = "acting"
      BY <2>1, <2>2, <2>3 DEF Stage
    <3> QED BY <2>1, <2>3, <3>1, MusterIds, RoundSteps DEF RoundStep
  <2>4. CASE RunMonster
    <3>1. Stage = "acting" /\ Stage' = "acting"
      BY <2>1, <2>2, <2>4 DEF Stage
    <3> QED BY <2>1, <2>4, <3>1, ServedIds, RoundSteps DEF RoundStep
  <2> QED BY <1>3, <2>3, <2>4
<1>4. CASE StartSubsequentTurn
  <2>1. /\ SameField /\ phase = "RESOLVING" /\ phase' = phase /\ turn' = turn + 1
        /\ turnHasEnded /\ turnHasEnded' = FALSE /\ monsterAttacksQueued
        /\ monsterAttacksQueued' = monsterAttacksQueued /\ monsterQueue = << >> /\ AnyMonsterAlive
    BY <1>4 DEF StartSubsequentTurn, AllServed, MonstersDue, Running, StartOfTurn, SameField, fight
  <2>2. Stage = "acting" /\ Stage' = "player"
    BY <2>1 DEF Stage
  <2>3. Owed = {} /\ InFight # {}
    BY <2>1 DEF Owed, InFight, IdsAt, AnyMonsterAlive
  <2> QED BY <2>1, <2>2, <2>3, SameFieldIds, RoundSteps DEF RoundStep
<1> QED BY <1>1, <1>2, <1>3, <1>4

LEMMA OtherRound ==
  ASSUME TypeInv, IdInv, PileInv,
         \/ BlockOnChoice \/ RunCardPlay \/ WaitForUser \/ BeginTerminal \/ SortItem
         \/ FinishTerminal \/ User \/ UNCHANGED vars
  PROVE  IdInv' /\ RoundStep
<1>1. /\ SameField /\ UNCHANGED <<turn, turnHasEnded, monsterAttacksQueued>>
  BY DEF BlockOnChoice, RunCardPlay, WaitForUser, BeginTerminal, SortItem, FinishTerminal,
         User, PlayCard, EndTurn, Choose, DrinkChaos, DrinkSmoke, board, vars, control,
         SameField, fight
<1>2. CASE FinishTerminal
  <2>1. phase = "RESOLVING" /\ phase' = "OVER"
    BY <1>2 DEF FinishTerminal, PileInv, Rest
  <2>2. Stage \notin {"start", "over"} /\ Stage' = "over"
    BY <2>1 DEF Stage
  <2> QED BY <1>1, <2>2, SameFieldIds, RoundSteps DEF RoundStep
<1>3. CASE ~FinishTerminal
  <2>1. phase' = phase \/ (phase \in {"RESOLVING", "WAITING"} /\ phase' \in {"RESOLVING", "WAITING"})
    BY <1>3 DEF BlockOnChoice, RunCardPlay, WaitForUser, BeginTerminal, SortItem, AllServed,
         MonstersDue, Running, User, PlayCard, EndTurn, Choose, DrinkChaos, DrinkSmoke,
         UserActs, vars, control
  <2>2. Stage' = Stage
    BY <1>1, <2>1, StageSame
  <2> QED BY <1>1, <2>2, SameFieldIds, RoundSteps DEF RoundStep
<1> QED BY <1>2, <1>3

LEMMA RoundNext ==
  TypeInv /\ TypeInv' /\ PileInv /\ FieldInv /\ TurnInv /\ IdInv /\ [Next]_vars
    => IdInv' /\ [Round!Next]_(Round!vars)
<1> SUFFICES ASSUME TypeInv, TypeInv', PileInv, FieldInv, TurnInv, IdInv, [Next]_vars
             PROVE  IdInv' /\ RoundStep
  BY DEF RoundStep
<1>1. CASE DrainStep
  <2>1. actionQueue # << >> /\ phase = "RESOLVING" /\ phase' = phase
        /\ Execute(Head(actionQueue), Tail(actionQueue))
        /\ UNCHANGED <<turn, turnHasEnded, monsterAttacksQueued>>
    BY <1>1 DEF DrainStep, Draining, PileInv, Rest
  <2> QED BY <2>1, ItemRound
<1> QED BY <1>1, RunActionRound, TurnsRound, OtherRound DEF Next, Pump

\* Rounds follow one another as CombatRound says, for every encounter, deck and belt:
\* a turn is ended once, every monster in the fight when the monsters are called gets
\* its turn once, splits that move the records included, and the player's next turn
\* starts only when none is owed one (action_queue.cpp:1120-1346,
\* monster_dispatch.cpp:940-966).
THEOREM RoundsAreImplemented == Spec => ImplementsRounds
<1>1. Init /\ TypeInv => Round!Init
  <2> SUFFICES ASSUME Init, TypeInv PROVE Round!Init
    OBVIOUS
  <2>1. InFight \in SUBSET Nat
    BY InFightType DEF TypeInv
  <2>2. Owed = {} /\ turn = 0 /\ Stage = "start"
    BY DEF Init, Owed, IdsAt, Stage
  <2> QED BY <2>1, <2>2 DEF Round!Init, InFight, Owed
<1>2. Init => IdInv
  BY IdInit
<1> QED BY <1>1, <1>2, RoundNext, SpecTurn, PTL DEF Spec, ImplementsRounds, Round!Spec
=============================================================================
