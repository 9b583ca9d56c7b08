-------------------------------- MODULE Duel --------------------------------
(***************************************************************************)
(* The fight itself: the opcodes executed in queue order, a card played    *)
(* from the hand, and the turn sequence of src/engine/action_queue.cpp.    *)
(* One action is one step of the pump; the die is thrown once a step.      *)
(*                                                                         *)
(* But for the two guards of the last act, the foes have no script for     *)
(* their death and no reaction to damage of their own (MonsterFight has    *)
(* those); their moves are drawn from what one monster of each kind does.  *)
(***************************************************************************)
EXTENDS DuelChoices, FiniteSetsExt

CONSTANTS
  Loadouts,     \* the fights that may start: records f but for the die
  ActNumber,    \* the act of the run they are fought in
  TurnCap,      \* the player does not end turn TurnCap
  PlayCap       \* and plays no card by hand once PlayCap were played in the turn

ASSUME TurnAssumption == TurnCap \in Nat \ {0} /\ PlayCap \in Nat /\ ActNumber \in 1 .. 4

VARIABLE f
vars == <<f>>

(***************************************************************************)
(* What a card queues.  A blow of the player against a named target or     *)
(* against all carries what it was worth when the card was played: the     *)
(* attacker's half of the sum is locked, the victim's is not.              *)
(***************************************************************************)

StrikeBonus(g, id) ==
  IF id \in {"STRIKE", "TWIN_STRIKE", "SWIFT_STRIKE"} /\ HasRelic(g, "STRIKE_DUMMY") THEN 3 ELSE 0
LockedTimes(g, id, tgt, n, mult) ==
  LET q == OwnerStage(g, Player, n + StrikeBonus(g, id), mult)
  IN  Keyed(Hit(Player, tgt, q[1], "NORMAL"), q[2])
Locked(g, id, tgt, n) == LockedTimes(g, id, tgt, n, 1)
Guard(n) == Item("BLOCK", Player, Player, n, "")
Self(op, n) == Item(op, Player, Player, n, "")
At(op, tgt, n) == Item(op, Player, tgt, n, "")

\* a for the card as it comes, b for the upgraded one.
Either(up, a, b) == IF up THEN b ELSE a

\* Skills that ask.  Thinking Ahead asks only if there is a hand as it is played
\* (by hand it is itself still in it).
ChoiceSteps(g, id, up) ==
  CASE id = "ARMAMENTS" -> <<Guard(5), Choose("UPGRADE", Either(up, 1, 99))>>
    [] id = "WARCRY" -> <<Draw(Either(up, 1, 2)), Choose("DRAW_TOP", 1)>>
    [] id = "THINKING_AHEAD" -> <<Draw(2)>> \o IF g.hand = << >> THEN << >> ELSE <<Choose("DRAW_TOP", 1)>>
    [] id = "EXHUME" -> <<Choose("EXHAUST_TO_HAND", 1)>>
    [] id = "DUAL_WIELD" -> <<Twins(Either(up, 1, 2))>>
    [] id = "BURNING_PACT" -> <<Choose("EXHAUST", 1), Draw(Either(up, 2, 3))>>
    [] id = "FORETHOUGHT" -> IF up THEN <<ChooseAny("DRAW_BOTTOM", 99)>> ELSE <<Choose("DRAW_BOTTOM", 1)>>
    [] id = "PURITY" -> <<ChooseAny("EXHAUST", Either(up, 3, 5))>>
    [] id = "SECRET_WEAPON" -> <<Choose("ATTACK_TO_HAND", 1)>>
    [] id = "SECRET_TECHNIQUE" -> <<Choose("SKILL_TO_HAND", 1)>>
    [] id = "DISCOVERY" -> <<Discover("CARD", 1)>>

AttackSteps(g, id, r, tgt, up) ==
  CASE id = "STRIKE" -> <<Locked(g, id, tgt, Either(up, 6, 9))>>
    [] id = "TWIN_STRIKE" -> [i \in 1 .. 2 |-> Locked(g, id, tgt, Either(up, 5, 7))]
    [] id = "SWIFT_STRIKE" -> <<Locked(g, id, tgt, Either(up, 7, 10))>>
    [] id = "BASH" -> <<Locked(g, id, tgt, Either(up, 8, 10)), Inflict(Player, tgt, "VULNERABLE", Either(up, 2, 3))>>
    [] id = "BLOOD_FOR_BLOOD" -> <<Locked(g, id, tgt, Either(up, 18, 22))>>
    [] id = "WHIRLWIND" -> <<Locked(g, id, AllEnemies, Either(up, 5, 8))>>
    [] id = "HEAVY_BLADE" -> <<LockedTimes(g, id, tgt, 14, Either(up, 3, 5))>>
    [] id = "HEADBUTT_CARD" -> <<Locked(g, id, tgt, Either(up, 9, 12)), Choose("DISCARD_TO_TOP", 1)>>
    [] id = "FEED" -> <<Keyed(At("FEED", tgt, Either(up, 10, 12)), Either(up, 3, 4))>>
    [] id = "HAND_OF_GREED" -> <<Keyed(At("GREED", tgt, Either(up, 20, 25)), Either(up, 20, 25))>>
    [] id = "DROPKICK" -> <<At("DROPKICK", tgt, Either(up, 5, 8))>>
    [] id = "REAPER" -> <<Self("VAMPIRE_ALL", Either(up, 4, 5))>>
    [] id = "BODY_SLAM" -> <<At("DAMAGE_BLOCK", tgt, 0)>>
    [] id = "MIND_BLAST" -> <<At("DAMAGE_DRAW_PILE", tgt, 0)>>
    [] id = "RAMPAGE" -> <<Keyed(At("RAMPAGE", tgt, 8), r)>>
    [] id = "RITUAL_DAGGER" -> <<Keyed(At("RITUAL_DAGGER", tgt, Either(up, 3, 5)), r)>>
    [] id = "FIEND_FIRE" -> <<At("FIEND_FIRE", tgt, Either(up, 7, 10))>>
SkillSteps(g, id, tgt, up) ==
  CASE id = "DEFEND" -> <<Guard(Either(up, 5, 8))>>
    [] id = "TRUE_GRIT" -> IF up THEN <<Guard(9), Choose("EXHAUST", 1)>> ELSE <<Guard(7), Self("EXHAUST_RANDOM", 1)>>
    [] id = "FLEX" -> <<Gain(Player, "STRENGTH", Either(up, 2, 4)), Gain(Player, "LOSE_STRENGTH", Either(up, 2, 4))>>
    [] id = "RAGE_CARD" -> <<Gain(Player, "RAGE", Either(up, 3, 5))>>
    [] id = "DOUBLE_TAP_CARD" -> <<Gain(Player, "DOUBLE_TAP", Either(up, 1, 2))>>
    [] id = "FLAME_BARRIER_CARD" -> <<Guard(Either(up, 12, 16)), Gain(Player, "FLAME_BARRIER", Either(up, 4, 6))>>
    [] id = "BLOODLETTING" -> <<Self("LOSE_HP", 3), Energy(Either(up, 2, 3))>>
    [] id = "BATTLE_TRANCE" -> <<Draw(Either(up, 3, 4)), Gain(Player, "NO_DRAW", -1)>>
    [] id = "SPOT_WEAKNESS" -> <<At("SPOT_WEAKNESS", tgt, Either(up, 3, 4))>>
    [] id = "LIMIT_BREAK" -> <<Self("DOUBLE_STRENGTH", 0)>>
    [] id = "ENTRENCH" -> <<Self("DOUBLE_BLOCK", 0)>>
    [] id = "SECOND_WIND" -> <<Self("BLOCK_PER_NON_ATTACK", Either(up, 5, 7))>>
    [] id = "HAVOC" -> <<Item("PLAY_TOP", Player, Player, 0, "HAVOC")>>
    [] id = "DARK_SHACKLES" -> <<At("DARK_SHACKLES", tgt, Either(up, 9, 15))>>
    [] id = "DEEP_BREATH" -> <<Self("RESHUFFLE_ALL", 0), Draw(Either(up, 1, 2))>>
    [] id = "IMPATIENCE" -> <<Self("CONDITIONAL_DRAW", Either(up, 2, 3))>>
    [] id = "INFERNAL_BLADE" -> <<Self("RANDOM_ATTACK_TO_HAND", 1)>>
    [] id = "CHRYSALIS" -> <<Self("RANDOM_CARD_TO_DRAW", Either(up, 3, 5))>>
    [] id = "VIOLENCE" -> <<Self("DRAW_PILE_FETCH", Either(up, 3, 4))>>
    [] id = "MADNESS" -> <<Self("MADNESS", 0)>>
    [] id = "ENLIGHTENMENT" -> <<Self("ENLIGHTENMENT", Either(up, 0, 1))>>
    [] id = "BOMB_CARD" -> <<Keyed(Gain(Player, "THE_BOMB", 3), Either(up, 40, 50))>>
    [] OTHER -> ChoiceSteps(g, id, up)
PowerSteps(id, up) ==
  CASE id = "INFLAME" -> <<Gain(Player, "STRENGTH", Either(up, 2, 3))>>
    [] id = "PANACHE_CARD" -> <<Gain(Player, "PANACHE", Either(up, 10, 14))>>
    [] id = "BARRICADE_CARD" -> <<Gain(Player, "BARRICADE", -1)>>
    [] id = "CORRUPTION_CARD" -> <<Gain(Player, "CORRUPTION", -1)>>
Steps(g, r, tgt) ==
  LET id == g.card[r].id
      up == IsUpgraded(g.card[r])
  IN  CASE TypeOfCard(id) = "ATTACK" -> AttackSteps(g, id, r, tgt, up)
        [] TypeOfCard(id) = "SKILL" -> SkillSteps(g, id, tgt, up)
        [] TypeOfCard(id) = "POWER" -> PowerSteps(id, up)
        [] OTHER -> << >>

NeedsEnemy(id) == id \in (Attacks \ {"WHIRLWIND", "REAPER"}) \cup {"SPOT_WEAKNESS", "DARK_SHACKLES"}
\* Corruption is the one power whose arrival re-prices cards, as it is queued.
QueueSteps(g, r, tgt) ==
  IF g.card[r].id # "CORRUPTION_CARD" THEN Bots(g, Steps(g, r, tgt))
  ELSE IF HasSlot(g, Player, "CORRUPTION") THEN g
  ELSE Bots(CorruptAll(g), Steps(g, r, tgt))
Repeated(g, r, tgt, times) ==
  FoldLeft(LAMBDA h, i : QueueSteps(h, r, tgt), g, [i \in 1 .. times |-> i])

(***************************************************************************)
(* The foes' turns.                                                        *)
(***************************************************************************)

\* What the foes may do: a move is drawn from those of the kind, a Byrd on the
\* ground has one that gets it back into the air.
MovesOf(a) ==
  CASE a.kind = "LOUSE" -> <<"BITE", "WEB">>
    [] a.kind = "FUNGI" -> <<"BITE", "GROW">>
    [] a.kind = "BYRD" -> IF "FLYING" \in a.mark THEN <<"PECK", "SWOOP">> ELSE <<"HEADBUTT">>
    [] a.kind = "PARASITE" -> <<"STRIKE_TWICE", "SUCK">>
    [] a.kind = "NOB" -> <<"RUSH", "SKULL_BASH">>
    [] a.kind = "ORB" -> <<"BEAM">>
    [] a.kind = "CENTURION" -> <<"SLAM", "PROTECT">>
    [] a.kind = "NEMESIS" -> <<"SCYTHE">>
    [] a.kind = "SPIRE_SHIELD" -> <<"SHIELD_BASH", "FORTIFY", "SMASH">>
    [] a.kind = "SPIRE_SPEAR" -> <<"BURN_STRIKE", "SKEWER", "PIERCER">>
    [] OTHER -> <<"SLAM">>
\* The guards: their block and Strength go to every record, dead or not.
ShieldSteps(g, m, move) ==
  CASE move = "SHIELD_BASH" -> <<Hit(m, Player, 14, "NORMAL"), Inflict(m, Player, "STRENGTH", -1)>>
    [] move = "FORTIFY" -> [i \in DOMAIN InOrder(g) |-> Item("BLOCK", m, i, 30, "")]
    [] move = "SMASH" -> <<Hit(m, Player, 38, "NORMAL"), Item("BLOCK", m, m, 99, "")>>
    [] OTHER -> << >>
SpearSteps(g, m, move) ==
  CASE move = "BURN_STRIKE" -> <<Hit(m, Player, 6, "NORMAL"), Hit(m, Player, 6, "NORMAL"), Make("DRAW", "BURN", 2)>>
    [] move = "PIERCER" -> [i \in DOMAIN InOrder(g) |-> Inflict(m, i, "STRENGTH", 2)]
    [] move = "SKEWER" -> [i \in 1 .. 4 |-> Hit(m, Player, 10, "NORMAL")]
    [] OTHER -> ShieldSteps(g, m, move)
MoveSteps(g, m, move) ==
  CASE move = "BITE" -> <<Hit(m, Player, 6, "NORMAL")>>
    [] move = "WEB" -> <<Inflict(m, Player, "WEAK", 2)>>
    [] move = "GROW" -> <<Gain(m, "STRENGTH", 3)>>
    [] move = "PECK" -> [i \in 1 .. 5 |-> Hit(m, Player, 1, "NORMAL")]
    [] move = "SWOOP" -> <<Hit(m, Player, 12, "NORMAL")>>
    [] move = "HEADBUTT" -> <<Hit(m, Player, 3, "NORMAL")>>
    [] move = "GO_AIRBORNE" -> <<Gain(m, "FLIGHT", 3)>>
    [] move = "STRIKE_TWICE" -> <<Hit(m, Player, 6, "NORMAL"), Hit(m, Player, 6, "NORMAL")>>
    [] move = "SUCK" -> <<Item("VAMPIRE", m, Player, 10, "")>>
    [] move = "FELL" -> <<Hit(m, Player, 18, "NORMAL"), Inflict(m, Player, "FRAIL", 2)>>
    [] move = "BELLOW" -> <<Gain(m, "ANGER", 2)>>
    [] move = "RUSH" -> <<Hit(m, Player, 14, "NORMAL")>>
    [] move = "SKULL_BASH" -> <<Hit(m, Player, 6, "NORMAL"), Inflict(m, Player, "VULNERABLE", 2)>>
    [] move = "STASIS" -> <<Item("STASIS", m, Player, 0, "")>>
    [] move = "BEAM" -> <<Hit(m, Player, 8, "NORMAL")>>
    [] move = "PROTECT" -> <<Item("BLOCK_RANDOM_MONSTER", m, m, 15, "")>>
    [] move = "SLAM" -> <<Hit(m, Player, 10, "NORMAL")>>
    [] move = "SCYTHE" -> <<Hit(m, Player, 45, "NORMAL")>>
    [] OTHER -> SpearSteps(g, m, move)
SetMove(g, m, move) == [g EXCEPT !.act[m].intent = move]
Rolled(g, m) == LET moves == MovesOf(g.act[m]) IN moves[Pick(g, Len(moves))]
TakeTurn(g, m) ==
  LET move == g.act[m].intent
      acted == Bots(g, MoveSteps(g, m, move))
  IN  CASE move = "HEADBUTT" -> SetMove(acted, m, "GO_AIRBORNE")
        [] move = "GO_AIRBORNE" -> Bot([acted EXCEPT !.act[m].mark = @ \cup {"FLYING"}],
                                       Item("ROLL_MOVE", m, m, 0, ""))
        [] OTHER -> Bot(acted, Item("ROLL_MOVE", m, m, 0, ""))

\* apply_pre_turn_logic: the player's turn is over, the foes lose their block.
WithoutBlock(g, m) == IF HasSlot(g, m, "BARRICADE") THEN g ELSE [g EXCEPT !.act[m].block = 0]
StartMonster(g, m) ==
  IF DeadOrEscaped(g, m) THEN g ELSE Fire(WithoutBlock(g, m), m, "START_OF_TURN", Ctx)
MonsterStart(g) == FoldLeft(StartMonster, [g EXCEPT !.ended = TRUE], InOrder(g))

(***************************************************************************)
(* execute_opcode.                                                         *)
(***************************************************************************)

DamageOpcodes == {"DAMAGE", "LOSE_HP", "FEED", "GREED", "DROPKICK", "VAMPIRE_ALL", "VAMPIRE", "DAMAGE_BLOCK",
                  "DAMAGE_DRAW_PILE", "RAMPAGE", "RITUAL_DAGGER"}
BlockOpcodes == {"BLOCK", "DOUBLE_BLOCK", "BLOCK_RANDOM_MONSTER"}
ExhaustOpcodes == {"DISCARD_HAND", "EXHAUST_RANDOM", "BLOCK_PER_NON_ATTACK"}
ActorOpcodes == {"APPLY_POWER", "REMOVE_POWER", "REDUCE_POWER", "REMOVE_DEBUFFS", "DOUBLE_STRENGTH",
                 "SPOT_WEAKNESS", "DARK_SHACKLES", "RED_SKULL_ENTRY", "GAIN_ENERGY", "ROLL_MOVE", "SET_MOVE",
                 "HEAL", "SUICIDE", "MONSTER_START"}
ExecuteOnActor(g, it) ==
  CASE it.op = "APPLY_POWER" -> ApplyPower(g, it)
    [] it.op = "REMOVE_POWER" -> RemovePower(g, it)
    [] it.op = "REDUCE_POWER" -> ReducePower(g, it)
    [] it.op = "REMOVE_DEBUFFS" -> RemoveDebuffs(g, it.tgt)
    [] it.op = "DOUBLE_STRENGTH" -> DoubleStrength(g)
    [] it.op = "SPOT_WEAKNESS" -> SpotWeakness(g, it.tgt, it.n)
    [] it.op = "DARK_SHACKLES" -> DarkShackles(g, it.tgt, it.n)
    [] it.op = "RED_SKULL_ENTRY" -> RedSkullEntry(g)
    [] it.op = "GAIN_ENERGY" -> [g EXCEPT !.energy = @ + it.n]
    [] it.op = "ROLL_MOVE" -> SetMove(g, it.tgt, Rolled(g, it.tgt))
    [] it.op = "SET_MOVE" -> SetMove(g, it.tgt, it.x)
    [] it.op = "HEAL" -> Heal(g, it.tgt, it.n)
    [] it.op = "SUICIDE" -> Suicide(g, it.tgt)
    [] it.op = "MONSTER_START" -> MonsterStart(g)
ExecuteOnCards(g, it) ==
  CASE it.op = "DRAW_CARDS" -> DrawOp(g, it.n)
    [] it.op = "USE_CARD" -> UseCard(g, it.n, it.x = "QUIET")
    [] it.op = "PLAY_TOP" -> IF it.x = "DEFER" THEN Deferred(g, it)
                             ELSE PlayTop(g, IF it.x = "HAVOC" THEN RandomTarget(g) ELSE it.tgt, it.x # "HAVOC")
    [] it.op = "FIEND_FIRE" -> FiendFire(g, it.tgt, it.n)
    [] it.op = "RESHUFFLE_ALL" -> ReshuffleAll(g)
    [] it.op = "CONDITIONAL_DRAW" -> ConditionalDraw(g, it.n, "ATTACK")
    [] it.op = "DRAW_PILE_FETCH" -> DrawPileFetch(g, it.n, "ATTACK")
    [] it.op = "STASIS" -> ApplyStasis(g, it.src)
    [] it.op = "STASIS_RETURN" -> StasisReturn(g, it.n, it.x)
    [] it.op \in {"HAND", "DISCARD", "DRAW", "DRAW_RANDOM"} -> MakeCards(g, NewCard(g, it.x), it.n, it.op)
    [] it.op = "RANDOM_ATTACK_TO_HAND" -> RandomToHand(g, "TWIN_STRIKE")
    [] it.op = "POWER_TO_HAND" -> RandomToHand(g, "INFLAME")
    [] it.op = "RANDOM_CARD_TO_DRAW" -> RandomToDraw(g, "DEFEND", it.n)
    [] it.op \in {"CHOOSE", "CHOOSE_ANY"} -> AutoChoose(g, it)
    [] it.op = "MADNESS" -> Madness(g)
    [] it.op = "RANDOMIZE_HAND_COST" -> FoldLeft(LAMBDA h, r : RandomizeCost(h, r, FALSE), g, g.hand)
    [] it.op = "ENLIGHTENMENT" -> Enlightenment(g, it.n # 0)
Dispatch(g, it) ==
  CASE it.op \in DamageOpcodes -> DamageOp(g, it)
    [] it.op \in BlockOpcodes -> BlockOp(g, it)
    [] it.op \in ExhaustOpcodes -> ExhaustOp(g, it)
    [] it.op \in ActorOpcodes -> ExecuteOnActor(g, it)
    [] OTHER -> ExecuteOnCards(g, it)
\* An item for all enemies runs against each record that is still in the fight
\* when its turn comes; one for a random enemy is lost when there is none.
Targets(g, it) ==
  CASE it.tgt = AllEnemies -> InOrder(g)
    [] it.tgt = RandomEnemy -> IF Fighting(g) = {} THEN << >> ELSE <<RandomTarget(g)>>
    [] OTHER -> <<it.tgt>>
Execute(g, it) ==
  FoldLeft(LAMBDA h, a : IF it.tgt = AllEnemies /\ DeadOrEscaped(h, a) THEN h
                         ELSE Dispatch(h, [it EXCEPT !.tgt = a]),
           g, Targets(g, it))

(***************************************************************************)
(* Playing a card (card_play.cpp).                                         *)
(***************************************************************************)

Autoplaying(g, r) == Contains(g.limbo, r)
Unlocked(g, id) == \/ ~IsUnplayable(id)
                   \/ id \in Statuses /\ HasRelic(g, "MEDICAL_KIT")
                   \/ id \in Curses /\ HasRelic(g, "BLUE_CANDLE")
ChokerVeto(g) == \E s \in DOMAIN g.relics : g.relics[s].id = "VELVET_CHOKER" /\ g.relics[s].n >= 6
NormalityVeto(g) == g.played >= 3 /\ \E i \in DOMAIN g.hand : g.card[g.hand[i]].id = "NORMALITY"
Affordable(g, r) == "FREE_ONCE" \in g.card[r].flags \/ g.energy >= g.card[r].now
\* requires_draw_pile_type
SoughtBy(id) == CASE id = "SECRET_WEAPON" -> {"ATTACK_TO_HAND"}
                  [] id = "SECRET_TECHNIQUE" -> {"SKILL_TO_HAND"}
                  [] OTHER -> {}
CanUse(g, r, tgt, autoplay) ==
  /\ \E m \in Monsters(g) : ~DeadOrEscaped(g, m)
  /\ NeedsEnemy(g.card[r].id) /\ tgt # Player => ~Dying(g, tgt)
  /\ Unlocked(g, g.card[r].id)
  /\ ~g.ended
  /\ ~(TypeOfRow(g, r) = "ATTACK" /\ HasSlot(g, Player, "ENTANGLE"))
  /\ \A kind \in SoughtBy(g.card[r].id) : Candidates(g, kind) # << >>
  /\ ~ChokerVeto(g) /\ ~NormalityVeto(g)
  /\ autoplay \/ Affordable(g, r)

EnergyOnUse(g, r, autoplay) ==
  CASE ~IsXCost(g.card[r].id) -> 0
    [] autoplay /\ "PURGE" \in g.card[r].flags -> g.card[r].x
    [] OTHER -> Clamp(g.energy)
Repeats(g, r, spent) ==
  IF ~IsXCost(g.card[r].id) THEN 1 ELSE spent + IF HasRelic(g, "CHEMICAL_X") THEN 2 ELSE 0

\* The hooks of a card in play: the player's powers, the relics, the foes' powers.
OnUse(g, r, tgt, spent) ==
  LET c == [Ctx EXCEPT !.row = r, !.tgt = tgt, !.amt = spent]
  IN  FireAll(Ring(Fire(g, Player, "USE_CARD", c), "USE_CARD", c), InOrder(g), "USE_CARD", c)
\* Pain hurts when another card is played while it is held.
OtherCardPlayed(g, r) ==
  FoldLeft(LAMBDA h, o : IF o # r /\ h.card[o].id = "PAIN" THEN Top(h, Self("LOSE_HP", 1)) ELSE h,
           g, g.hand)
ToLimbo(g, r) ==
  IF Contains(g.hand, r) THEN [g EXCEPT !.hand = Without(@, r), !.limbo = Append(@, r)] ELSE g
\* The price is the one the card had before its own hooks ran.
Pay(g, c, autoplay) ==
  IF autoplay \/ "FREE_ONCE" \in c.flags THEN g
  ELSE IF IsXCost(c.id) THEN [g EXCEPT !.energy = 0]
  ELSE IF TypeOfCard(c.id) = "SKILL" /\ HasSlot(g, Player, "CORRUPTION") THEN g
  ELSE [g EXCEPT !.energy = @ - c.now]

Played(g, r, tgt, autoplay, spent) ==
  Pay(ToLimbo(OtherCardPlayed(Bot(OnUse(Repeated(g, r, tgt, Repeats(g, r, spent)), r, tgt, spent),
                                  Self("USE_CARD", r)), r), r),
      g.card[r], autoplay)
\* Only a card aimed at one enemy is stopped by that enemy's death here.
Aimless(g, r, tgt) ==
  /\ NeedsEnemy(g.card[r].id) /\ g.card[r].id # "SPOT_WEAKNESS"
  /\ tgt = Player \/ DeadOrEscaped(g, tgt)
Told(g, it, autoplay) ==
  IF ~Aimless(g, it.row, it.tgt) THEN Played(g, it.row, it.tgt, autoplay, EnergyOnUse(g, it.row, autoplay))
  ELSE IF autoplay THEN [g EXCEPT !.limbo = Without(@, it.row)]
  ELSE g
\* A card that may not be used: one that plays itself is filed all the same.
Resolve(g, it, autoplay) ==
  IF CanUse(g, it.row, it.tgt, autoplay)
  THEN Told(Ring([g EXCEPT !.played = @ + 1], "PLAY_CARD", [Ctx EXCEPT !.row = it.row, !.tgt = it.tgt]), it, autoplay)
  ELSE IF autoplay THEN Bot(g, Item("USE_CARD", Player, Player, it.row, "QUIET"))
  ELSE g
\* The card stays at the head of its queue until it has been resolved.
ResolveCard(g) ==
  [Resolve(g, g.cq[1], Autoplaying(g, g.cq[1].row)) EXCEPT !.cq = Tail(@)]

(***************************************************************************)
(* The end of the player's turn.                                           *)
(***************************************************************************)

EndProgram(g, r, held) ==
  CASE g.card[r].id = "REGRET" -> <<Self("LOSE_HP", held)>>
    [] g.card[r].id = "DOUBT" -> <<Gain(Player, "WEAK", 1)>>
    [] g.card[r].id = "BURN" -> <<Hit(Player, Player, 2, "THORNS")>>
    [] OTHER -> << >>
CardsAtEndOfTurn(g) ==
  LET held == Len(g.hand)
      leave(h, r) == Bot(ToLimbo(Bots(h, EndProgram(g, r, held)), r),
                         Item("USE_CARD", Player, Player, r, "QUIET"))
  IN  FoldLeft(leave, g, SelectSeq(g.hand, LAMBDA r : EndProgram(g, r, held) # << >>))
PricesBack(g) == ResetCosts([g EXCEPT !.queued = FALSE, !.closing = FALSE], g.draw \o g.disc \o g.hand)
CloseTurn(g) ==
  Bot(Fire(CardsAtEndOfTurn(Fire(Ring(PricesBack(g), "PLAYER_END_TURN", Ctx), Player, "PRE_CARD", Ctx)),
           Player, "END_OF_TURN", Ctx),
      Self("DISCARD_HAND", 0))

(***************************************************************************)
(* The foes' turn and the next one of the player.                          *)
(***************************************************************************)

LineUp(g) ==
  [g EXCEPT !.queued = TRUE, !.mq = SelectSeq(InOrder(g), LAMBDA m : ~DeadOrEscaped(g, m))]
RunMonster(g) ==
  LET m == g.mq[1]
      rest == [g EXCEPT !.mq = Tail(@)]
  IN  IF DeadOrEscaped(g, m) THEN rest ELSE Fire(TakeTurn(rest, m), m, "DURING_TURN", Ctx)

\* Each foe ends its turn, then the round ends for the player and for each foe.
EndFor(g, a, hook) == IF a # Player /\ DeadOrEscaped(g, a) THEN g ELSE Fire(g, a, hook, Ctx)
RoundEnds(g) ==
  FlattenSeq([i \in DOMAIN InOrder(g) |-> <<<<i, "PRE_CARD">>, <<i, "END_OF_TURN">>>>])
  \o <<<<Player, "END_OF_ROUND">>>> \o [i \in DOMAIN InOrder(g) |-> <<i, "END_OF_ROUND">>]
EndOfRound(g) == FoldLeft(LAMBDA h, e : EndFor(h, e[1], e[2]), g, RoundEnds(g))

EnergyRelics == {"FUSION_HAMMER", "VELVET_CHOKER", "RUNIC_DOME", "CURSED_KEY", "BUSTED_CROWN", "ECTOPLASM",
                 "SOZU", "PHILOSOPHERS_STONE", "COFFEE_DRIPPER", "MARK_OF_PAIN"}
EnergyMaster(g) ==
  3 + Quantify(DOMAIN g.relics, LAMBDA s : \/ g.relics[s].id \in EnergyRelics
                                           \/ g.relics[s].id = "SLAVERS_COLLAR" /\ "ELITE" \in g.flag)
HandSize(g) == 5 + Quantify(DOMAIN g.relics, LAMBDA s : g.relics[s].id = "SNECKO_EYE") * 2
                 - IF HasSlot(g, Player, "DRAW_REDUCTION") THEN 1 ELSE 0
Recharged(g, first) ==
  LET held == IF HasRelic(g, "ICE_CREAM") /\ ~first THEN g.energy ELSE 0
      now == held + EnergyMaster(g)
  IN  [g EXCEPT !.energy = IF now > 999 THEN 999 ELSE now]
BlockKept(g) ==
  LET b == g.act[Player].block
  IN  IF HasSlot(g, Player, "BARRICADE") THEN b
      ELSE IF HasRelic(g, "CALIPERS") /\ b > 15 THEN b - 15 ELSE 0

TurnStart(g) == Fire(Ring(g, "TURN_START", Ctx), Player, "START_OF_TURN", Ctx)
Opened(g) == [g EXCEPT !.ended = FALSE, !.turn = @ + 1]
\* In the first turn the draw is queued before the relics speak, so that what
\* they queue comes after it; later the relics' items come first.
BeginFirstTurn(g) ==
  Ring(Opened(Recharged(TurnStart(Ring(Bot(g, Draw(HandSize(g))), "BATTLE_START", Ctx)), TRUE)), "POST_DRAW", Ctx)
DrawHand(g) == Bot(g, Draw(HandSize(g)))
Unblocked(g) == [g EXCEPT !.act[Player].block = BlockKept(g)]
DrawnHand(g) == Fire(Ring(g, "POST_DRAW", Ctx), Player, "POST_DRAW", Ctx)
StartOfTurn(g) ==
  DrawnHand(DrawHand(Unblocked(Opened(Recharged(TurnStart([EndOfRound(g) EXCEPT !.played = 0]), FALSE)))))

(***************************************************************************)
(* The end of the fight: what outlives the clearing of the queue is run to *)
(* the end (in one call of the code, one item a step here: nobody sees the *)
(* difference), the cards still to play are filed, the limbo is emptied.   *)
(***************************************************************************)

Decided(g) == Dying(g, Player) \/ Fighting(g) = {}
Outlives == {"USE_CARD", "HEAL", "BLOCK"} \cup (DamageOpcodes \ {"DROPKICK"})
Surviving(its) == SelectSeq(its, LAMBDA it : it.op \in Outlives)
\* terminal_action_reaches_clear: the blow came far enough to clear the queue again.
ReachesClear(g, it) ==
  CASE it.tgt = AllEnemies -> it.op = "DAMAGE"
    [] it.tgt = RandomEnemy -> FALSE
    [] it.op \in {"DAMAGE", "DAMAGE_BLOCK", "DAMAGE_DRAW_PILE", "RAMPAGE"} ->
         \/ it.op = "DAMAGE" /\ it.x = "THORNS"
         \/ /\ it.tgt = Player \/ ~DeadOrEscaped(g, it.tgt)
            /\ ~AttackerCancelled(g, it)
    [] it.op \in {"LOSE_HP", "VAMPIRE", "VAMPIRE_ALL"} -> TRUE
    [] OTHER -> it.op \in {"FEED", "GREED", "RITUAL_DAGGER"} /\ it.tgt # Player

\* normalize_terminal_card_queue: a card that was to play itself is filed, one
\* still in the hand stays there.
Normalized(g) ==
  [FoldLeft(LAMBDA h, it : IF Autoplaying(h, it.row) THEN UseCard(h, it.row, FALSE) ELSE h, g, g.cq)
     EXCEPT !.cq = << >>, !.closing = FALSE]
\* What no terminal item can use any more is left in the queue by the code and
\* is dropped here.
Settled(g) == [FlushLimbo(Normalized(g)) EXCEPT !.q = << >>, !.mq = << >>]
Concluded(g) ==
  IF Dying(g, Player) THEN [g EXCEPT !.over = "DEFEAT"]
  ELSE [Ring(MeatOnTheBone(g), "VICTORY", Ctx) EXCEPT !.over = "VICTORY"]
Finished(g) == Concluded(Settled(g))

(***************************************************************************)
(* The pump.                                                               *)
(***************************************************************************)

Idle(g) == g.q = << >> /\ g.cq = << >> /\ ~g.closing
Waiting(g) == Idle(g) /\ g.queued /\ g.mq = << >> /\ ~g.ended /\ g.turn > 0 /\ g.over = ""
UnceasingTop(g) == /\ g.hand = << >> /\ Len(g.draw) + Len(g.disc) > 0
                   /\ HasRelic(g, "UNCEASING_TOP") /\ ~HasSlot(g, Player, "NO_DRAW")

(***************************************************************************)
(* The making of a fight (enter_combat): a loadout's draw pile is the deck *)
(* as shuffled.                                                            *)
(***************************************************************************)

\* Innate cards, and those in a bottle, go on top, in the order of the shuffle.
PlacedOnTop(g) == SelectSeq(g.draw, LAMBDA r : "INNATE" \in g.card[r].flags)
InitializeDeck(g) ==
  [g EXCEPT !.draw = SelectSeq(@, LAMBDA r : "INNATE" \notin g.card[r].flags) \o PlacedOnTop(g),
            !.flag = IF Len(PlacedOnTop(g)) > HandSize(g) THEN @ \cup {"OVERFLOW"} ELSE @]

\* The elite that guards the emerald key has one boon of four for all its foes.
MoreHp(a) == [a EXCEPT !.max = @ + (@ + 2) \div 4, !.hp = Smaller(@ + (a.max + 2) \div 4, a.max + (a.max + 2) \div 4)]
Boons == <<<<"STRENGTH", ActNumber + 1>>, <<"METALLICIZE", 2 * ActNumber + 2>>,
           <<"REGENERATE_MONSTER", 2 * ActNumber + 1>>>>
EliteBuffs(g) ==
  IF "EMERALD" \notin g.flag THEN {g}
  ELSE {[g EXCEPT !.act = [a \in DOMAIN @ |-> IF a = Player THEN @[a] ELSE MoreHp(@[a])]]}
       \cup {FoldLeft(LAMBDA h, m : ApplyPower(h, Gain(m, b[1], b[2])), g, InOrder(g)) : b \in ToSet(Boons)}

\* use_pre_battle_actions, where a loadout has guards: it is the Shield that
\* surrounds, and the marker comes behind that and before the Artifacts.
PreBattle(g, m) ==
  LET marked == SelectSeq(InOrder(g), LAMBDA o : Behind(g, o) /\ ~HasSlot(g, o, "BACK_ATTACK"))
  IN  CASE g.act[m].kind = "SPIRE_SHIELD" ->
             Bots(g, <<Inflict(m, Player, "SURROUNDED", -1)>>
                       \o [i \in DOMAIN marked |-> Gain(marked[i], "BACK_ATTACK", -1)]
                       \o <<Gain(m, "ARTIFACT", 2)>>)
        [] g.act[m].kind = "SPIRE_SPEAR" -> Bot(g, Gain(m, "ARTIFACT", 2))
        [] OTHER -> g
UsePreBattleActions(g) == FoldLeft(PreBattle, g, InOrder(g))

\* What the order of the draw pile reveals is known before the relics speak.
Opening(l) == {Ring(ReadOrder(g), "PRE_BATTLE", Ctx) : g \in EliteBuffs(UsePreBattleActions(InitializeDeck(l)))}
Init == f \in UNION {Opening(l) : l \in Loadouts}

Running == f.over = "" /\ ~Decided(f)
Draining == f.over = "DRAINING" /\ ~Dying(f, Player) /\ f.q # << >>
Roll(g, d) == [g EXCEPT !.roll = d]
Becomes(g) == f' = [g EXCEPT !.roll = 0]
\* One step with a die.
Step(d, Op(_)) == Becomes(Op(Roll(f, d)))

\* Once the fight is won a blow that got to its end clears the queue again.
Recleared(g, clears) == IF clears /\ Fighting(g) = {} THEN [g EXCEPT !.q = Surviving(@)] ELSE g
RunItem(g) ==
  Recleared(Execute([g EXCEPT !.q = Tail(@)], Head(g.q)), g.over = "DRAINING" /\ ReachesClear(g, Head(g.q)))
RunAction ==
  /\ f.q # << >>
  /\ (Running /\ ~Blocked(f)) \/ Draining
  /\ \E d \in 0 .. Faces - 1 : Step(d, RunItem)
PlayHead ==
  /\ Running /\ f.q = << >> /\ f.cq # << >>
  /\ \E d \in 0 .. Faces - 1 : Step(d, ResolveCard)
EndTurn ==
  /\ Running /\ f.q = << >> /\ f.cq = << >> /\ f.closing
  /\ Becomes(CloseTurn(f))
BeginFight ==
  /\ Running /\ Idle(f) /\ f.turn = 0
  /\ Becomes(BeginFirstTurn(f))
QueueMonsters ==
  /\ Running /\ Idle(f) /\ ~f.queued
  /\ Becomes(LineUp(f))
MonsterTurn ==
  /\ Running /\ Idle(f) /\ f.queued /\ f.mq # << >>
  /\ Becomes(RunMonster(f))
NextTurn ==
  /\ Running /\ Idle(f) /\ f.queued /\ f.mq = << >> /\ f.ended
  /\ Becomes(StartOfTurn(f))
DrawFromTop ==
  /\ Running /\ Waiting(f) /\ UnceasingTop(f)
  /\ Becomes(Bot(f, Draw(1)))
\* Once the first turn's block is through, what innate cards the hand had no
\* room for are drawn (queue_innate_overflow_draw).
Overflow(g) == "OVERFLOW" \in g.flag
OverflowDraw ==
  /\ Running /\ (Blocked(f) \/ (Waiting(f) /\ ~UnceasingTop(f))) /\ Overflow(f)
  /\ Becomes([Bot(f, Draw(Quantify(DOMAIN f.card, LAMBDA r : "INNATE" \in f.card[r].flags) - HandSize(f)))
                EXCEPT !.flag = @ \ {"OVERFLOW"}])
FightDecided ==
  /\ f.over = "" /\ Decided(f)
  /\ Becomes([f EXCEPT !.over = "DRAINING", !.q = IF Dying(f, Player) THEN @ ELSE Surviving(@)])
FightOver ==
  /\ f.over = "DRAINING" /\ ~Draining
  /\ \E d \in 0 .. Faces - 1 : Step(d, Finished)

\* The player may act.
Listening == Running /\ ~Overflow(f)
Aims(g, r) == IF NeedsEnemy(g.card[r].id) THEN Fighting(g) ELSE {Player}
PlayCard ==
  /\ Listening /\ Waiting(f) /\ ~UnceasingTop(f) /\ f.played < PlayCap
  /\ \E i \in DOMAIN f.hand : \E t \in Aims(f, f.hand[i]) :
       /\ CanUse(f, f.hand[i], t, FALSE)
       /\ Becomes([TurnedTo(f, t) EXCEPT !.cq = Append(@, [row |-> f.hand[i], tgt |-> t])])
\* An answer to the item at the head of the queue: the pump has stopped there.
ChooseCard ==
  /\ Listening /\ Asked(f, "CHOOSE")
  /\ \E r \in ToSet(Candidates(f, Head(f.q).x)) : \E d \in 0 .. Faces - 1 :
       Becomes(Selected([Roll(f, d) EXCEPT !.q[1].n = @ - 1], Head(f.q), r))
ToggleCard ==
  /\ Listening /\ Asked(f, "CHOOSE_ANY")
  /\ \E i \in DOMAIN f.hand : MayToggle(f, i) /\ Becomes(Toggled(f, i))
ConfirmChoice ==
  /\ Listening /\ Asked(f, "CHOOSE_ANY")
  /\ \E d \in 0 .. Faces - 1 : Step(d, Confirmed)
TakeOffered ==
  /\ Listening /\ (Asked(f, "DISCOVERY") \/ Asked(f, "CODEX"))
  /\ \E id \in PoolOf(Head(f.q)) : \E d \in 0 .. Faces - 1 : Becomes(Taken(Roll(f, d), id))
SkipOffered ==
  /\ Listening /\ (Asked(f, "DISCOVERY") \/ Asked(f, "CODEX"))
  /\ MaySkip(Head(f.q))
  /\ Becomes([f EXCEPT !.q = Tail(@)])
\* combat_potion_legal: also in the middle of a choice.
DrinkPotion ==
  /\ Listening /\ (Blocked(f) \/ (Waiting(f) /\ ~UnceasingTop(f)))
  /\ \E i \in DOMAIN f.belt : \E t \in IF IsThrown(f.belt[i]) THEN Fighting(f) ELSE {Player} :
       \E d \in 0 .. Faces - 1 : Becomes(Drunk(Roll(f, d), i, t))
EndPlayerTurn ==
  /\ Listening /\ Waiting(f) /\ ~UnceasingTop(f) /\ f.turn < TurnCap
  /\ Becomes([f EXCEPT !.closing = TRUE])

Next == \/ RunAction \/ PlayHead \/ EndTurn \/ BeginFight \/ QueueMonsters \/ MonsterTurn \/ NextTurn
        \/ DrawFromTop \/ OverflowDraw \/ FightDecided \/ FightOver \/ PlayCard \/ EndPlayerTurn
        \/ ChooseCard \/ ToggleCard \/ ConfirmChoice \/ TakeOffered \/ SkipOffered \/ DrinkPotion
Spec == Init /\ [][Next]_vars

(***************************************************************************)
(* What the hooks must keep between them.                                  *)
(***************************************************************************)

AtRest == Waiting(f)
Piled == f.hand \o f.draw \o f.disc \o f.exh
Held(a) == f.act[a]

\* Red Skull counts itself active exactly while the player is at half health or
\* below: blows, losses, heals, revivals and gains of maximum hp (every writer of
\* hp calls relic_red_skull's two halves itself) leave the bit true.  That its
\* three Strength stand while the bit does, BorrowedStrength says.
RedSkullExact ==
  AtRest => ("RED_SKULL" \in f.flag <=> HasRelic(f, "RED_SKULL") /\ Bloodied(f))
\* Between the player's actions a guard carries the Back Attack marker exactly
\* while its blows come from behind: the marker is moved by items that wait behind
\* or in front of others, the blow reads the facing itself (refresh_back_attack_
\* markers at a card's play and a potion's, spire_guard_die_after).
MarkersMatchFacing ==
  AtRest => \A m \in Fighting(f) : HasSlot(f, m, "BACK_ATTACK") <=> AppliesBackAttack(f, m)
\* What stands for a condition is there exactly while the condition holds.
MarksExact == RedSkullExact /\ MarkersMatchFacing

\* Borrowed Strength is given back in full: what Flex lent is owed to the end of
\* the turn, Red Skull's three are the only others, and what Shifting took from
\* the Transient comes back with its Shackled power (power_flex.cpp,
\* power_shifting.cpp, power_shackled.cpp, interp_powers.cpp).
NothingLasts ==
  /\ \A r \in DOMAIN f.card : f.card[r].id \notin {"INFLAME", "LIMIT_BREAK", "SPOT_WEAKNESS"}
  /\ \A id \in {"SHURIKEN", "ORANGE_PELLETS", "VAJRA", "GIRYA", "DU_VU_DOLL", "SLING_OF_COURAGE",
                 "BRIMSTONE", "PHILOSOPHERS_STONE"} : ~HasRelic(f, id)
  /\ \A id \in {"RUPTURE", "DEMON_FORM", "RITUAL", "ARTIFACT"} : ~HasSlot(f, Player, id)
  /\ \A m \in Monsters(f) : Held(m).kind # "SPIRE_SHIELD"
BorrowedStrength ==
  AtRest /\ NothingLasts =>
    /\ AmountOf(f, Player, "STRENGTH") = AmountOf(f, Player, "LOSE_STRENGTH")
                                          + IF "RED_SKULL" \in f.flag THEN 3 ELSE 0
    /\ \A m \in Fighting(f) : Held(m).kind = "TRANSIENT" =>
         AmountOf(f, m, "STRENGTH") + AmountOf(f, m, "SHACKLED") = 0

\* A card is in one place, and the right one: no row is in two piles or in a
\* pile and the limbo, a copy made to be played once reaches no pile
\* (file_card_from_limbo), and between the player's actions the limbo holds what
\* the Bronze Orbs hold and nothing else (PLAY_TOP, USE_CARD, Stasis).
CopiesVanish == \A i \in DOMAIN Piled : ~Purged(f, Piled[i])
LimboIsHeld ==
  AtRest => ToSet(f.limbo) = {Held(m).pow[SlotOf(f, m, "STASIS")].ctr :
                                m \in {x \in Fighting(f) : HasSlot(f, x, "STASIS")}}
CardsInPlace == IsInjective(Piled \o f.limbo) /\ CopiesVanish /\ LimboIsHeld

\* Buffer loses one charge for each blow it took, however many blows were queued
\* before the first charge was spent (apply_buffer, the queued reduction).
BufferPays == AtRest => AmountOf(f, Player, "BUFFER") + f.tally.parried = f.tally.charges

\* A price lasts as long as what set it: under Corruption no skill in the hand
\* costs energy (Runic Pyramid keeps cards whose price was reset), and a price of
\* the turn is gone from every pile the player ends the turn with (set_cost_for_
\* turn, reset_cost_for_turn, dispatch_card_on_draw).
CorruptionHolds ==
  AtRest /\ HasSlot(f, Player, "CORRUPTION") /\ ~HasRelic(f, "RUNIC_PYRAMID") =>
    \A i \in DOMAIN f.hand : IsSkill(f, f.hand[i]) => f.card[f.hand[i]].now = 0
PricesForOneTurn ==
  f.ended => \A i \in DOMAIN Piled : "FOR_TURN" \notin f.card[Piled[i]].flags
PricesKept == CorruptionHolds /\ PricesForOneTurn

\* What the player is taken to know of the draw pile is true of it, and the
\* worlds resample.cpp may put in its place are exactly those the player could
\* not tell apart: each shows the same public view, which gives every known card
\* its rank (the draws, shuffles, insertions and removals of the fight each keep
\* knowledge.cpp's account themselves).
Agrees(k, order) ==
  /\ SelectSeq(order, LAMBDA r : Contains(k.chain, r)) = k.chain
  /\ k.exact <= Len(k.chain)
  /\ SubSeq(order, 1, k.exact) = SubSeq(k.chain, 1, k.exact)
  /\ k.full => order = k.chain
KnowledgeSound ==
  /\ Agrees(f.know, TopFirst(f))
  /\ f.know.chain # << >> /\ Len(f.draw) \in 2 .. 4 =>
       /\ Resampled(f) = {Reverse(o) : o \in {s \in SetToSeqs(ToSet(f.draw)) : Agrees(f.know, s)}}
       /\ DOMAIN PublicKnowledge(f).rank = DOMAIN f.know.chain
       /\ \A w \in Resampled(f) : LET g == [f EXCEPT !.draw = w]
                                   IN  PublicCombat(g) = PublicCombat(f) /\ PublicKnowledge(g) = PublicKnowledge(f)

\* What lasts for the turn is gone when the next one starts (powers.yaml: Rage
\* lasts one turn; the comment of dispatch_actor_powers: no body moves a slot).
OneTurnPowersGone ==
  AtRest => \A pw \in {"RAGE", "DOUBLE_TAP", "LOSE_STRENGTH", "NO_DRAW", "ENTANGLE"} :
              f.turn > 1 /\ f.played = 0 => ~HasSlot(f, Player, pw)
=============================================================================
