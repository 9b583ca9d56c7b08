---------------------------- MODULE MonsterTurns ----------------------------
(***************************************************************************)
(* The dispatch tables of the monsters (monster_dispatch.cpp): how a       *)
(* record is made, which routine chooses its next move, and what its turn  *)
(* does to the record at once and leaves to the queue.                     *)
(*                                                                         *)
(* A turn picks the next move in one of three ways, and which one decides  *)
(* what a blow that lands in the middle of the turn does to it: at once,   *)
(* by a ROLL_MOVE behind the effects, or by a SET_MOVE behind them.        *)
(***************************************************************************)
EXTENDS MonsterMoves

\* Moves that hit nobody: every other move queues blows at the player.
Harmless ==
  {"BELLOW", "INCANTATION", "STRENGTHEN", "WEAKEN", "FRAIL_LICK", "LICK", "SPLIT", "PREP_SLAM",
   "STICKY", "BOLT", "DEBUFF", "OPEN", "IDLE", "PROTECT", "CHARGE", "CLOSE_UP", "CHARGE_UP",
   "VENT_STEAM", "INFLAME", "ACTIVATE", "ENTANGLE", "GROW", "SMOKE_BOMB", "ESCAPE", "DRAIN",
   "HEX", "GO_AIRBORNE", "STUNNED", "CAW", "INITIAL_BLOCK_GAIN", "SPORES", "GLARE", "HEAL",
   "BUFF", "RALLY", "ENCOURAGE", "SPAWN_ORBS", "BOOST", "SUPPORT_BEAM", "STASIS",
   "DEFENSIVE_STANCE", "GLOAT", "TAUNT", "ANGER", "SPAWN", "MEGA_DEBUFF", "REVIVE", "MOCK",
   "BEAR_HUG", "HARDEN", "REINCARNATE", "DAZE", "BLOCK", "BUFF_THORNS", "CONSTRICT", "ROAR",
   "DROOL", "TRI_BURN", "SPAWN_DAGGER", "REBIRTH", "RIPPLE", "HASTE", "CIRCLE_OF_PROTECTION",
   "SQUARE_OF_PROTECTION", "FORTIFY", "PIERCER", "GAIN_ONE_STRENGTH"}

Hits(m) == /\ Intent(m) \notin Harmless
           /\ <<m.id, Intent(m)>> \notin {<<"DARKLING", "COUNT">>, <<"CORRUPT_HEART", "DEBILITATE">>}

\* Monsters whose first move is given, whatever the die shows.
Opener ==
  [JAW_WORM |-> "CHOMP", CULTIST |-> "INCANTATION", SPIKE_SLIME_SMALL |-> "TACKLE",
   SLIME_BOSS |-> "STICKY", THE_GUARDIAN |-> "CHARGE_UP", HEXAGHOST |-> "ACTIVATE",
   GREMLIN_WARRIOR |-> "SCRATCH", GREMLIN_THIEF |-> "PUNCTURE", GREMLIN_FAT |-> "BLUNT",
   GREMLIN_TSUNDERE |-> "PROTECT", GREMLIN_WIZARD |-> "CHARGE", LOOTER |-> "MUG",
   MUGGER |-> "MUG", TORCH_HEAD |-> "TACKLE", BANDIT_POINTY |-> "POINTY_SPECIAL",
   BANDIT_LEADER |-> "MOCK", BANDIT_BEAR |-> "BEAR_HUG"]

Large == {"SPIKE_SLIME_LARGE", "ACID_SLIME_LARGE"}
Halves == Large \cup {"SLIME_BOSS", "CHAMP", "TIME_EATER"}  \* half of the hit points matters

Fuse == [EXPLODER |-> 3, TRANSIENT |-> 6]                   \* Explosive, Fading

\* A record as its init leaves it, before its first choice.
Made(who, id, x) ==
  LET m == Record(who, CASE id = "LAGAVULIN_AWAKE" -> "LAGAVULIN"
                         [] id = "JAW_WORM_HARD" -> "JAW_WORM"
                         [] OTHER -> id,
                  IF id \in Halves THEN Well ELSE Low, x)
  IN  CASE id = "LAGAVULIN_AWAKE" -> [m EXCEPT !.on = {"out", "roused"}]
        [] id = "THE_GUARDIAN" -> [m EXCEPT !.on = {"open"}]
        [] id = "AWAKENED_ONE" -> [m EXCEPT !.on = {"form1", "first"}]
        [] id = "DECA" -> [m EXCEPT !.on = {"attacking"}]
        [] id = "GREMLIN_WIZARD" -> [m EXCEPT !.n = 1]
        [] id = "GIANT_HEAD" -> [m EXCEPT !.n = 5]
        [] OTHER -> m

\* monster_pre_battle_fn, when every record of the encounter has chosen.
ExordiumPreBattle(m) ==
  CASE m.id = "LAGAVULIN" /\ Has(m, "out") -> Move(m, "DEBUFF")
    [] m.id = "THE_GUARDIAN" -> Raise(m, "shift")
    [] m.id = "TRANSIENT" -> [m EXCEPT !.k = Fuse[m.id]]
    [] OTHER -> m
PreBattle(m) ==
  CASE m.id = "BYRD" -> Raise(m, "flying")
    [] m.id = "SHELLED_PARASITE" -> Raise(m, "plated")
    [] m.id = "EXPLODER" -> [m EXCEPT !.k = Fuse[m.id]]
    [] m.id = "GIANT_HEAD" -> [m EXCEPT !.n = @ - 1]
    [] OTHER -> ExordiumPreBattle(m)

Up(m) == m.hp > None                             \* alive, or alive and gone
OthersUp(f, i) == Cardinality({j \in DOMAIN f \ {i} : Up(f[j])})
Standing(f) == Cardinality({j \in DOMAIN f : ~BasicallyDead(f[j])})
\* The Collector's torches: their places, and one whose every record is dead.
TorchX == <<-285, -470>>
TorchesAt(f, x) == {j \in DOMAIN f : f[j].id = "TORCH_HEAD" /\ f[j].x = x}
TorchDead(f, x) == TorchesAt(f, x) # {} /\ \A j \in TorchesAt(f, x) : ~Up(f[j])

\* roll_monster_move: the records the next choice of record i may leave.
BeyondChosen(f, i) ==
  LET m == f[i]
  IN  CASE m.id = "DARKLING" -> DarklingNext(m, i - 1)
        [] m.id = "ORB_WALKER" -> OrbWalkerNext(m)
        [] m.id = "REPULSOR" -> RepulsorNext(m)
        [] m.id = "EXPLODER" -> ExploderNext(m)
        [] m.id = "SPIKER" -> SpikerNext(m)
        [] m.id = "SPIRE_GROWTH" -> SpireGrowthNext(m, TRUE) \cup SpireGrowthNext(m, FALSE)
        [] m.id = "TRANSIENT" -> TransientNext(m)
        [] m.id = "MAW" -> MawNext(m)
        [] m.id = "WRITHING_MASS" -> WrithingMassNext(m)
        [] m.id = "GIANT_HEAD" -> GiantHeadNext(m)
        [] m.id = "NEMESIS" -> NemesisNext(m)
        [] m.id = "REPTOMANCER" -> ReptomancerNext(m, OthersUp(f, i))
        [] m.id = "SNAKE_DAGGER" -> SnakeDaggerNext(m)
        [] m.id = "AWAKENED_ONE" -> AwakenedOneNext(m)
        [] m.id = "TIME_EATER" -> TimeEaterNext(m)
        [] m.id = "DONU" -> DonuNext(m)
        [] m.id = "DECA" -> DecaNext(m)
        [] m.id = "SPIRE_SHIELD" -> SpireShieldNext(m)
        [] m.id = "SPIRE_SPEAR" -> SpireSpearNext(m)
        [] m.id = "CORRUPT_HEART" -> CorruptHeartNext(m)
        [] OTHER -> {m}
CityChosen(f, i) ==
  LET m == f[i]
  IN  CASE m.id = "CENTURION" -> CenturionNext(m, Standing(f))
        [] m.id = "HEALER" -> HealerNext(m, TRUE) \cup HealerNext(m, FALSE)
        [] m.id = "CHOSEN" -> ChosenNext(m)
        [] m.id = "BYRD" -> ByrdNext(m)
        [] m.id = "SHELLED_PARASITE" -> ShelledParasiteNext(m)
        [] m.id = "SPHERIC_GUARDIAN" -> SphericGuardianNext(m)
        [] m.id = "SNAKE_PLANT" -> SnakePlantNext(m)
        [] m.id = "SNECKO" -> SneckoNext(m)
        [] m.id = "TASKMASTER" -> TaskmasterNext(m)
        [] m.id = "BOOK_OF_STABBING" -> BookOfStabbingNext(m)
        [] m.id = "GREMLIN_LEADER" -> GremlinLeaderNext(m, OthersUp(f, i))
        [] m.id = "CHAMP" -> ChampNext(m)
        [] m.id = "BRONZE_AUTOMATON" -> BronzeAutomatonNext(m)
        [] m.id = "BRONZE_ORB" -> BronzeOrbNext(m)
        [] m.id = "THE_COLLECTOR" -> CollectorNext(m, \E k \in 1..2 : TorchDead(f, TorchX[k]))
        [] OTHER -> BeyondChosen(f, i)
Chosen(f, i) ==
  LET m == f[i]
  IN  CASE m.id = "JAW_WORM" -> JawWormNext(m)
        [] m.id = "CULTIST" -> CultistNext(m)
        [] m.id = "LOUSE_NORMAL" -> LouseNext(m, "STRENGTHEN")
        [] m.id = "LOUSE_DEFENSIVE" -> LouseNext(m, "WEAKEN")
        [] m.id \in {"SPIKE_SLIME_MEDIUM", "SPIKE_SLIME_LARGE"} -> SpikeSlimeNext(m)
        [] m.id \in {"ACID_SLIME_MEDIUM", "ACID_SLIME_LARGE"} -> AcidSlimeNext(m)
        [] m.id = "ACID_SLIME_SMALL" -> SmallAcidSlimeNext(m)
        [] m.id = "SPIKE_SLIME_SMALL" -> AnyOf(m, {"TACKLE"})
        [] m.id = "FUNGI_BEAST" -> FungiBeastNext(m)
        [] m.id = "GREMLIN_NOB" -> GremlinNobNext(m)
        [] m.id = "GREMLIN_FAT" -> AnyOf(m, {"BLUNT"})
        [] m.id = "SLAVER_BLUE" -> SlaverBlueNext(m)
        [] m.id = "SLAVER_RED" -> SlaverRedNext(m)
        [] m.id = "SENTRY" -> SentryNext(m, i - 1)
        [] m.id = "LAGAVULIN" -> LagavulinNext(m)
        [] m.id = "HEXAGHOST" -> HexaghostNext(m)
        [] OTHER -> CityChosen(f, i)

\* monster_init_fn: record i of field f, just made, makes its first choice.
Opened(f, i, id) ==
  IF id \in DOMAIN Opener THEN AnyOf(f[i], {Opener[id]}) ELSE Chosen(f, i)

\* Monsters whose turn chooses at once; the others' wait for their effects.
RollAtOnce == {"JAW_WORM", "CULTIST", "LOUSE_NORMAL", "LOUSE_DEFENSIVE", "SPIKE_SLIME_SMALL",
               "SPIKE_SLIME_MEDIUM", "ACID_SLIME_SMALL", "ACID_SLIME_MEDIUM", "GREMLIN_NOB",
               "SENTRY"}
\* queue_monster_move_effects: the blows of the move that is shown, as one item.
MoveEffects(m) == IF Hits(m) THEN <<Hit>> ELSE <<>>

PlainTurn(m) == Turn(m, MoveEffects(m) \o <<Roll>>)
RollingTurn(f, i) == {[m |-> c, q |-> MoveEffects(f[i])] : c \in Chosen(f, i)}
RepeatingTurn(m) == Turn(m, MoveEffects(m) \o <<Set(Intent(m))>>)

\* Fixed cycles: the turn that makes the move sets the next one at once.
Cycle == [CHARGE_UP |-> "FIERCE_BASH", FIERCE_BASH |-> "VENT_STEAM", VENT_STEAM |-> "WHIRLWIND",
          WHIRLWIND |-> "CHARGE_UP", CLOSE_UP |-> "ROLL_ATTACK", ROLL_ATTACK |-> "TWIN_SLAM",
          TWIN_SLAM |-> "WHIRLWIND", STICKY |-> "PREP_SLAM", PREP_SLAM |-> "SLAM",
          SLAM |-> "STICKY"]

GuardianTurn(m) ==
  IF Intent(m) = "TWIN_SLAM"
  THEN Turn(Move(Lower(Raise(m, "open"), "closing"), Cycle[Intent(m)]), <<Hit, Do("shift")>>)
  ELSE Turn(Move(m, Cycle[Intent(m)]), MoveEffects(m))

SlimeBossTurn(m) ==
  IF Intent(m) = "SPLIT" THEN Turn(Move(m, "SPLIT"), <<Do("split")>>)
  ELSE Turn(Move(m, Cycle[Intent(m)]), MoveEffects(m))

LargeSlimeTurn(m) ==
  IF Intent(m) = "SPLIT" THEN Turn(Move(m, "SPLIT"), <<Do("split")>>) ELSE PlainTurn(m)

\* Lagavulin sleeps through three turns and opens: change_state_open.
LagavulinOpens(m) == Turn([m EXCEPT !.k = 3, !.on = @ \cup {"out", "roused"}], <<Set("STRONG_ATK")>>)

LagavulinChooses(m, q) == {[m |-> c, q |-> q] : c \in LagavulinNext(m)}
LagavulinTurn(m) ==
  CASE Intent(m) = "DEBUFF" -> LagavulinChooses([m EXCEPT !.n = 0], <<>>)
    [] Intent(m) = "STRONG_ATK" -> LagavulinChooses([m EXCEPT !.n = IF @ < 2 THEN @ + 1 ELSE @], <<Hit>>)
    [] Intent(m) = "IDLE" /\ m.k < 2 -> LagavulinChooses(Move([m EXCEPT !.k = @ + 1], "IDLE"), <<>>)
    [] Intent(m) = "IDLE" /\ m.k >= 2 -> LagavulinOpens(m)
    [] OTHER -> LagavulinChooses(m, <<>>)

HexaghostTurn(m) ==
  IF Intent(m) = "ACTIVATE" THEN Turn(Move([m EXCEPT !.n = 6], "DIVIDER"), <<>>) ELSE PlainTurn(m)

TsundereTurn(m, alive) ==
  IF Intent(m) = "BASH" THEN RepeatingTurn(m)
  ELSE {[m |-> c, q |-> <<>>] : c \in TsundereNext(m, alive)}

WizardTurn(m) ==
  CASE Intent(m) = "DOPE_MAGIC" -> Turn(Move([m EXCEPT !.n = 0], "DOPE_MAGIC"), <<Hit>>)
    [] m.n = 2 -> Turn([m EXCEPT !.n = 3], <<Set("DOPE_MAGIC")>>)
    [] OTHER -> Turn(Move([m EXCEPT !.n = @ + 1], "CHARGE"), <<>>)

\* Two blows, then the smoke bomb at once or after one blow more.
ThiefTurn(m, lunge) ==
  CASE Intent(m) = "MUG" /\ m.n = 1 ->
         Turn(Move([m EXCEPT !.n = 2], "SMOKE_BOMB"), <<Hit>>)
         \cup Turn([m EXCEPT !.n = 2], <<Hit, Set(lunge)>>)
    [] Intent(m) = "MUG" /\ m.n # 1 -> Turn([m EXCEPT !.n = @ + 1], <<Hit, Set("MUG")>>)
    [] Intent(m) = lunge -> Turn(Move(m, "SMOKE_BOMB"), <<Hit>>)
    [] Intent(m) = "SMOKE_BOMB" -> Turn(m, <<Set("ESCAPE")>>)
    [] Intent(m) = "ESCAPE" -> Turn(m, <<Do("escape"), Set("ESCAPE")>>)
    [] OTHER -> Turn(m, <<>>)
LooterTurn(m) == ThiefTurn(m, "LUNGE")
MuggerTurn(m) == ThiefTurn(m, "BIGSWIPE")

SlaverRedTurn(m) == PlainTurn(IF Intent(m) = "ENTANGLE" THEN Raise(m, "entangled") ELSE m)

BanditLeaderTurn(m) ==
  Turn(m, MoveEffects(m) \o
          <<Set(IF Intent(m) = "MOCK" \/ LastTwo(m, "CROSS_SLASH") THEN "AGONIZING_SLASH" ELSE "CROSS_SLASH")>>)
BanditBearTurn(m) == Turn(m, MoveEffects(m) \o <<Set(IF Intent(m) = "LUNGE" THEN "MAUL" ELSE "LUNGE")>>)

ByrdTurn(m) ==
  CASE Intent(m) = "HEADBUTT" -> Turn(Move(m, "GO_AIRBORNE"), <<Hit>>)
    [] Intent(m) = "GO_AIRBORNE" -> Turn(Raise(m, "flying"), <<Roll>>)
    [] OTHER -> PlainTurn(m)

ShelledParasiteTurn(m) ==
  IF Intent(m) = "STUNNED" THEN Turn(Move(m, "FELL"), <<Roll>>) ELSE PlainTurn(m)

GremlinLeaderTurn(m) == IF Intent(m) = "RALLY" THEN Turn(m, <<Do("rally")>>) ELSE PlainTurn(m)
BronzeAutomatonTurn(m) == IF Intent(m) = "SPAWN_ORBS" THEN Turn(m, <<Do("orbs")>>) ELSE PlainTurn(m)

CollectorTurn(m) ==
  LET later == [m EXCEPT !.n = IF @ < 3 THEN @ + 1 ELSE @]
  IN  CASE Intent(m) = "SPAWN" -> Turn(Raise(later, "spawned"), <<Do("torches")>>)
        [] Intent(m) = "REVIVE" -> Turn(later, <<Do("relight")>>)
        [] Intent(m) = "MEGA_DEBUFF" -> Turn(Raise(later, "ult"), <<Roll>>)
        [] OTHER -> Turn(later, MoveEffects(m) \o <<Roll>>)

MawTurn(m) == PlainTurn(IF Intent(m) = "ROAR" THEN Raise(m, "roared") ELSE m)
SpikerTurn(m) == PlainTurn(IF Intent(m) = "BUFF_THORNS" /\ m.n < 6 THEN [m EXCEPT !.n = @ + 1] ELSE m)
WrithingMassTurn(m) == PlainTurn(IF Intent(m) = "MEGA_DEBUFF" THEN Raise(m, "used") ELSE m)
TransientTurn(m) == {[m |-> c, q |-> <<Hit>>] : c \in TransientNext(m)}
DonuTurn(m) == PlainTurn(IF Intent(m) = "BEAM" THEN Lower(m, "attacking") ELSE Raise(m, "attacking"))
DecaTurn(m) == PlainTurn(IF Intent(m) = "BEAM" THEN Lower(m, "attacking") ELSE Raise(m, "attacking"))

DarklingTurn(m) ==
  IF Intent(m) = "REINCARNATE" THEN Turn(m, <<Do("heal"), Roll>>) ELSE PlainTurn(m)
TimeEaterTurn(m) == IF Intent(m) = "HASTE" THEN Turn(m, <<Do("heal"), Roll>>) ELSE PlainTurn(m)
ReptomancerTurn(m) == IF Intent(m) = "SPAWN_DAGGER" THEN Turn(m, <<Do("daggers")>>) ELSE PlainTurn(m)
SnakeDaggerTurn(m) == IF Intent(m) = "EXPLODE" THEN Turn(m, <<Hit, Do("spend"), Roll>>) ELSE PlainTurn(m)

\* The rebirth chooses before it heals, and the fight can be won after it.
AwakenedOneTurn(m) ==
  CASE Intent(m) = "REBIRTH" -> Turn(m, <<Roll, Do("heal"), Do("can")>>)
    [] Intent(m) = "DARK_ECHO" -> Turn(Lower(m, "first"), <<Hit, Roll>>)
    [] OTHER -> PlainTurn(m)

\* dispatch_during_turn: behind its turn the fuse burns down, or blows.
Burning(m) == IF m.id \notin DOMAIN Fuse THEN <<>>
              ELSE IF m.k = 1 THEN <<Do("slay")>> ELSE <<Do("burn")>>

\* dispatch_monster_turn: the turns record i of field f may take.
Gremlins == {"GREMLIN_WARRIOR", "GREMLIN_THIEF", "GREMLIN_FAT", "GREMLIN_TSUNDERE", "GREMLIN_WIZARD"}
Turned(f, i) ==
  LET m == f[i]
  IN  CASE m.id \in RollAtOnce -> RollingTurn(f, i)
        [] m.id \in {"GREMLIN_WARRIOR", "GREMLIN_THIEF", "TORCH_HEAD", "BANDIT_POINTY"} -> RepeatingTurn(m)
        [] m.id = "GREMLIN_TSUNDERE" -> TsundereTurn(m, Cardinality({j \in DOMAIN f : Up(f[j])}))
        [] m.id = "GREMLIN_WIZARD" -> WizardTurn(m)
        [] m.id = "LOOTER" -> LooterTurn(m)
        [] m.id = "MUGGER" -> MuggerTurn(m)
        [] m.id = "SLAVER_RED" -> SlaverRedTurn(m)
        [] m.id = "LAGAVULIN" -> LagavulinTurn(m)
        [] m.id = "THE_GUARDIAN" -> GuardianTurn(m)
        [] m.id = "HEXAGHOST" -> HexaghostTurn(m)
        [] m.id = "SLIME_BOSS" -> SlimeBossTurn(m)
        [] m.id \in Large -> LargeSlimeTurn(m)
        [] m.id = "BANDIT_LEADER" -> BanditLeaderTurn(m)
        [] m.id = "BANDIT_BEAR" -> BanditBearTurn(m)
        [] m.id = "BYRD" -> ByrdTurn(m)
        [] m.id = "SHELLED_PARASITE" -> ShelledParasiteTurn(m)
        [] m.id = "GREMLIN_LEADER" -> GremlinLeaderTurn(m)
        [] m.id = "BRONZE_AUTOMATON" -> BronzeAutomatonTurn(m)
        [] m.id = "THE_COLLECTOR" -> CollectorTurn(m)
        [] m.id = "MAW" -> MawTurn(m)
        [] m.id = "SPIKER" -> SpikerTurn(m)
        [] m.id = "WRITHING_MASS" -> WrithingMassTurn(m)
        [] m.id = "TRANSIENT" -> TransientTurn(m)
        [] m.id = "DONU" -> DonuTurn(m)
        [] m.id = "DECA" -> DecaTurn(m)
        [] m.id = "DARKLING" -> DarklingTurn(m)
        [] m.id = "TIME_EATER" -> TimeEaterTurn(m)
        [] m.id = "REPTOMANCER" -> ReptomancerTurn(m)
        [] m.id = "SNAKE_DAGGER" -> SnakeDaggerTurn(m)
        [] m.id = "AWAKENED_ONE" -> AwakenedOneTurn(m)
        [] OTHER -> PlainTurn(m)
=============================================================================
