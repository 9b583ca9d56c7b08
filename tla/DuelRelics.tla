------------------------------ MODULE DuelRelics ------------------------------
(***************************************************************************)
(* The relic hooks (src/engine/relics/relics_*.cpp and relic_hooks.cpp).   *)
(* Relics answer in the order they were picked up.  s is the relic's place *)
(* and n its counter, c the hook's context as in DuelPowers.               *)
(***************************************************************************)
EXTENDS DuelPowers

CONSTANT CalendarDay      \* Stone Calendar's turn, 7

ASSUME RelicAssumption == CalendarDay \in Nat \ {0}

Count(f, s, n) == [f EXCEPT !.relics[s].n = n]
Mark(f, x) == [f EXCEPT !.flag = @ \cup {x}]
Unmark(f, x) == [f EXCEPT !.flag = @ \ {x}]

(***************************************************************************)
(* Counters.  A relic that pays every k-th time keeps its count across     *)
(* turns or starts it anew with the turn.                                  *)
(***************************************************************************)

EveryNth(f, s, n, k, it) ==
  IF n + 1 = k THEN Bot(Count(f, s, 0), it) ELSE Count(f, s, n + 1)

\* Kunai, Shuriken, Ornamental Fan and Letter Opener: three in one turn.
ThreeInATurn(f, s, n, hook, hit, it) ==
  CASE hook = "TURN_START" -> Count(f, s, 0)
    [] hook = "USE_CARD" /\ hit -> EveryNth(f, s, n, 3, it)
    [] hook = "VICTORY" -> Count(f, s, -1)
    [] OTHER -> f
Kunai(f, s, n, hook, c) ==
  ThreeInATurn(f, s, n, hook, IsType(f, c, "ATTACK"), Gain(Player, "DEXTERITY", 1))
Shuriken(f, s, n, hook, c) ==
  ThreeInATurn(f, s, n, hook, IsType(f, c, "ATTACK"), Gain(Player, "STRENGTH", 1))
OrnamentalFan(f, s, n, hook, c) ==
  ThreeInATurn(f, s, n, hook, IsType(f, c, "ATTACK"), Shield(Player, 4))
LetterOpener(f, s, n, hook, c) ==
  ThreeInATurn(f, s, n, hook, IsType(f, c, "SKILL"), Hit(Player, AllEnemies, 5, "THORNS"))
Nunchaku(f, s, n, hook, c) ==
  IF hook = "USE_CARD" /\ IsType(f, c, "ATTACK") THEN EveryNth(f, s, n, 10, Energy(1)) ELSE f
InkBottle(f, s, n, hook) == IF hook = "USE_CARD" THEN EveryNth(f, s, n, 10, Draw(1)) ELSE f
HappyFlower(f, s, n, hook) == IF hook = "TURN_START" THEN EveryNth(f, s, n, 3, Energy(1)) ELSE f
Sundial(f, s, n, hook) == IF hook = "SHUFFLE" THEN EveryNth(f, s, n, 3, Energy(2)) ELSE f
IncenseBurner(f, s, n, hook) ==
  IF hook # "TURN_START" THEN f
  ELSE EveryNth(f, s, IF n = -1 THEN 0 ELSE n, 6, Gain(Player, "INTANGIBLE", 1))
PenNib(f, s, n, hook, c) ==
  CASE hook = "BATTLE_START" /\ n = 9 -> Bot(f, Gain(Player, "PEN_NIB", 1))
    [] hook = "USE_CARD" /\ IsType(f, c, "ATTACK") ->
         IF n + 1 = 10 THEN Count(f, s, 0)
         ELSE IF n + 1 = 9 THEN Bot(Count(f, s, 9), Gain(Player, "PEN_NIB", 1))
         ELSE Count(f, s, n + 1)
    [] OTHER -> f
\* Captain's Wheel and Horn Cleat pay once a fight, on turn 3 and turn 2.
OnTurn(f, s, n, hook, k, it) ==
  CASE hook = "BATTLE_START" -> Count(f, s, 0)
    [] hook = "TURN_START" /\ n >= 0 ->
         IF n + 1 = k THEN Bot(Count(f, s, -1), it) ELSE Count(f, s, n + 1)
    [] hook = "VICTORY" -> Count(f, s, -1)
    [] OTHER -> f
CaptainsWheel(f, s, n, hook) == OnTurn(f, s, n, hook, 3, Shield(Player, 18))
HornCleat(f, s, n, hook) == OnTurn(f, s, n, hook, 2, Shield(Player, 14))
StoneCalendar(f, s, n, hook) ==
  CASE hook = "BATTLE_START" -> Count(f, s, 0)
    [] hook = "TURN_START" -> Count(f, s, n + 1)
    [] hook = "PLAYER_END_TURN" /\ n = CalendarDay -> Bot(f, Hit(Player, AllEnemies, 52, "THORNS"))
    [] hook = "VICTORY" -> Count(f, s, -1)
    [] OTHER -> f
VelvetChoker(f, s, n, hook) ==
  CASE hook \in {"BATTLE_START", "TURN_START"} -> Count(f, s, 0)
    [] hook = "PLAY_CARD" /\ n < 6 -> Count(f, s, n + 1)
    [] hook = "VICTORY" -> Count(f, s, -1)
    [] OTHER -> f
\* Below zero until the first turn's draw is over: one number says both how
\* many cards were played and whether the relic is still to be armed.
Pocketwatch(f, s, n, hook) ==
  CASE hook \in {"BATTLE_START", "VICTORY"} -> Count(f, s, -1)
    [] hook = "PLAY_CARD" -> Count(f, s, IF n >= 0 THEN n + 1 ELSE n - 1)
    [] hook = "POST_DRAW" ->
         Count(IF n >= 0 /\ n <= 3 THEN Bot(f, Draw(3)) ELSE f, s, 0)
    [] OTHER -> f

(***************************************************************************)
(* Relics of the fight's start and of the turn.                            *)
(***************************************************************************)

AddDirect(f, a, id, n) == AddToList(f, a, id, n, 0, TRUE, FALSE)

PhilosophersStone(f, hook) ==
  IF hook # "BATTLE_START" THEN f
  ELSE FoldLeft(LAMBDA g, m : AddDirect(g, m, "STRENGTH", 1), f, InOrder(f))
MarkOfPain(f, hook) == IF hook = "BATTLE_START" THEN Bot(f, Make("DRAW_RANDOM", "WOUND", 2)) ELSE f
SneckoEye(f, hook) == IF hook = "PRE_BATTLE" THEN Bot(f, Gain(Player, "CONFUSION", -1)) ELSE f
BloodVial(f, hook) == IF hook = "BATTLE_START" THEN HealPlayer(f, 2) ELSE f
Akabeko(f, hook) == IF hook = "BATTLE_START" THEN Top(f, Gain(Player, "VIGOR", 8)) ELSE f
TopStrength(f, n) == Top(f, Gain(Player, "STRENGTH", n))
DuVuDoll(f, n, hook) == IF hook = "BATTLE_START" /\ n > 0 THEN TopStrength(f, n) ELSE f
Girya(f, n, hook) == IF hook = "BATTLE_START" /\ n # 0 THEN TopStrength(f, n) ELSE f
SlingOfCourage(f, hook) ==
  IF hook = "BATTLE_START" /\ "ELITE" \in f.flag THEN TopStrength(f, 2) ELSE f
PreservedInsect(f, hook) ==
  IF hook # "BATTLE_START" \/ "ELITE" \notin f.flag THEN f
  ELSE FoldLeft(LAMBDA g, m : [g EXCEPT !.act[m].hp = LET cap == (3 * g.act[m].max) \div 4
                                                       IN  IF @ > cap THEN cap ELSE @],
                f, InOrder(f))
NeowsLament(f, s, n, hook) ==
  IF hook # "BATTLE_START" \/ n <= 0 THEN f
  ELSE FoldLeft(LAMBDA g, m : [g EXCEPT !.act[m].hp = 1],
                Count(f, s, IF n = 1 THEN -2 ELSE n - 1), InOrder(f))
Pantograph(f, hook) ==
  IF hook # "BATTLE_START" THEN f
  ELSE FoldLeft(LAMBDA g, m : IF g.act[m].kind = "BOSS" THEN HealPlayer(g, 25) ELSE g,
                f, InOrder(f))
\* The two relics that say of their item that no monster is its source.
NotByMonster(it) == Keyed(it, -1)
GremlinMask(f, hook) ==
  IF hook = "BATTLE_START" THEN Bot(f, NotByMonster(Gain(Player, "WEAK", 1))) ELSE f
RedMask(f, hook) ==
  IF hook # "BATTLE_START" THEN f
  ELSE Bots(f, [m \in 1 .. Cardinality(Monsters(f)) |-> NotByMonster(Inflict(Player, m, "WEAK", 1))])
\* Strength first on the queue, the debt before it: both go to the top.
MutagenicStrength(f, hook) ==
  IF hook = "BATTLE_START" THEN Top(TopStrength(f, 3), Gain(Player, "LOSE_STRENGTH", 3)) ELSE f
Enchiridion(f, hook) ==
  IF hook = "PRE_BATTLE" THEN Bot(f, Item("POWER_TO_HAND", Player, Player, 0, "")) ELSE f
Lantern(f, hook) == IF hook = "TURN_START" /\ f.turn = 0 THEN Top(f, Energy(1)) ELSE f
AncientTeaSet(f, s, n, hook) ==
  IF hook = "TURN_START" /\ f.turn = 0 /\ n = -2 THEN Top(Count(f, s, -1), Energy(2)) ELSE f
ArtOfWar(f, hook, c) ==
  CASE hook = "USE_CARD" -> IF IsType(f, c, "ATTACK") THEN Mark(f, "ART_OF_WAR") ELSE f
    [] hook = "TURN_START" ->
         Unmark(IF f.turn # 0 /\ "ART_OF_WAR" \notin f.flag THEN Bot(f, Energy(1)) ELSE f,
                "ART_OF_WAR")
    [] OTHER -> f
Brimstone(f, hook) ==
  IF hook # "TURN_START" THEN f
  ELSE FoldLeft(LAMBDA g, m : Top(g, Inflict(Player, m, "STRENGTH", 1)),
                TopStrength(f, 2), InOrder(f))
\* Gambling Chip asks once, in the first turn; Nilry's Codex at every turn's end.
GamblingChip(f, hook) ==
  IF hook = "POST_DRAW" /\ f.turn = 1 THEN Bot(f, Item("CHOOSE_ANY", Player, Player, 99, "GAMBLE")) ELSE f
NilrysCodex(f, hook) ==
  IF hook = "PLAYER_END_TURN" THEN Bot(f, Item("CODEX", Player, Player, 0, "")) ELSE f
Orichalcum(f, hook) ==
  IF hook = "PLAYER_END_TURN" /\ f.act[Player].block = 0 THEN Top(f, Shield(Player, 6)) ELSE f
\* Bindings without code of their own: the steps queued in the order given.
Bound(id, hook) ==
  CASE id = "ANCHOR" /\ hook = "BATTLE_START" -> <<Shield(Player, 10)>>
    [] id = "BAG_OF_MARBLES" /\ hook = "BATTLE_START" ->
         <<Inflict(Player, AllEnemies, "VULNERABLE", 1)>>
    [] id = "BAG_OF_PREPARATION" /\ hook = "BATTLE_START" -> <<Draw(2)>>
    [] id = "BRONZE_SCALES" /\ hook = "BATTLE_START" -> <<Gain(Player, "THORNS", 3)>>
    [] id = "ODDLY_SMOOTH_STONE" /\ hook = "BATTLE_START" -> <<Gain(Player, "DEXTERITY", 1)>>
    [] id = "VAJRA" /\ hook = "BATTLE_START" -> <<Gain(Player, "STRENGTH", 1)>>
    [] id = "THREAD_AND_NEEDLE" /\ hook = "BATTLE_START" -> <<Gain(Player, "PLATED_ARMOR", 4)>>
    [] id = "FOSSILIZED_HELIX" /\ hook = "BATTLE_START" -> <<Gain(Player, "BUFFER", 1)>>
    [] id = "CLOCKWORK_SOUVENIR" /\ hook = "BATTLE_START" -> <<Gain(Player, "ARTIFACT", 1)>>
    [] id = "MERCURY_HOURGLASS" /\ hook = "TURN_START" -> <<Hit(Player, AllEnemies, 3, "THORNS")>>
    [] id = "THE_ABACUS" /\ hook = "SHUFFLE" -> <<Shield(Player, 6)>>
    [] OTHER -> << >>

(***************************************************************************)
(* Relics of cards, damage and death.                                      *)
(***************************************************************************)

BirdFacedUrn(f, hook, c) == IF hook = "USE_CARD" /\ IsType(f, c, "POWER") THEN HealPlayer(f, 2) ELSE f
CharonsAshes(f, hook) ==
  IF hook = "EXHAUST" THEN Top(f, Hit(Player, AllEnemies, 3, "THORNS")) ELSE f
DeadBranch(f, hook) ==
  IF hook = "EXHAUST" /\ Fighting(f) # {} THEN Bot(f, Make("HAND", "SWIFT_STRIKE", 1)) ELSE f
HandDrill(f, hook, c) ==
  IF hook = "BLOCK_BROKEN" THEN Bot(f, Inflict(Player, c.tgt, "VULNERABLE", 2)) ELSE f
ExhaustRow(f, r) == [f EXCEPT !.card[r].flags = @ \cup {"EXHAUST"}]
MedicalKit(f, hook, c) ==
  IF hook = "USE_CARD" /\ IsType(f, c, "STATUS") THEN ExhaustRow(f, c.row) ELSE f
BlueCandle(f, hook, c) ==
  IF hook = "USE_CARD" /\ IsType(f, c, "CURSE")
  THEN Bot(ExhaustRow(f, c.row), Item("LOSE_HP", Player, Player, 1, "")) ELSE f
PelletBits == {"PELLET_ATTACK", "PELLET_SKILL", "PELLET_POWER"}
PelletOf(f, c) == CASE IsType(f, c, "ATTACK") -> {"PELLET_ATTACK"}
                    [] IsType(f, c, "SKILL") -> {"PELLET_SKILL"}
                    [] IsType(f, c, "POWER") -> {"PELLET_POWER"}
                    [] OTHER -> {}
OrangePellets(f, hook, c) ==
  CASE hook = "TURN_START" -> [f EXCEPT !.flag = @ \ PelletBits]
    [] hook = "USE_CARD" ->
         IF PelletBits \subseteq f.flag \cup PelletOf(f, c)
         THEN Bot([f EXCEPT !.flag = @ \ PelletBits], Item("REMOVE_DEBUFFS", Player, Player, 0, ""))
         ELSE [f EXCEPT !.flag = @ \cup PelletOf(f, c)]
    [] OTHER -> f
\* The first attack of the turn that costs two or more is played again.
Dear(f, c, r) == IF IsXCost(f.card[r].id) THEN c.amt >= 2
              ELSE f.card[r].now >= 2 /\ "FREE_ONCE" \notin f.card[r].flags
Necronomicon(f, hook, c) ==
  CASE hook = "TURN_START" -> Unmark(f, "NECRO")
    [] hook = "USE_CARD" ->
         IF "NECRO" \notin f.flag /\ IsType(f, c, "ATTACK") /\ Dear(f, c, c.row)
         THEN Replay(Mark(f, "NECRO"), c.row, c.tgt) ELSE f
    [] OTHER -> f
HandCandidates(f, r) ==
  SelectSeq(f.hand, LAMBDA h : /\ h # r
                               /\ \A i \in DOMAIN f.cq : f.cq[i].row # h
                               /\ InstanceBase(f.card[h]) > 0
                               /\ f.card[h].now # 0)
Pick(f, n) == (f.roll % n) + 1
MummifiedHand(f, hook, c) ==
  LET free == HandCandidates(f, c.row) IN
  IF hook # "USE_CARD" \/ ~IsType(f, c, "POWER") \/ free = << >> THEN f
  ELSE SetCostForTurn(f, free[Pick(f, Len(free))], 0)

RedSkull(f, hook) ==
  CASE hook = "BATTLE_START" ->
         Bot(Unmark(f, "RED_SKULL"), Item("RED_SKULL_ENTRY", Player, Player, 0, ""))
    [] hook = "HP_LOST" /\ "RED_SKULL" \notin f.flag /\ Bloodied(f) ->
         TopStrength(Mark(f, "RED_SKULL"), 3)
    [] OTHER -> f
\* The decision at the fight's start: written at once, past Artifact and sort.
RedSkullEntry(f) ==
  IF ~HasRelic(f, "RED_SKULL") \/ "RED_SKULL" \in f.flag \/ ~Bloodied(f) THEN f
  ELSE AddDirect(Mark(f, "RED_SKULL"), Player, "STRENGTH", 3)
RunicCube(f, hook, c) == IF hook = "HP_LOST" /\ c.amt > 0 THEN Top(f, Draw(1)) ELSE f
CentennialPuzzle(f, hook) ==
  IF hook = "HP_LOST" /\ "PUZZLE" \notin f.flag THEN Top(Mark(f, "PUZZLE"), Draw(3)) ELSE f
SelfFormingClay(f, hook) ==
  IF hook = "HP_LOST" THEN Top(f, Gain(Player, "NEXT_TURN_BLOCK", 3)) ELSE f
GremlinHorn(f, hook, c) ==
  IF hook = "MONSTER_DEATH" /\ Fighting(f) \ {c.tgt} # {} THEN Bots(f, <<Energy(1), Draw(1)>>) ELSE f
VictoryHeal(f, hook, n) == IF hook = "VICTORY" /\ f.act[Player].hp > 0 THEN HealPlayer(f, n) ELSE f
BurningBlood(f, hook) == VictoryHeal(f, hook, 6)
BlackBlood(f, hook) == VictoryHeal(f, hook, 12)
FaceOfCleric(f, hook) ==
  IF hook # "VICTORY" THEN f
  ELSE [f EXCEPT !.act[Player].max = @ + 1,
                 !.act[Player].hp = IF @ < f.act[Player].max + 1 THEN @ + 1 ELSE @]
MeatOnTheBone(f) ==
  IF HasRelic(f, "MEAT_ON_THE_BONE") /\ f.act[Player].hp > 0 /\ Bloodied(f)
  THEN HealPlayer(f, 12) ELSE f

\* The relic's own code, or the steps its row of the registry binds to the hook.
Answer(f, s, hook, c, id, n) ==
  CASE id = "KUNAI" -> Kunai(f, s, n, hook, c)
    [] id = "SHURIKEN" -> Shuriken(f, s, n, hook, c)
    [] id = "ORNAMENTAL_FAN" -> OrnamentalFan(f, s, n, hook, c)
    [] id = "LETTER_OPENER" -> LetterOpener(f, s, n, hook, c)
    [] id = "NUNCHAKU" -> Nunchaku(f, s, n, hook, c)
    [] id = "INK_BOTTLE" -> InkBottle(f, s, n, hook)
    [] id = "HAPPY_FLOWER" -> HappyFlower(f, s, n, hook)
    [] id = "SUNDIAL" -> Sundial(f, s, n, hook)
    [] id = "INCENSE_BURNER" -> IncenseBurner(f, s, n, hook)
    [] id = "PEN_NIB" -> PenNib(f, s, n, hook, c)
    [] id = "CAPTAINS_WHEEL" -> CaptainsWheel(f, s, n, hook)
    [] id = "HORN_CLEAT" -> HornCleat(f, s, n, hook)
    [] id = "STONE_CALENDAR" -> StoneCalendar(f, s, n, hook)
    [] id = "VELVET_CHOKER" -> VelvetChoker(f, s, n, hook)
    [] id = "POCKETWATCH" -> Pocketwatch(f, s, n, hook)
    [] id = "PHILOSOPHERS_STONE" -> PhilosophersStone(f, hook)
    [] id = "MARK_OF_PAIN" -> MarkOfPain(f, hook)
    [] id = "SNECKO_EYE" -> SneckoEye(f, hook)
    [] id = "BLOOD_VIAL" -> BloodVial(f, hook)
    [] id = "AKABEKO" -> Akabeko(f, hook)
    [] id = "DU_VU_DOLL" -> DuVuDoll(f, n, hook)
    [] id = "GIRYA" -> Girya(f, n, hook)
    [] id = "SLING_OF_COURAGE" -> SlingOfCourage(f, hook)
    [] id = "PRESERVED_INSECT" -> PreservedInsect(f, hook)
    [] id = "NEOWS_LAMENT" -> NeowsLament(f, s, n, hook)
    [] id = "PANTOGRAPH" -> Pantograph(f, hook)
    [] id = "GREMLIN_MASK" -> GremlinMask(f, hook)
    [] id = "RED_MASK" -> RedMask(f, hook)
    [] id = "MUTAGENIC_STRENGTH" -> MutagenicStrength(f, hook)
    [] id = "ENCHIRIDION" -> Enchiridion(f, hook)
    [] id = "LANTERN" -> Lantern(f, hook)
    [] id = "ANCIENT_TEA_SET" -> AncientTeaSet(f, s, n, hook)
    [] id = "ART_OF_WAR" -> ArtOfWar(f, hook, c)
    [] id = "BRIMSTONE" -> Brimstone(f, hook)
    [] id = "GAMBLING_CHIP" -> GamblingChip(f, hook)
    [] id = "NILRYS_CODEX" -> NilrysCodex(f, hook)
    [] id = "ORICHALCUM" -> Orichalcum(f, hook)
    [] id = "BIRD_FACED_URN" -> BirdFacedUrn(f, hook, c)
    [] id = "CHARONS_ASHES" -> CharonsAshes(f, hook)
    [] id = "DEAD_BRANCH" -> DeadBranch(f, hook)
    [] id = "HAND_DRILL" -> HandDrill(f, hook, c)
    [] id = "MEDICAL_KIT" -> MedicalKit(f, hook, c)
    [] id = "BLUE_CANDLE" -> BlueCandle(f, hook, c)
    [] id = "ORANGE_PELLETS" -> OrangePellets(f, hook, c)
    [] id = "NECRONOMICON" -> Necronomicon(f, hook, c)
    [] id = "MUMMIFIED_HAND" -> MummifiedHand(f, hook, c)
    [] id = "RED_SKULL" -> RedSkull(f, hook)
    [] id = "RUNIC_CUBE" -> RunicCube(f, hook, c)
    [] id = "CENTENNIAL_PUZZLE" -> CentennialPuzzle(f, hook)
    [] id = "SELF_FORMING_CLAY" -> SelfFormingClay(f, hook)
    [] id = "GREMLIN_HORN" -> GremlinHorn(f, hook, c)
    [] id = "BURNING_BLOOD" -> BurningBlood(f, hook)
    [] id = "BLACK_BLOOD" -> BlackBlood(f, hook)
    [] id = "FACE_OF_CLERIC" -> FaceOfCleric(f, hook)
    [] OTHER -> Bots(f, Bound(id, hook))

\* dispatch_relic_hook: each relic in order, with its counter as it is now.
Ring(f, hook, c) ==
  FoldLeft(LAMBDA g, s : Answer(g, s, hook, c, g.relics[s].id, g.relics[s].n),
           f, [s \in DOMAIN f.relics |-> s])
===============================================================================
