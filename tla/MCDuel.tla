------------------------------- MODULE MCDuel -------------------------------
(***************************************************************************)
(* Duel on hand-picked fights.  Each puts together the cards, relics,      *)
(* powers and foes whose hooks meet: a fight that has none of them would   *)
(* say nothing about their order.                                          *)
(***************************************************************************)
EXTENDS Duel

PoolRows == 12
Blank == [id |-> "NONE", now |-> 0, base |-> NoBase, flags |-> {}, misc |-> 0, root |-> 0, x |-> 0]
Bare == [act |-> << >>, relics |-> << >>, q |-> << >>, card |-> [r \in 1 .. PoolRows |-> Blank], hand |-> << >>,
         draw |-> << >>, disc |-> << >>, exh |-> << >>, limbo |-> << >>, cq |-> << >>, flag |-> {},
         combust |-> 0, fairies |-> 0, hurt |-> 0, energy |-> 0, turn |-> 0, ended |-> FALSE,
         queued |-> TRUE, mq |-> << >>, closing |-> FALSE, played |-> 0, gold |-> 0, roll |-> 0,
         over |-> "", belt |-> << >>, know |-> NoKnowledge, tally |-> [parried |-> 0, charges |-> 0]]

Powered(s) == [i \in DOMAIN s |-> Slot(s[i][1], s[i][2], s[i][3])]
Actor(kind, hp, max, pow, mark, intent) ==
  [kind |-> kind, hp |-> hp, max |-> max, block |-> 0, pow |-> Powered(pow), mark |-> mark,
   intent |-> intent]
Hero(hp, max, pow) == Actor("IRONCLAD", hp, max, pow, {}, "")
Monster(kind, hp, pow, intent) ==
  Actor(kind, hp, hp, pow, IF kind = "BYRD" THEN {"FLYING"} ELSE {}, intent)

RelicsOf(s) == [i \in DOMAIN s |-> [id |-> s[i][1], n |-> s[i][2]]]
Deck(ids) == [r \in 1 .. PoolRows |->
                IF r > Len(ids) THEN Blank
                ELSE [Blank EXCEPT !.id = ids[r], !.now = CostOf(ids[r]), !.flags = FlagsOf(ids[r]),
                                !.misc = IF ids[r] = "RITUAL_DAGGER" THEN 15 ELSE 0]]
Fight(hero, foes, relics, ids) ==
  [Bare EXCEPT !.act = [a \in 0 .. Len(foes) |-> IF a = Player THEN hero ELSE foes[a]],
               !.relics = RelicsOf(relics),
               !.card = Deck(ids),
               !.draw = Reverse([r \in 1 .. Len(ids) |-> r])]

\* Losing and healing hp around the half: Red Skull, the Tail, Feed and Reaper.
Bleeding ==
  Fight(Hero(23, 40, <<>>), <<Monster("FUNGI", 14, <<<<"SPORE_CLOUD", 2, 0>>>>, "BITE"),
                              Monster("FUNGI", 10, <<<<"SPORE_CLOUD", 2, 0>>>>, "GROW")>>,
        <<<<"RED_SKULL", -1>>, <<"BLOOD_VIAL", -1>>, <<"LIZARD_TAIL", -1>>, <<"GREMLIN_HORN", -1>>,
          <<"FACE_OF_CLERIC", -1>>, <<"MEAT_ON_THE_BONE", -1>>>>,
        <<"BLOODLETTING", "STRIKE", "FEED", "REAPER", "FLEX", "DEFEND">>)
Fainting ==
  [Fight(Hero(9, 20, <<<<"RUPTURE", 1, 0>>>>), <<Monster("BYRD", 20, <<<<"FLIGHT", 3, 3>>>>, "SWOOP")>>,
         <<<<"RED_SKULL", -1>>, <<"SACRED_BARK", -1>>, <<"CENTENNIAL_PUZZLE", -1>>, <<"MAGIC_FLOWER", -1>>>>,
         <<"BURN", "REGRET", "STRIKE", "DEFEND", "TWIN_STRIKE", "DOUBT">>) EXCEPT !.belt = <<"SNECKO_OIL">>, !.fairies = 1]

\* Replays of replays: Double Tap, Duplication, Necronomicon, Havoc, X cards.
Copies ==
  [Fight(Hero(40, 40, <<<<"DUPLICATION", 1, 0>>>>), <<Monster("FUNGI", 60, <<>>, "GROW")>>,
         <<<<"NECRONOMICON", -1>>, <<"CHEMICAL_X", -1>>, <<"STRANGE_SPOON", -1>>>>,
         <<"DOUBLE_TAP_CARD", "RAMPAGE", "HAVOC", "WHIRLWIND", "BASH", "STRIKE">>)
     EXCEPT !.belt = <<"DISTILLED_CHAOS">>]
Daggers ==
  [Fight(Hero(40, 40, <<<<"MAYHEM", 1, 0>>>>), <<Monster("FUNGI", 9, <<>>, "GROW"), Monster("LOUSE", 12, <<<<"CURL_UP", 5, 0>>, <<"ANGRY", 1, 0>>>>, "WEB")>>,
         <<<<"KUNAI", -1>>, <<"SHURIKEN", -1>>, <<"STRIKE_DUMMY", -1>>, <<"DEAD_BRANCH", -1>>>>,
         <<"RITUAL_DAGGER", "DOUBLE_TAP_CARD", "TWIN_STRIKE", "DROPKICK", "HAND_OF_GREED", "STRIKE">>)
     EXCEPT !.belt = <<"DUPLICATION_POTION">>]

\* Skills for nothing, exhausted: Corruption with what answers an exhaust.
Corrupted ==
  [Fight(Hero(40, 40, <<<<"DARK_EMBRACE", 1, 0>>, <<"FEEL_NO_PAIN", 3, 0>>>>),
         <<Monster("NOB", 50, <<<<"CURIOSITY", 1, 0>>>>, "BELLOW")>>,
         <<<<"CHARONS_ASHES", -1>>>>,
         <<"CORRUPTION_CARD", "DEFEND", "INFERNAL_BLADE", "HAVOC", "SECOND_WIND">>)
     EXCEPT !.belt = <<"COLORLESS_POTION">>]

\* Prices: Confusion, Mummified Hand, Madness, Enlightenment, Blood for Blood.
Prices ==
  Fight(Hero(30, 40, <<>>), <<Monster("LOUSE", 40, <<<<"CURL_UP", 4, 0>>>>, "BITE")>>,
        <<<<"SNECKO_EYE", -1>>, <<"MUMMIFIED_HAND", -1>>, <<"BIRD_FACED_URN", -1>>, <<"ICE_CREAM", -1>>>>,
        <<"MADNESS", "INFLAME", "BLOOD_FOR_BLOOD", "ENLIGHTENMENT", "CHRYSALIS", "DEFEND">>)

\* Cards held by the orbs, and what happens to the rest at the end.
Stolen ==
  [Fight(Hero(40, 40, <<>>), <<Monster("ORB", 6, <<>>, "STASIS"), Monster("ORB", 12, <<>>, "STASIS")>>,
         <<<<"RUNIC_PYRAMID", -1>>, <<"UNCEASING_TOP", -1>>, <<"STONE_CALENDAR", -1>>, <<"SUNDIAL", -1>>>>,
         <<"STRIKE", "DEFEND", "BASH", "STRIKE", "DEEP_BREATH", "FEED", "HAVOC">>)
     EXCEPT !.belt = <<"SKILL_POTION">>]

\* Blows by the handful against Buffer, Intangible and the Tungsten Rod.
Shielded ==
  [Fight(Hero(30, 40, <<<<"PLATED_ARMOR", 3, 0>>, <<"BUFFER", 2, 0>>, <<"THORNS", 2, 0>>>>),
         <<Monster("BYRD", 25, <<<<"FLIGHT", 3, 3>>>>, "PECK"), Monster("PARASITE", 30, <<<<"PLATED_ARMOR", 5, 0>>>>, "STRIKE_TWICE")>>,
         <<<<"FOSSILIZED_HELIX", -1>>, <<"TUNGSTEN_ROD", -1>>, <<"TORII", -1>>, <<"RUNIC_CUBE", -1>>>>,
         <<"PAIN", "FLAME_BARRIER_CARD", "BLOODLETTING", "TWIN_STRIKE", "ENTRENCH", "BODY_SLAM">>)
     EXCEPT !.tally.charges = 3]

\* A boss that ends the turn, and the relics that count cards.
Warped ==
  Fight(Hero(40, 40, <<<<"PANACHE", 2, 10>>>>), <<Monster("BOSS", 60, <<<<"TIME_WARP", 0, 0>>, <<"BEAT_OF_DEATH", 1, 0>>, <<"INVINCIBLE", 20, 20>>>>, "SLAM")>>,
        <<<<"VELVET_CHOKER", -1>>, <<"POCKETWATCH", -1>>, <<"PEN_NIB", 8>>, <<"ORANGE_PELLETS", -1>>, <<"PANTOGRAPH", -1>>>>,
        <<"FLEX", "STRIKE", "RAGE_CARD", "PANACHE_CARD", "HEAVY_BLADE", "STRIKE">>)

\* Strength lent and taken back.
Shackled ==
  Fight(Hero(40, 40, <<>>), <<Monster("TRANSIENT", 60, <<<<"SHIFTING", -1, 0>>, <<"FADING", 2, 0>>>>, "SLAM"),
                              Monster("EXPLODER", 30, <<<<"EXPLOSIVE", 2, 0>>, <<"ARTIFACT", 1, 0>>>>, "SLAM")>>,
        <<<<"MUTAGENIC_STRENGTH", -1>>, <<"CHAMPION_BELT", -1>>, <<"ART_OF_WAR", -1>>, <<"HAPPY_FLOWER", 1>>>>,
        <<"DARK_SHACKLES", "FLEX", "BASH", "RAGE_CARD", "STRIKE", "TWIN_STRIKE">>)

\* Many relics and powers over a small deck: what they queue, and in which order.
Trinkets ==
  [Fight(Hero(20, 40, <<<<"METALLICIZE", 2, 0>>, <<"COMBUST", 3, 0>>, <<"BRUTALITY", 1, 0>>, <<"JUGGERNAUT", 2, 0>>, <<"SADISTIC", 2, 0>>>>),
         <<Monster("BOSS", 30, <<<<"SHARP_HIDE", 2, 0>>, <<"MALLEABLE", 2, 2>>, <<"SLOW", 0, 0>>>>, "SLAM"),
           Monster("CENTURION", 20, <<<<"BARRICADE", -1, 0>>, <<"GENERIC_STRENGTH_UP", 1, 0>>>>, "PROTECT")>>,
         <<<<"ANCHOR", -1>>, <<"BAG_OF_MARBLES", -1>>, <<"BAG_OF_PREPARATION", -1>>, <<"BRONZE_SCALES", -1>>,
           <<"ODDLY_SMOOTH_STONE", -1>>, <<"THREAD_AND_NEEDLE", -1>>, <<"MERCURY_HOURGLASS", -1>>, <<"THE_ABACUS", -1>>,
           <<"HORN_CLEAT", -1>>, <<"CAPTAINS_WHEEL", -1>>, <<"ORICHALCUM", -1>>, <<"CALIPERS", -1>>, <<"BRIMSTONE", -1>>,
           <<"RED_MASK", -1>>, <<"LETTER_OPENER", -1>>, <<"ORNAMENTAL_FAN", -1>>, <<"PAPER_PHROG", -1>>>>,
         <<"DEFEND", "BASH", "SPOT_WEAKNESS", "BLOODLETTING">>) EXCEPT !.flag = {}]
Elite ==
  [Fight(Hero(36, 40, <<<<"EVOLVE", 1, 0>>, <<"FIRE_BREATHING", 2, 0>>, <<"THE_BOMB", 2, 12>>, <<"THE_BOMB", 1, 12>>,
                        <<"INTANGIBLE", 1, 0>>, <<"DRAW_REDUCTION", 1, 1>>>>),
         <<Monster("NEMESIS", 60, <<<<"INTANGIBLE_MONSTER", 2, 1>>, <<"PAINFUL_STABS", -1, 0>>, <<"RITUAL", 1, 0>>>>, "SCYTHE"),
           Monster("BOSS", 40, <<<<"REACTIVE", -1, 0>>, <<"REGENERATE_MONSTER", 3, 0>>, <<"HEX", 1, 0>>>>, "SLAM")>>,
         <<<<"SLING_OF_COURAGE", -1>>, <<"PRESERVED_INSECT", -1>>, <<"SLAVERS_COLLAR", -1>>, <<"PHILOSOPHERS_STONE", -1>>,
           <<"GREMLIN_MASK", -1>>, <<"AKABEKO", -1>>, <<"TURNIP", -1>>, <<"ODD_MUSHROOM", -1>>, <<"LANTERN", -1>>,
           <<"ANCIENT_TEA_SET", -2>>, <<"BOOT", -1>>, <<"HAND_DRILL", -1>>, <<"INK_BOTTLE", 8>>, <<"NUNCHAKU", 9>>,
           <<"INCENSE_BURNER", 4>>, <<"SELF_FORMING_CLAY", -1>>, <<"MARK_OF_PAIN", -1>>, <<"MEDICAL_KIT", -1>>, <<"BLUE_CANDLE", -1>>, <<"NECRONOMICON", -1>>>>,
         <<"DAZED", "VOID", "NECRONOMICURSE", "STRIKE">>) EXCEPT !.flag = {"ELITE"}]
Drawn ==
  Fight(Hero(36, 40, <<<<"BERSERK", 1, 0>>, <<"DEMON_FORM", 1, 0>>, <<"MAGNETISM", 1, 0>>, <<"CONSTRICTED", 2, 0>>>>),
        <<Monster("TRANSIENT", 50, <<<<"FADING", 2, 0>>, <<"STRENGTH", 1, 0>>>>, "SLAM")>>,
        <<<<"UNCEASING_TOP", -1>>, <<"GIRYA", 1>>, <<"DU_VU_DOLL", 2>>, <<"NEOWS_LAMENT", 0>>, <<"CLOCKWORK_SOUVENIR", -1>>, <<"ENCHIRIDION", -1>>,
          <<"CHAMPION_BELT", -1>>, <<"GINGER", -1>>>>,
        <<"MIND_BLAST", "BATTLE_TRANCE", "IMPATIENCE", "VIOLENCE", "DEEP_BREATH", "LIMIT_BREAK", "FIEND_FIRE">>)

\* Cards put where the player knows them to be: on top, at the bottom, taken
\* out again, shuffled, and somewhere among them one more.
Ordered ==
  Fight(Hero(40, 40, <<>>), <<Monster("LOUSE", 40, <<>>, "WEB")>>,
        <<<<"NILRYS_CODEX", -1>>>>,
        <<"WARCRY", "FORETHOUGHT", "HEADBUTT_CARD", "HAVOC", "SECRET_WEAPON", "DEFEND", "BURNING_PACT">>)
Foretold ==
  Fight(Hero(40, 40, <<<<"HEX", 1, 0>>>>), <<Monster("ORB", 20, <<>>, "STASIS")>>,
        <<<<"FROZEN_EYE", -1>>>>,
        <<"WARCRY", "VIOLENCE", "THINKING_AHEAD", "SECRET_TECHNIQUE", "STRIKE", "DEEP_BREATH">>)
\* More cards that must be in the opening hand than it holds, against an elite
\* with a boon.
Bottled(l, rows) == [l EXCEPT !.card = [r \in DOMAIN @ |-> IF r \in rows THEN [@[r] EXCEPT !.flags = @ \cup {"INNATE"}] ELSE @[r]]]
Burning ==
  Bottled([Fight(Hero(30, 40, <<>>), <<Monster("NOB", 26, <<<<"STRENGTH", 1, 0>>>>, "BELLOW")>>,
                 <<<<"FROZEN_EYE", -1>>, <<"PRESERVED_INSECT", -1>>>>,
                 <<"DEFEND", "MIND_BLAST", "BLOOD_FOR_BLOOD", "MIND_BLAST", "INFLAME", "ENTRENCH", "MIND_BLAST">>)
             EXCEPT !.flag = {"ELITE", "EMERALD"}], {3, 5, 6})
\* Between the Shield and the Spear, either of which may fall first.
Surrounded ==
  [Fight(Hero(40, 60, <<>>), <<Monster("SPIRE_SHIELD", 12, <<>>, "SHIELD_BASH"), Monster("SPIRE_SPEAR", 15, <<>>, "BURN_STRIKE")>>,
         <<<<"FROZEN_EYE", -1>>>>,
         <<"STRIKE", "WARCRY", "WHIRLWIND", "DARK_SHACKLES">>)
     EXCEPT !.belt = <<"FIRE_POTION">>, !.flag = {"ELITE"}]
\* Choices about cards: upgraded, copied, brought back, thrown away, offered.
Crafted ==
  [Fight(Hero(30, 40, <<<<"CORRUPTION", -1, 0>>>>), <<Monster("LOUSE", 40, <<>>, "BITE")>>,
         <<<<"CHARONS_ASHES", -1>>>>,
         <<"ARMAMENTS", "BLOOD_FOR_BLOOD", "DUAL_WIELD", "EXHUME", "TRUE_GRIT">>)
     EXCEPT !.belt = <<"BLESSING_OF_THE_FORGE">>]
Tossed ==
  [Fight(Hero(20, 40, <<>>), <<Monster("BYRD", 25, <<<<"FLIGHT", 3, 3>>>>, "SWOOP")>>,
         <<<<"GAMBLING_CHIP", -1>>, <<"SACRED_BARK", -1>>, <<"TOY_ORNITHOPTER", -1>>>>,
         <<"PURITY", "DISCOVERY", "FLEX">>)
     EXCEPT !.belt = <<"LIQUID_MEMORIES", "STEROID_POTION">>]
\* Every potion, alone with a few cards.
Sip(p) ==
  [Fight(Hero(18, 40, <<>>), <<Monster("LOUSE", 30, <<<<"ARTIFACT", 1, 0>>>>, "BITE")>>, <<<<"RED_SKULL", -1>>>>,
         <<"STRIKE", "DEFEND", "INFLAME">>)
     EXCEPT !.belt = <<p>>]
PotionIds == NativePotions \cup
  {"HEART_OF_IRON", "BLOCK_POTION", "DEXTERITY_POTION", "ENERGY_POTION", "FIRE_POTION", "STRENGTH_POTION",
   "SWIFT_POTION", "WEAK_POTION", "FEAR_POTION", "STEROID_POTION", "REGEN_POTION", "ANCIENT_POTION",
   "LIQUID_BRONZE", "ESSENCE_OF_STEEL", "DUPLICATION_POTION", "CULTIST_POTION", "SNECKO_OIL"}
MCLoadouts == {Bleeding, Fainting, Copies, Daggers, Corrupted, Prices, Stolen, Shielded, Warped, Shackled, Trinkets, Elite, Drawn,
               Ordered, Foretold, Burning, Surrounded, Crafted, Tossed} \cup {Sip(p) : p \in PotionIds}

\* The last stack of a Regen Potion beside powers that end with the turn.
Regenerating ==
  Fight(Hero(20, 40, <<<<"REGEN", 1, 0>>>>), <<Monster("FUNGI", 40, <<>>, "BITE")>>, <<>>,
        <<"RAGE_CARD", "DEFEND", "FLEX", "STRIKE", "BATTLE_TRANCE">>)
RegenLoadouts == {Regenerating}
=============================================================================
