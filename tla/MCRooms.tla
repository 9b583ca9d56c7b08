------------------------------- MODULE MCRooms -------------------------------
(***************************************************************************)
(* The visits the model checker makes: every event, the four fixed rooms,  *)
(* Neow, and fights of each kind whose books differ, each with the runs    *)
(* that tell its branches apart.                                           *)
(***************************************************************************)
EXTENDS RoomVisit

Starters == <<Fresh("strike", 0), Fresh("defend", 0), Fresh("bash", 0)>>

\* A healthy run with gold.
Sturdy ==
  [hp |-> 17, max |-> 20, gold |-> 160, deck |-> Starters, relics |-> {"burning_blood"},
   charm |-> 0, tail |-> FALSE, doll |-> -1, lifts |-> 0, maw |-> FALSE, nest |-> 0,
   mask |-> FALSE, belt |-> <<"none">>, hard |-> FALSE, purge |-> 75, keys |-> {},
   pools |-> [common   |-> <<"strawberry", "omamori", "war_paint">>,
              uncommon |-> <<"bottled_flame", "doll", "pear">>,
              rare     |-> <<"old_coin", "girya", "mango">>,
              shop     |-> <<"dollys_mirror", "cauldron">>,
              boss     |-> <<"pandora", "black_blood", "empty_cage", "tiny_house">>]]

With(r, xs) == [r EXCEPT !.relics = @ \cup xs]

\* On its last legs; with every kind of card; with a deck of curses counted by
\* Du-Vu Doll; with the relics that stand between a blow and the end.
Frail == [Sturdy EXCEPT !.hp = 3, !.gold = 20, !.hard = TRUE, !.belt = <<"fairy">>]

Laden == [Sturdy EXCEPT !.belt = <<"blood", "brew">>,
            !.deck = <<Fresh("strike", 1), Fresh("heavy", 0), Fresh("power", 0),
                       Fresh("regret", 0), [Fresh("trick", 0) EXCEPT !.bottle = TRUE]>>]

Haunted ==
  [With(Sturdy, {"doll", "darkstone", "bloody_idol", "omamori"})
     EXCEPT !.doll = 2, !.charm = 1, !.belt = <<"fruit", "none">>,
            !.deck = <<Fresh("regret", 0), Fresh("parasite", 0), Fresh("bash", 1)>>]

Warded == [With(Frail, {"torii", "tungsten", "bark"}) EXCEPT !.hp = 2, !.tail = TRUE]

Marked == With(Frail, {"bloom", "ectoplasm", "sozu"})

-----------------------------------------------------------------------------
Visit(r, where, what) == [run |-> r, room |-> where, what |-> what]
Visited(runs, where, whats) == {Visit(r, where, x) : r \in runs, x \in whats}

Dialogs == Events \ {"Joust", "Nloth", "WomanInBlue"}

\* Every dialog is entered by every run that may meet it (MayMeet); three are met by
\* the runs their offers tell apart.
EventVisits ==
  Visited({Sturdy, Frail, Laden, Haunted, Warded, Marked}, "event", Dialogs)
    \cup Visited({Sturdy, Laden}, "event", {"Joust", "WomanInBlue"})
    \cup Visited({With(Sturdy, {"strawberry", "sssserpent"}), With(Haunted, {"nloths_gift"})},
                 "event", {"Nloth"})
    \cup Visited({With(Sturdy, {"golden_idol", "molten_egg"}),
                  With(Haunted, {"golden_idol"})}, "event", {"ForgottenAltar", "Moai", "GoldenIdol"})
    \cup Visited({With(Sturdy, {"blood_vial", "red_mask"})}, "event", {"Vampires", "Tomb"})
    \cup Visited({[Sturdy EXCEPT !.keys = {"ruby", "emerald", "sapphire"}]}, "event", {"Heart"})

-----------------------------------------------------------------------------
Campers ==
  {Sturdy, Laden, Haunted, With(Laden, {"girya", "shovel", "fusion_hammer"}),
   With(Laden, {"peace_pipe", "regal_pillow", "coffee_dripper"}),
   With(Frail, {"dream_catcher", "singing_bowl", "eternal_feather"}),
   [With(Sturdy, {"coffee_dripper", "fusion_hammer"}) EXCEPT !.keys = {"ruby"}]}

Shoppers ==
  {Sturdy, With(Laden, {"membership_card"}), With(Laden, {"the_courier", "toxic_egg"}),
   [With(Haunted, {"smiling_mask", "meal_ticket", "maw_bank"}) EXCEPT !.maw = TRUE,
      !.pools.shop = <<"membership_card">>],
   [Sturdy EXCEPT !.gold = 400, !.pools.shop = <<"orrery">>, !.belt = <<>>]}

Openers ==
  {Sturdy, [With(Haunted, {"cursed_key", "matryoshka"}) EXCEPT !.nest = 2, !.keys = {"sapphire"}],
   [With(Laden, {"nloths_mask", "cursed_key"}) EXCEPT !.mask = TRUE]}

Blessed == {[Sturdy EXCEPT !.deck = @ \o <<Fresh("strike", 0)>>, !.belt = <<"none", "none">>,
               !.pools.boss = <<x>>] :
              x \in {"pandora", "tiny_house", "astrolabe", "empty_cage", "calling_bell"}}

RoomVisits ==
  Visited(Campers, "rest", {"none"}) \cup Visited(Shoppers, "shop", {"none"})
    \cup Visited(Openers, "treasure", {"none"}) \cup Visited(Blessed, "neow", {"none"})

-----------------------------------------------------------------------------
Brewer ==
  [With(Haunted, {"bark", "meat_on_the_bone"}) EXCEPT !.belt = <<"brew", "fairy">>]
Smoker == [Laden EXCEPT !.belt = <<"smoke", "fairy">>]
Fisher ==
  [With(Laden, {"ceramic_fish", "golden_idol", "face_of_cleric"}) EXCEPT !.belt = <<"plain">>]

FightVisits ==
  Visited({Sturdy, Haunted, Smoker}, "monster", {"looter_mugger"})
    \cup Visited({Fisher, Marked, With(Sturdy, {"bloody_idol", "white_beast"})}, "monster", {"looter"})
    \cup Visited({Haunted, Fisher, With(Warded, {"ornithopter"})}, "monster", {"writhing_mass"})
    \cup Visited({Brewer, Marked, With(Frail, {"prayer_wheel"})}, "monster", {"cultist"})
    \cup Visited({With(Sturdy, {"white_beast"}), With(Laden, {"black_star"})}, "elite", {"elite"})
    \cup Visited({Sturdy}, "burning", {"elite"})
    \cup Visited({With(Sturdy, {"black_blood"}),
                  [Laden EXCEPT !.belt = <<"smoke">>, !.pools.boss = <<"astrolabe", "empty_cage">>],
                  [Laden EXCEPT !.pools.boss = <<"pandora", "calling_bell", "tiny_house">>]},
                 "boss", {"boss"})

\* A fight in which a card is obtained beside the relics that answer a curse.
Implanted == Visited({[Haunted EXCEPT !.hp = 2]}, "monster", {"writhing_mass"})

Rooms == EventVisits \cup RoomVisits \cup FightVisits
=============================================================================
