---------------------------- MODULE QuietRooms ----------------------------
(***************************************************************************)
(* The rest site (rest_sites.cpp and run_advance.cpp's REST_SITE phase),   *)
(* the treasure room (treasure_rooms.cpp) and the boss's chest             *)
(* (boss_chest.cpp).  At the rest site site.screen is "menu", "smith",     *)
(* "toke" or "dream" (Dream Catcher's card reward, laid out on the reward  *)
(* screen).  A treasure chest's contents are on the reward screen; the     *)
(* boss's relics are picked from the chest, whose screen is "closed",      *)
(* "select", "grid", "items" or "done".                                    *)
(***************************************************************************)
EXTENDS NeowBlessing

(***************************************************************************)
(* The rest site.                                                          *)
(***************************************************************************)

RestOptions == {"rest", "smith", "lift", "toke", "dig", "recall"}

campfire_option_vetoed(r, o) ==
  \/ o = "smith" /\ Owns(r, "fusion_hammer")
  \/ o = "rest" /\ Owns(r, "coffee_dripper")

\* build_rest_menu: the options that can be used.
UsableOptions(r) ==
  {o \in RestOptions :
     /\ ~campfire_option_vetoed(r, o)
     /\ CASE o = "rest"   -> TRUE
          [] o = "smith"  -> Upgradeable(r) # {}
          [] o = "lift"   -> Owns(r, "girya") /\ r.lifts < 3
          [] o = "toke"   -> Owns(r, "peace_pipe") /\ PurgeableUnbottled(r) # {}
          [] o = "dig"    -> Owns(r, "shovel")
          [] o = "recall" -> "ruby" \notin r.keys}

\* mutant: a campfire opens though every option on it is vetoed
RestEnter_AlwaysOpens(w) == {[w EXCEPT !.phase = "rest", !.site = [screen |-> "menu"]]}

\* A campfire with nothing to do is passed by.
RestEnter(w) ==
  {IF UsableOptions(w.run) = {} THEN [w EXCEPT !.phase = "map"]
   ELSE [w EXCEPT !.phase = "rest", !.site = [screen |-> "menu"]]}

finish_rest_site(w) == [ClearLoot(w) EXCEPT !.phase = "map", !.site = [screen |-> "none"]]

rest_heal_amount(r) == Percent(r.max, 30) + (IF Owns(r, "regal_pillow") THEN 15 ELSE 0)

\* finish_sleep: Dream Catcher offers a card before the fire goes out.
Sleep(w) ==
  LET slept == On(w, HealOutOfCombat(w.run, rest_heal_amount(w.run)))
  IN  IF Owns(w.run, "dream_catcher")
      THEN [slept EXCEPT !.loot = [rows |-> <<CardsRow(w.run)>>, open |-> 1],
                         !.site.screen = "dream"]
      ELSE finish_rest_site(slept)

\* open_dig_reward: the relic is on a reward screen of its own.
Dig(w) ==
  {LET d == DrawRelic(w.run, t, FALSE)
   IN  [On(w, d.run) EXCEPT !.loot = [rows |-> <<Row("relic", 0, d.got)>>, open |-> 0],
                            !.phase = "reward", !.site = [screen |-> "none"]] : t \in RollTiers}

RestOption(w, o) ==
  CASE o = "rest" -> {Sleep(w)}
    [] o \in {"smith", "toke"} -> {[w EXCEPT !.site.screen = o]}
    [] o = "lift" -> {finish_rest_site([w EXCEPT !.run.lifts = @ + 1])}
    [] o = "dig" -> Dig(w)
    [] o = "recall" -> {finish_rest_site([w EXCEPT !.run.keys = @ \cup {"ruby"}])}

\* The smith's and the pipe's grids may be closed again.
RestCards(w) ==
  CASE w.site.screen = "smith" -> Upgradeable(w.run)
    [] w.site.screen = "toke" -> PurgeableUnbottled(w.run)
    [] OTHER -> {}

RestPick(w, i) ==
  finish_rest_site(On(w, IF w.site.screen = "smith" THEN UpgradeCard(w.run, i)
                         ELSE RemoveCard(w.run, i)))

\* The dream ends the visit however it is answered.
DreamTaken(w, c) == finish_rest_site(reward_take_card(w, c))
DreamSung(w) == finish_rest_site(reward_sing(w))
DreamSkipped(w) == finish_rest_site(reward_skip_card(w))

(***************************************************************************)
(* The chests.                                                             *)
(***************************************************************************)

\* treasure_chest_for_rolls: what a second roll may put into a chest of a size,
\* the tier of its relic and whether there is gold.
Contents ==
  [small  |-> {<<"common", TRUE>>, <<"common", FALSE>>, <<"uncommon", FALSE>>},
   medium |-> {<<"common", TRUE>>, <<"uncommon", FALSE>>, <<"rare", FALSE>>},
   large  |-> {<<"uncommon", TRUE>>, <<"uncommon", FALSE>>, <<"rare", FALSE>>}]

Filled(w, size) ==
  {[w EXCEPT !.site = [screen |-> "chest", size |-> size, tier |-> c[1], gold |-> c[2]]] :
     c \in Contents[size]}

TreasureEnter(w) == UNION {Filled([w EXCEPT !.phase = "treasure"], z) : z \in DOMAIN Contents}

\* curse_obtains_fit: a Cursed Key's curse needs room in the deck, unless
\* Omamori will take it.
treasure_chest_open_legal(r) ==
  Owns(r, "cursed_key") /\ r.charm = 0 => Len(r.deck) < DeckCap

RelicRow(w, tier) ==
  LET d == DrawRelic(w.run, tier, FALSE) IN WithRow(On(w, d.run), Row("relic", 0, d.got))

\* onChestOpen: Matryoshka's relic, the Cursed Key's curse.
dispatch_on_chest_open(w) ==
  LET nested == IF w.run.nest = 0 THEN {w}
                ELSE {RelicRow([w EXCEPT !.run.nest = @ - 1], t) : t \in {"common", "uncommon"}}
  IN  IF ~Owns(w.run, "cursed_key") THEN nested
      ELSE {On(v, AddCard(v.run, k)) : v \in nested, k \in RandomCurses}

\* onChestOpenAfter: N'loth's Mask empties the chest of its first relic.
dispatch_on_chest_open_after(w) ==
  LET at == {i \in DOMAIN w.loot.rows : w.loot.rows[i].kind = "relic"}
      i == CHOOSE i \in at : \A j \in at : i <= j
      lone == IF reward_relic_row_is_key_linked(w, i) THEN NoRow(w, i + 1) ELSE w
  IN  IF ~w.run.mask \/ at = {} THEN w ELSE [NoRow(lone, i) EXCEPT !.run.mask = FALSE]

open_treasure_chest(w) ==
  LET gold(v) == IF w.site.gold THEN WithRow(v, Row("gold", 25, "none")) ELSE v
      key(v) == IF "sapphire" \notin v.run.keys THEN WithRow(v, Row("sapphire", 0, "none")) ELSE v
      opened(v) == dispatch_on_chest_open_after(key(RelicRow(gold(v), w.site.tier)))
  IN  {[opened(v) EXCEPT !.phase = "reward", !.site = [screen |-> "none"]] :
         v \in dispatch_on_chest_open(ClearLoot(w))}

TreasureLeft(w) == [ClearLoot(w) EXCEPT !.phase = "map", !.site = [screen |-> "none"]]

-----------------------------------------------------------------------------
\* The boss's chest: three relics of the boss pool.
roll_boss_chest(r) ==
  LET draw(acc, i) == LET d == DrawRelic(acc.run, "boss", FALSE)
                      IN  [run |-> d.run, relics |-> Append(acc.relics, d.got)]
  IN  FoldLeft(draw, [run |-> r, relics |-> <<>>], <<1, 2, 3>>)

BossChestEnter(w) ==
  LET rolled == roll_boss_chest(w.run)
  IN  [ClearLoot(On(w, rolled.run)) EXCEPT
         !.phase = "chest",
         !.site = [screen |-> "closed", mode |-> "none", needed |-> 0, picked |-> <<>>,
                   relics |-> rolled.relics, seen |-> FALSE]]

open_boss_chest(w) == [w EXCEPT !.site.screen = "select", !.site.seen = TRUE]
close_boss_chest(w) == [w EXCEPT !.site.screen = "closed"]

\* boss_relic_replaces_starter: Black Blood takes the starter's place.
BossRelicPicked(w, i) ==
  LET x == w.site.relics[i]
      v == IF x = "black_blood" THEN On(w, LoseRelic(w.run, "burning_blood")) ELSE w
  IN  {OpenRequest(u) : u \in AcquireWithScreen(v, x)}

leave_boss_chest(w) == [ClearLoot(w) EXCEPT !.phase = "map", !.site = [screen |-> "none"]]
===========================================================================
