----------------------------- MODULE ActEvents -----------------------------
(***************************************************************************)
(* The dialogs of the three acts: for each event what the entry draws, the *)
(* options that are enabled, and the worlds an option leads to.  First the *)
(* eleven of the first act (events/exordium_events_i.cpp,                  *)
(* exordium_events_ii.cpp).                                                *)
(***************************************************************************)
EXTENDS RunWorld

BigFishMenu(w) == IF w.ev.screen = 0 THEN {0, 1, 2} ELSE {0}

BigFish(w, o) ==
  IF w.ev.screen # 0 THEN Leave(w)
  ELSE CASE o = 0 -> Turn(w, 1, {Heal(w.run, w.run.max \div 3)})
         [] o = 1 -> Turn(w, 1, {RaiseMax(w.run, 5)})
         [] o = 2 -> Turn(w, 1, RelicWithCurse(w.run))

-----------------------------------------------------------------------------
cleric_purify_cost(r) == IF r.hard THEN 75 ELSE 50

ClericMenu(w) ==
  IF w.ev.screen # 0 THEN {0}
  ELSE {2} \cup {o \in {0} : w.run.gold >= 35}
           \cup {o \in {1} : w.run.gold >= cleric_purify_cost(w.run)}

Cleric(w, o) ==
  LET r == w.run
  IN  IF w.ev.screen # 0 THEN Leave(w)
      ELSE CASE o = 0 -> Turn(w, 1, {Heal([r EXCEPT !.gold = @ - 35], Percent(r.max, 25))})
             [] o = 1 ->
                  IF PurgeableUnbottled(r) = {} THEN {At(w, 1)}
                  ELSE {OpenGrid(On(w, [r EXCEPT !.gold = @ - cleric_purify_cost(r)]), "purge")}
             [] o = 2 -> {At(w, 1)}

ClericPick(w, i) == {At(v, 1) : v \in Picked(w, i)}

-----------------------------------------------------------------------------
\* Dead Adventurer: b is the number searched so far, board the order of the
\* three finds, c which of three elites waits.
DeadEnter(w) ==
  {[w EXCEPT !.ev.board = finds, !.ev.c = foe] :
     finds \in {f \in [1..3 -> {"gold", "nothing", "relic"}] : IsInjective(f)},
     foe \in {0, 2}}

DeadAdventurerMenu(w) == IF w.ev.screen = 0 THEN {0, 1} ELSE {0}

\* The finds not yet made come with the fight.
dead_add_remaining_combat_rewards(w) ==
  LET add(worlds, i) ==
        IF i < w.ev.b + 1 THEN worlds
        ELSE CASE w.ev.board[i] = "gold" ->
                    {add_event_combat_gold_reward(v, 30) : v \in worlds}
               [] w.ev.board[i] = "relic" -> UNION {RelicRowRuns(v) : v \in worlds}
               [] OTHER -> worlds
  IN  FoldLeft(add, {w}, <<1, 2, 3>>)

DeadAdventurer(w, o) ==
  LET n == w.ev.b + 1
      find == w.ev.board[n]
      searched == [w EXCEPT !.ev.b = n, !.ev.screen = IF n = 3 THEN 2 ELSE 0]
      ambushed == At(add_event_combat_gold_reward(w, 25), 1)
  IN  CASE w.ev.screen = 1 ->
             {[enter_event_combat(v, IF w.ev.c = 2 THEN "lagavulin" ELSE "elite")
                 EXCEPT !.ev = NoEvent] : v \in dead_add_remaining_combat_rewards(w)}
        [] w.ev.screen = 2 -> Leave(w)
        [] w.ev.screen = 0 /\ o = 1 -> {At(w, 2)}
        [] w.ev.screen = 0 /\ o = 0 ->
             {ambushed} \cup
             CASE find = "gold"    -> {On(searched, GainGold(w.run, 30))}
               [] find = "relic"   -> {On(searched, r) : r \in EventRelicRuns(w.run)}
               [] find = "nothing" -> {searched}

-----------------------------------------------------------------------------
GoldenIdolMenu(w) ==
  CASE w.ev.screen = 0 -> {0, 1} [] w.ev.screen = 1 -> {0, 1, 2} [] OTHER -> {0}

GoldenIdol(w, o) ==
  LET r == w.run
      smashed == apply_event_damage(w, Percent(r.max, IF r.hard THEN 35 ELSE 25), "none")
  IN  CASE w.ev.screen = 0 /\ o = 1 -> {At(w, 2)}
        [] w.ev.screen = 0 /\ o = 0 -> Turn(w, 1, Acquire(r, OrCirclet(r, "golden_idol")))
        [] w.ev.screen = 1 /\ o = 0 -> Turn(w, 2, {AddCard(r, "regret")})
        [] w.ev.screen = 1 /\ o = 1 -> IfAlive(smashed, {At(smashed, 2)})
        [] w.ev.screen = 1 /\ o = 2 ->
             Turn(w, 2, {LowerMax(r, Most(1, Percent(r.max, IF r.hard THEN 10 ELSE 8)))})
        [] w.ev.screen = 2 -> Leave(w)

-----------------------------------------------------------------------------
\* deck_has_base_damage_at_least: a card that hits for ten, Bash upgraded
\* included.
card_has_base_damage_at_least(c) == c.k = "heavy" \/ (c.k = "bash" /\ c.up > 0)

GoldenWingMenu(w) ==
  IF w.ev.screen # 0 THEN {0}
  ELSE {0, 2} \cup
       {o \in {1} : \E i \in DOMAIN w.run.deck : card_has_base_damage_at_least(w.run.deck[i])}

GoldenWing(w, o) ==
  LET cut == apply_event_damage(w, 7, "player")
  IN  CASE w.ev.screen = 0 /\ o = 0 -> IfAlive(cut, {At(cut, 1)})
        [] w.ev.screen = 0 /\ o = 1 -> Turn(w, 2, {GainGold(w.run, 50)})
        [] w.ev.screen = 0 /\ o = 2 -> {At(w, 2)}
        [] w.ev.screen = 1 ->
             {IF grid_has_card(w.run, "purge") THEN OpenGrid(w, "purge") ELSE At(w, 2)}
        [] w.ev.screen = 2 -> Leave(w)

GoldenWingPick(w, i) == {At(v, 2) : v \in Picked(w, i)}

-----------------------------------------------------------------------------
\* World of Goop: a is the gold that lies in the goop, rolled on entry.
GoopEnter(w) ==
  {[w EXCEPT !.ev.a = Least(w.run.gold, n)] : n \in IF w.run.hard THEN {35, 75} ELSE {20, 50}}

WorldOfGoopMenu(w) == IF w.ev.screen = 0 THEN {0, 1} ELSE {0}

\* The gold is gathered before the question whether the player lived.
WorldOfGoop(w, o) ==
  LET hurt == apply_event_damage(w, 11, "player")
      rich == On(hurt, GainGold(hurt.run, 75))
  IN  CASE w.ev.screen # 0 -> Leave(w)
        [] w.ev.screen = 0 /\ o = 0 -> {IF hurt.phase = "over" THEN rich ELSE At(rich, 1)}
        [] w.ev.screen = 0 /\ o = 1 -> Turn(w, 1, {[w.run EXCEPT !.gold = @ - w.ev.a]})

-----------------------------------------------------------------------------
LiarsGameMenu(w) == IF w.ev.screen = 0 THEN {0, 1} ELSE {0}

LiarsGame(w, o) ==
  CASE w.ev.screen = 0 -> {At(w, IF o = 0 THEN 1 ELSE 3)}
    [] w.ev.screen = 1 ->
         Turn(w, 2, {GainGold(AddCard(w.run, "regret"), IF w.run.hard THEN 150 ELSE 175)})
    [] OTHER -> Leave(w)

-----------------------------------------------------------------------------
LivingWallMenu(w) ==
  IF w.ev.screen # 0 THEN {0} ELSE {0, 1} \cup {o \in {2} : grid_has_card(w.run, "upgrade")}

\* An option whose grid would be empty turns the page without one.
LivingWall(w, o) ==
  LET kind == CASE o = 0 -> "purge" [] o = 1 -> "transformable" [] o = 2 -> "upgrade"
  IN  IF w.ev.screen # 0 THEN Leave(w)
      ELSE {IF grid_has_card(w.run, kind) THEN OpenGrid(At(w, 1), kind) ELSE At(w, 1)}

-----------------------------------------------------------------------------
MushroomsMenu(w) == IF w.ev.screen = 0 THEN {0, 1} ELSE {0}

Mushrooms(w, o) ==
  LET spoils == add_event_combat_relic_reward(
                  add_event_combat_gold_reward(ClearLoot(w), 20),
                  OrCirclet(w.run, "odd_mushroom"))
  IN  CASE w.ev.screen = 0 /\ o = 0 -> {At(w, 1)}
        [] w.ev.screen = 0 /\ o = 1 ->
             Turn(w, 2, {AddCard(Heal(w.run, w.run.max \div 4), "parasite")})
        [] w.ev.screen = 2 -> Leave(w)
        [] w.ev.screen = 1 -> {enter_event_combat(spoils, "lair")}

-----------------------------------------------------------------------------
\* Scrap Ooze: a is the chance, b the price in health of the next reach.
ScrapOozeEnter(w) == {[w EXCEPT !.ev.a = 25, !.ev.b = IF w.run.hard THEN 5 ELSE 3]}

ScrapOozeMenu(w) == IF w.ev.screen = 0 THEN {0, 1} ELSE {0}

\* The reach goes on to its roll though the player has just died of it; what
\* it then writes goes into the dialog the death has emptied.
ScrapOoze(w, o) ==
  LET hurt == apply_event_damage(w, w.ev.b, "none")
      missed == [hurt EXCEPT !.ev.a = w.ev.a + 10, !.ev.b = w.ev.b + 1]
  IN  CASE w.ev.screen # 0 -> Leave(w)
        [] w.ev.screen = 0 /\ o = 1 -> {At(w, 1)}
        [] w.ev.screen = 0 /\ o = 0 ->
             Turn(hurt, 1, EventRelicRuns(hurt.run)) \cup {v \in {missed} : w.ev.a < 99}

-----------------------------------------------------------------------------
ShiningLightMenu(w) ==
  IF w.ev.screen # 0 THEN {0} ELSE {1} \cup {o \in {0} : grid_has_card(w.run, "upgrade")}

ShiningLight(w, o) ==
  LET hurt == apply_event_damage(w, RoundedPercent(w.run.max, IF w.run.hard THEN 30 ELSE 20),
                                 "player")
  IN  CASE w.ev.screen # 0 -> Leave(w)
        [] w.ev.screen = 0 /\ o = 1 -> {At(w, 1)}
        [] w.ev.screen = 0 /\ o = 0 -> Turn(hurt, 1, UpgradeSome(hurt.run, Upgradeable(hurt.run), 2))

(***************************************************************************)
(* The thirteen dialogs of the second act (events/city_events_i.cpp,       *)
(* city_events_ii.cpp).                                                    *)
(***************************************************************************)

AddictMenu(w) ==
  IF w.ev.screen # 0 THEN {0} ELSE {1, 2} \cup {o \in {0} : w.run.gold >= 85}

\* The relic is drawn before the purse pays.
Addict(w, o) ==
  LET r == w.run
      bought == UNION {LET d == DrawScreenless(r, t)
                       IN  Acquire(LoseGold(d.run, 85), d.got) : t \in RollTiers}
  IN  CASE w.ev.screen # 0 \/ o = 2 -> Leave(w)
        [] w.ev.screen = 0 /\ o = 0 -> Turn(w, 1, bought)
        [] w.ev.screen = 0 /\ o = 1 -> Turn(w, 1, RelicWithCurse(r))

-----------------------------------------------------------------------------
BackToBasicsMenu(w) == IF w.ev.screen = 0 THEN {0, 1} ELSE {0}

BackToBasics(w, o) ==
  LET starters == {i \in Upgradeable(w.run) : w.run.deck[i].k \in {"strike", "defend"}}
  IN  CASE w.ev.screen # 0 -> Leave(w)
        [] w.ev.screen = 0 /\ o = 0 ->
             {At(IF grid_has_card(w.run, "purge") THEN OpenGrid(w, "purge") ELSE w, 1)}
        [] w.ev.screen = 0 /\ o = 1 -> Turn(w, 1, {UpgradeSet(w.run, starters)})

-----------------------------------------------------------------------------
BeggarMenu(w) == IF w.ev.screen # 0 THEN {0} ELSE {1} \cup {o \in {0} : w.run.gold >= 75}

Beggar(w, o) ==
  CASE w.ev.screen = 0 /\ o = 0 -> Turn(w, 1, {LoseGold(w.run, 75)})
    [] w.ev.screen = 0 /\ o = 1 -> {At(w, 2)}
    [] w.ev.screen = 1 ->
         {At(IF grid_has_card(w.run, "purge") THEN OpenGrid(w, "purge") ELSE w, 2)}
    [] w.ev.screen = 2 -> Leave(w)

\* The removal ends the visit by itself.
BeggarPick(w, i) == UNION {Leave(v) : v \in Picked(w, i)}

-----------------------------------------------------------------------------
\* Cursed Tome: three pages, each at its number in health, and the last.
CursedTomeMenu(w) == IF w.ev.screen \in {0, 4} THEN {0, 1} ELSE {0}

Books == {"necronomicon", "enchiridion", "nilrys_codex"}

tome_random_book(r) == IF Books \ r.relics = {} THEN {"circlet"} ELSE Books \ r.relics

\* mutant: the page turns whatever it cost
CursedTome_PageTurns(w, o) ==
  LET cost == IF w.run.hard THEN 15 ELSE 10
      hurt == apply_event_damage(w, cost, "none")
  IN  CASE w.ev.screen = 0 -> {At(w, IF o = 0 THEN 1 ELSE 5)}
        [] w.ev.screen \in 1..3 -> {At(apply_event_damage(w, w.ev.screen, "none"), w.ev.screen + 1)}
        [] w.ev.screen = 4 /\ o # 0 -> {At(apply_event_damage(w, 3, "none"), 5)}
        [] w.ev.screen = 4 /\ o = 0 ->
             {OpenLoot(add_event_combat_relic_reward(ClearLoot(hurt), b)) :
                b \in tome_random_book(w.run)}
        [] w.ev.screen = 5 -> Leave(w)

CursedTome(w, o) ==
  LET cost == CASE w.ev.screen \in 1..3 -> w.ev.screen
                [] w.ev.screen = 4 /\ o # 0 -> 3
                [] OTHER -> IF w.run.hard THEN 15 ELSE 10
      hurt == apply_event_damage(w, cost, "none")
  IN  CASE w.ev.screen = 0 -> {At(w, IF o = 0 THEN 1 ELSE 5)}
        [] w.ev.screen \in 1..3 \/ (w.ev.screen = 4 /\ o # 0) ->
             IfAlive(hurt, {At(hurt, w.ev.screen + 1)})
        [] w.ev.screen = 4 /\ o = 0 ->
             IfAlive(hurt, {OpenLoot(add_event_combat_relic_reward(ClearLoot(hurt), b)) :
                              b \in tome_random_book(w.run)})
        [] w.ev.screen = 5 -> Leave(w)

-----------------------------------------------------------------------------
\* Drug Dealer: a is the first of the two cards to be mutated, 0 when none.
DrugDealerMenu(w) ==
  IF w.ev.screen # 0 THEN {0}
  ELSE {0, 2} \cup {o \in {1} : Cardinality(Purgeable(w.run)) >= 2}

DrugDealer(w, o) ==
  CASE w.ev.screen # 0 -> Leave(w)
    [] w.ev.screen = 0 /\ o = 0 -> Turn(w, 1, {AddCard(w.run, "trick")})
    [] w.ev.screen = 0 /\ o = 1 -> {OpenGrid(w, "transformable_any")}
    [] w.ev.screen = 0 /\ o = 2 -> Turn(w, 1, Acquire(w.run, OrCirclet(w.run, "mutagenic")))

\* Both cards leave before either of the new ones comes.
DrugDealerPick(w, i) ==
  LET first == w.ev.a
      k1 == w.run.deck[first].k
      k2 == w.run.deck[i].k
      left == RemoveCard(RemoveCard(w.run, Most(first, i)), Least(first, i))
      done == [w EXCEPT !.ev.grid = "none", !.ev.a = 0, !.ev.screen = 1]
  IN  CASE first = 0 -> {[w EXCEPT !.ev.a = i]}
        [] first = i -> {w}
        [] OTHER -> {On(done, AddCard(AddCard(left, n1), n2)) :
                       n1 \in TransformsOf(k1), n2 \in TransformsOf(k2)}

-----------------------------------------------------------------------------
\* Forgotten Altar: a is the price in health, fixed on entry.
AltarEnter(w) == {[w EXCEPT !.ev.a = RoundedPercent(w.run.max, IF w.run.hard THEN 35 ELSE 25)]}

ForgottenAltarMenu(w) ==
  IF w.ev.screen # 0 THEN {0} ELSE {1, 2} \cup {o \in {0} : Owns(w.run, "golden_idol")}

ForgottenAltar(w, o) ==
  LET r == w.run
      bled == apply_event_damage(On(w, RaiseMax(r, 5)), w.ev.a, "none")
  IN  CASE w.ev.screen # 0 -> Leave(w)
        [] w.ev.screen = 0 /\ o = 0 ->
             Turn(w, 1, IF Owns(r, "bloody_idol") THEN Acquire(r, "circlet")
                        ELSE {SwapRelic(r, "golden_idol", "bloody_idol")})
        [] w.ev.screen = 0 /\ o = 1 -> IfAlive(bled, {At(bled, 1)})
        [] w.ev.screen = 0 /\ o = 2 -> Turn(w, 1, {AddCard(r, "regret")})

-----------------------------------------------------------------------------
\* Ghosts and Vampires fix their price in max hp on entry, in a.
GhostsEnter(w) == {[w EXCEPT !.ev.a = Least(CeilPercent(w.run.max, 50), w.run.max - 1)]}

GhostsMenu(w) == IF w.ev.screen = 0 THEN {0, 1} ELSE {0}

Ghosts(w, o) ==
  LET n == IF w.run.hard THEN 3 ELSE 5
  IN  CASE w.ev.screen # 0 -> Leave(w)
        [] w.ev.screen = 0 /\ o = 0 -> Turn(w, 1, {AddCards(LowerMax(w.run, w.ev.a), "trick", n)})
        [] w.ev.screen = 0 /\ o = 1 -> {At(w, 1)}

VampiresEnter(w) == {[w EXCEPT !.ev.a = Least(CeilPercent(w.run.max, 30), w.run.max - 1)]}

VampiresMenu(w) ==
  IF w.ev.screen # 0 THEN {0} ELSE {0, 1} \cup {o \in {2} : Owns(w.run, "blood_vial")}

vampires_replace_attacks(r) ==
  AddCards(Without(r, {i \in DOMAIN r.deck : r.deck[i].k = "strike"}), "bite", 5)

\* Option 1 is the vial only for a run that holds it.
Vampires(w, o) ==
  CASE w.ev.screen # 0 -> Leave(w)
    [] w.ev.screen = 0 /\ o = 0 ->
         Turn(w, 1, {vampires_replace_attacks(LowerMax(w.run, w.ev.a))})
    [] w.ev.screen = 0 /\ o = 1 /\ Owns(w.run, "blood_vial") ->
         Turn(w, 1, {vampires_replace_attacks(LoseRelic(w.run, "blood_vial"))})
    [] OTHER -> {At(w, 1)}

-----------------------------------------------------------------------------
NestMenu(w) == IF w.ev.screen = 1 THEN {0, 1} ELSE {0}

\* The dagger is taken before the question whether the player lived.
Nest(w, o) ==
  LET hurt == apply_event_damage(w, 6, "none")
      armed == On(hurt, AddCard(hurt.run, "trick"))
  IN  CASE w.ev.screen = 0 -> {At(w, 1)}
        [] w.ev.screen = 1 /\ o = 0 -> Turn(w, 2, {GainGold(w.run, IF w.run.hard THEN 50 ELSE 99)})
        [] w.ev.screen = 1 /\ o = 1 -> {IF hurt.phase = "over" THEN armed ELSE At(armed, 2)}
        [] w.ev.screen = 2 -> Leave(w)

-----------------------------------------------------------------------------
\* The Library: a is the sleep's worth; the board lays out different cards
\* (twenty in the game).
LibraryEnter(w) == {[w EXCEPT !.ev.a = RoundedPercent(w.run.max, IF w.run.hard THEN 20 ELSE 33)]}

LibraryMenu(w) ==
  CASE w.ev.screen = 0 -> {0, 1}
    [] w.ev.screen = 1 -> {i - 1 : i \in DOMAIN w.ev.board}
    [] w.ev.screen = 2 -> {0}

Library(w, o) ==
  CASE w.ev.screen = 0 /\ o = 0 ->
         {[w EXCEPT !.ev.board = SetToSeq(RandomCards), !.ev.screen = 1]}
    [] w.ev.screen = 0 /\ o = 1 -> Turn(w, 2, {Heal(w.run, w.ev.a)})
    [] w.ev.screen = 1 -> Turn(w, 2, {AddCard(w.run, w.ev.board[o + 1])})
    [] w.ev.screen = 2 -> Leave(w)

-----------------------------------------------------------------------------
MausoleumMenu(w) == IF w.ev.screen = 0 THEN {0, 1} ELSE {0}

\* A coin decides on the curse; from ascension 15 it always comes.
Mausoleum(w, o) ==
  LET plain == {r \in EventRelicRuns(w.run) : ~w.run.hard}
  IN  CASE w.ev.screen # 0 -> Leave(w)
        [] w.ev.screen = 0 /\ o = 0 -> Turn(w, 1, plain \cup RelicWithCurse(w.run))
        [] w.ev.screen = 0 /\ o = 1 -> {At(w, 1)}

-----------------------------------------------------------------------------
\* Colosseum: the first fight comes back to the dialog, the second does not.
ColosseumMenu(w) == IF w.ev.screen = 2 THEN {0, 1} ELSE {0}

Colosseum(w, o) ==
  LET rare == DrawRelic(w.run, "rare", FALSE)
      uncommon == DrawRelic(rare.run, "uncommon", FALSE)
      purse == add_event_combat_relic_reward(
                 add_event_combat_relic_reward(ClearLoot(On(w, uncommon.run)), rare.got),
                 uncommon.got)
  IN  CASE w.ev.screen = 0 -> {At(w, 1)}
        [] w.ev.screen = 1 -> {enter_event_combat(ClearLoot(At(w, 2)), "slavers")}
        [] w.ev.screen = 2 /\ o # 1 -> Leave(w)
        [] w.ev.screen = 2 /\ o = 1 ->
             {enter_event_combat([add_event_combat_gold_reward(purse, 100) EXCEPT !.ev = NoEvent],
                                 "nobs")}

\* event_combat_reopens: the fight just won was the first of the two.
event_combat_reopens(w) == w.ev.id = "colosseum" /\ w.ev.screen = 2

event_combat_reopen(w) == [ClearLoot(w) EXCEPT !.phase = "dialog"]

-----------------------------------------------------------------------------
BanditsMenu(w) == IF w.ev.screen = 0 THEN {0, 1} ELSE {0}

\* Masked Bandits: the screen's rows are added to, not cleared.
Bandits(w, o) ==
  LET spoils == add_event_combat_relic_reward(add_event_combat_gold_reward(w, 25),
                                              OrCirclet(w.run, "red_mask"))
  IN  CASE w.ev.screen = 0 /\ o = 0 -> Turn(w, 1, {LoseGold(w.run, w.run.gold)})
        [] w.ev.screen = 0 /\ o = 1 ->
             {[enter_event_combat(spoils, "bandits") EXCEPT !.ev = NoEvent]}
        [] w.ev.screen \in 1..2 -> {At(w, w.ev.screen + 1)}
        [] w.ev.screen = 3 -> Leave(w)

(***************************************************************************)
(* The seven dialogs of the third act and the Spire's Heart (events/       *)
(* beyond_events.cpp, spire_heart.cpp).                                    *)
(***************************************************************************)

\* Falling: a, b and c are the attack, the skill and the power that may drop,
\* picked on entry; 0 when the deck has none.
falling_pick(r, type) ==
  LET found == {i \in DOMAIN r.deck : TypeOf(r.deck[i]) = type /\ ~r.deck[i].bottle}
  IN  IF found = {} THEN {0} ELSE found

FallingEnter(w) ==
  {[w EXCEPT !.ev.a = a, !.ev.b = s, !.ev.c = p] :
     a \in falling_pick(w.run, "attack"), s \in falling_pick(w.run, "skill"),
     p \in falling_pick(w.run, "power")}

FallingMenu(w) ==
  IF w.ev.screen # 1 \/ (w.ev.a = 0 /\ w.ev.b = 0 /\ w.ev.c = 0) THEN {0}
  ELSE {o \in {0} : w.ev.b # 0} \cup {o \in {1} : w.ev.c # 0} \cup {o \in {2} : w.ev.a # 0}

Falling(w, o) ==
  LET i == CASE o = 0 -> w.ev.b [] o = 1 -> w.ev.c [] o = 2 -> w.ev.a
  IN  CASE w.ev.screen = 0 -> {At(w, 1)}
        [] w.ev.screen = 1 -> Turn(w, 2, {IF i = 0 THEN w.run ELSE RemoveCard(w.run, i)})
        [] w.ev.screen = 2 -> Leave(w)

-----------------------------------------------------------------------------
\* Mind Bloom: a is 1 on the last floors of the act.
MindBloomEnter(w) == {[w EXCEPT !.ev.a = n] : n \in {0, 1}}

MindBloomMenu(w) == IF w.ev.screen = 0 THEN {0, 1, 2} ELSE {0}

MindBloom(w, o) ==
  LET r == w.run
      d == DrawRelic(r, "rare", FALSE)
      spoils == add_event_combat_relic_reward(
                  add_event_combat_gold_reward(ClearLoot(On(w, d.run)), 50), d.got)
  IN  CASE w.ev.screen # 0 -> Leave(w)
        [] w.ev.screen = 0 /\ o = 0 ->
             {[enter_event_combat(spoils, "boss") EXCEPT !.ev = NoEvent]}
        [] w.ev.screen = 0 /\ o = 1 -> Turn(w, 1, Acquire(UpgradeSet(r, Upgradeable(r)), "bloom"))
        [] w.ev.screen = 0 /\ o = 2 ->
             Turn(w, 1, IF w.ev.a = 0 THEN {AddCards(GainGold(r, 999), "regret", 2)}
                        ELSE {AddCard(Heal(r, r.max), "regret")})

-----------------------------------------------------------------------------
\* The Moai Head: a is the price in max hp.
MoaiEnter(w) ==
  {[w EXCEPT !.ev.a = (w.run.max * (IF w.run.hard THEN 180 ELSE 125) + 500) \div 1000]}

MoaiMenu(w) ==
  IF w.ev.screen # 0 THEN {0} ELSE {0, 2} \cup {o \in {1} : Owns(w.run, "golden_idol")}

Moai(w, o) ==
  LET r == LowerMax(w.run, w.ev.a)
  IN  CASE w.ev.screen # 0 -> Leave(w)
        [] w.ev.screen = 0 /\ o = 0 -> Turn(w, 1, {Heal(r, r.max)})
        [] w.ev.screen = 0 /\ o = 1 -> Turn(w, 1, {GainGold(LoseRelic(w.run, "golden_idol"), 333)})
        [] w.ev.screen = 0 /\ o = 2 -> {At(w, 1)}

-----------------------------------------------------------------------------
SphereMenu(w) == IF w.ev.screen = 0 THEN {0, 1} ELSE {0}

Sphere(w, o) ==
  LET d == DrawScreenless(w.run, "rare")
      spoils == add_event_combat_relic_reward(
                  add_event_combat_gold_reward(ClearLoot(On(w, d.run)), 45), d.got)
  IN  CASE w.ev.screen = 0 -> {At(w, IF o = 0 THEN 1 ELSE 2)}
        [] w.ev.screen = 1 ->
             {[enter_event_combat(spoils, "orb_walkers") EXCEPT !.ev = NoEvent]}
        [] w.ev.screen = 2 -> Leave(w)

-----------------------------------------------------------------------------
SensoryMenu(w) == IF w.ev.screen = 1 THEN {0, 1, 2} ELSE {0}

\* One to three card rows, at 0, 5 and 10 health; the dialog closes either way.
Sensory(w, o) ==
  LET offer == [i \in 1..(o + 1) |-> CardsRow(w.run)]
      seen == [w EXCEPT !.loot = [rows |-> offer, open |-> 0]]
      hurt == [apply_event_damage(seen, 5 * o, "none") EXCEPT !.ev = NoEvent]
  IN  CASE w.ev.screen = 0 -> {At(w, 1)}
        [] w.ev.screen = 1 -> IfAlive(hurt, {OpenLoot(hurt)})

-----------------------------------------------------------------------------
TombMenu(w) ==
  CASE w.ev.screen # 0 -> {0}
    [] w.ev.screen = 0 /\ Owns(w.run, "red_mask") -> {0, 1}
    [] w.ev.screen = 0 /\ ~Owns(w.run, "red_mask") -> {1, 2}

Tomb(w, o) ==
  LET r == w.run
  IN  CASE w.ev.screen = 0 /\ o = 0 /\ Owns(r, "red_mask") -> Turn(w, 1, {GainGold(r, 222)})
        [] w.ev.screen = 0 /\ o = 1 /\ ~Owns(r, "red_mask") ->
             Turn(w, 1, Acquire(LoseGold(r, r.gold), "red_mask"))
        [] OTHER -> Leave(w)

-----------------------------------------------------------------------------
\* Winding Halls: a, b and c are the price of madness, the healing and the
\* max hp lost, fixed on entry.
WindingEnter(w) ==
  LET r == w.run
  IN  {[w EXCEPT !.ev.a = (r.max * (IF r.hard THEN 180 ELSE 125) + 500) \div 1000,
                 !.ev.b = RoundedPercent(r.max, IF r.hard THEN 20 ELSE 25),
                 !.ev.c = RoundedPercent(r.max, 5)]}

WindingMenu(w) == IF w.ev.screen = 1 THEN {0, 1, 2} ELSE {0}

\* The two cards of madness come to the dead as well.
Winding(w, o) ==
  LET mad == apply_event_damage(At(w, 2), w.ev.a, "none")
  IN  CASE w.ev.screen = 0 -> {At(w, 1)}
        [] w.ev.screen = 2 -> Leave(w)
        [] w.ev.screen = 1 /\ o = 0 -> {On(mad, AddCards(mad.run, "trick", 2))}
        [] w.ev.screen = 1 /\ o = 1 -> Turn(w, 2, {AddCard(Heal(w.run, w.ev.b), "regret")})
        [] w.ev.screen = 1 /\ o = 2 -> Turn(w, 2, {LowerMax(w.run, w.ev.c)})

-----------------------------------------------------------------------------
\* The Spire's Heart: the run ends here, or goes on through the door the
\* three keys open.
HeartMenu(w) == {0}

door_is_open(r) == r.keys = {"ruby", "emerald", "sapphire"}

Heart(w, o) ==
  CASE w.ev.screen \in {0, 1} -> {At(w, w.ev.screen + 1)}
    [] w.ev.screen = 2 -> {At(w, IF door_is_open(w.run) THEN 4 ELSE 3)}
    [] w.ev.screen = 3 -> {[w EXCEPT !.ev = NoEvent, !.phase = "over"]}
    [] w.ev.screen = 4 -> Leave(w)

=============================================================================
