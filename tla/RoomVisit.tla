------------------------------ MODULE RoomVisit ------------------------------
(***************************************************************************)
(* One room of a run, from the door to the map (run_advance.cpp's step_one *)
(* outside and around the fight).  The bodies of the events, shops, chests *)
(* and fights are in the modules below; an action here is one command of   *)
(* the player, or one happening inside a fight's command.                  *)
(***************************************************************************)
EXTENDS ActEvents, ShrineEvents, QuietRooms, Merchant, FightLedger

CONSTANT
    Visits          \* rooms to visit: [run, room, what], what being the event
                    \* or the fight met there

\* The events of the dialogs (EventId).
Events ==
  {"BigFish", "Cleric", "DeadAdventurer", "GoldenIdol", "GoldenWing", "WorldOfGoop",
   "LiarsGame", "LivingWall", "Mushrooms", "ScrapOoze", "ShiningLight", "MatchAndKeep",
   "GoldenShrine", "Transmogrifier", "Purifier", "UpgradeShrine", "Wheel", "Addict",
   "BackToBasics", "Beggar", "CursedTome", "DrugDealer", "ForgottenAltar", "Ghosts",
   "Vampires", "Nest", "Library", "Mausoleum", "colosseum", "Bandits", "Skull", "Joust",
   "Nloth", "Designer", "Duplicator", "Blacksmith", "Bonfire", "FaceTrader", "Fountain",
   "Lab", "Note", "WeMeetAgain", "WomanInBlue", "Falling", "MindBloom", "Moai", "Sphere",
   "Sensory", "Tomb", "Winding", "Heart"}

VisitedRooms == DOMAIN RoomGold \cup {"event", "rest", "shop", "treasure", "neow"}

\* A visit is made by a run that is alive, its Du-Vu Doll counted.
ASSUME VisitsAssumption ==
  \A v \in Visits :
    /\ v.run \in Runs /\ v.run.hp \in 1..v.run.max
    /\ Owns(v.run, "doll") => v.run.doll = Curses(v.run.deck)
    /\ v.room \in VisitedRooms
    /\ v.room = "event" => v.what \in Events

VARIABLES run, phase, room, event, site, loot, fight, pend

vars == <<run, phase, room, event, site, loot, fight, pend>>

World == [run |-> run, phase |-> phase, room |-> room, ev |-> event, site |-> site,
          loot |-> loot, fight |-> fight, pend |-> pend]

Is(w) ==
  /\ run = w.run /\ phase = w.phase /\ room = w.room /\ event = w.ev
  /\ site = w.site /\ loot = w.loot /\ fight = w.fight /\ pend = w.pend

Become(w) ==
  /\ run' = w.run /\ phase' = w.phase /\ room' = w.room /\ event' = w.ev
  /\ site' = w.site /\ loot' = w.loot /\ fight' = w.fight /\ pend' = w.pend

NoSite == [screen |-> "none"]

-----------------------------------------------------------------------------
\* The dialogs by their event (event_dialog_impl).
EventEnter(w) ==
  CASE w.ev.id = "DeadAdventurer" -> DeadEnter(w)
    [] w.ev.id = "WorldOfGoop" -> GoopEnter(w)
    [] w.ev.id = "ScrapOoze" -> ScrapOozeEnter(w)
    [] w.ev.id = "MatchAndKeep" -> MatchEnter(w)
    [] w.ev.id = "ForgottenAltar" -> AltarEnter(w)
    [] w.ev.id = "Ghosts" -> GhostsEnter(w)
    [] w.ev.id = "Vampires" -> VampiresEnter(w)
    [] w.ev.id = "Library" -> LibraryEnter(w)
    [] w.ev.id = "Skull" -> SkullEnter(w)
    [] w.ev.id = "Nloth" -> NlothEnter(w)
    [] w.ev.id = "Designer" -> DesignerEnter(w)
    [] w.ev.id = "FaceTrader" -> FaceTraderEnter(w)
    [] w.ev.id = "WeMeetAgain" -> WeMeetAgainEnter(w)
    [] w.ev.id = "Falling" -> FallingEnter(w)
    [] w.ev.id = "MindBloom" -> MindBloomEnter(w)
    [] w.ev.id = "Moai" -> MoaiEnter(w)
    [] w.ev.id = "Winding" -> WindingEnter(w)
    [] OTHER -> {w}

Menu(w) ==
  CASE w.ev.id = "BigFish" -> BigFishMenu(w)
    [] w.ev.id = "Cleric" -> ClericMenu(w)
    [] w.ev.id = "DeadAdventurer" -> DeadAdventurerMenu(w)
    [] w.ev.id = "GoldenIdol" -> GoldenIdolMenu(w)
    [] w.ev.id = "GoldenWing" -> GoldenWingMenu(w)
    [] w.ev.id = "WorldOfGoop" -> WorldOfGoopMenu(w)
    [] w.ev.id = "LiarsGame" -> LiarsGameMenu(w)
    [] w.ev.id = "LivingWall" -> LivingWallMenu(w)
    [] w.ev.id = "Mushrooms" -> MushroomsMenu(w)
    [] w.ev.id = "ScrapOoze" -> ScrapOozeMenu(w)
    [] w.ev.id = "ShiningLight" -> ShiningLightMenu(w)
    [] w.ev.id = "MatchAndKeep" -> MatchAndKeepMenu(w)
    [] w.ev.id = "GoldenShrine" -> GoldenShrineMenu(w)
    [] w.ev.id = "Transmogrifier" -> TransmogrifierMenu(w)
    [] w.ev.id = "Purifier" -> PurifierMenu(w)
    [] w.ev.id = "UpgradeShrine" -> UpgradeShrineMenu(w)
    [] w.ev.id = "Wheel" -> WheelMenu(w)
    [] w.ev.id = "Addict" -> AddictMenu(w)
    [] w.ev.id = "BackToBasics" -> BackToBasicsMenu(w)
    [] w.ev.id = "Beggar" -> BeggarMenu(w)
    [] w.ev.id = "CursedTome" -> CursedTomeMenu(w)
    [] w.ev.id = "DrugDealer" -> DrugDealerMenu(w)
    [] w.ev.id = "ForgottenAltar" -> ForgottenAltarMenu(w)
    [] w.ev.id = "Ghosts" -> GhostsMenu(w)
    [] w.ev.id = "Vampires" -> VampiresMenu(w)
    [] w.ev.id = "Nest" -> NestMenu(w)
    [] w.ev.id = "Library" -> LibraryMenu(w)
    [] w.ev.id = "Mausoleum" -> MausoleumMenu(w)
    [] w.ev.id = "colosseum" -> ColosseumMenu(w)
    [] w.ev.id = "Bandits" -> BanditsMenu(w)
    [] w.ev.id = "Skull" -> SkullMenu(w)
    [] w.ev.id = "Joust" -> JoustMenu(w)
    [] w.ev.id = "Nloth" -> NlothMenu(w)
    [] w.ev.id = "Designer" -> DesignerMenu(w)
    [] w.ev.id = "Duplicator" -> DuplicatorMenu(w)
    [] w.ev.id = "Blacksmith" -> BlacksmithMenu(w)
    [] w.ev.id = "Bonfire" -> BonfireMenu(w)
    [] w.ev.id = "FaceTrader" -> FaceTraderMenu(w)
    [] w.ev.id = "Fountain" -> FountainMenu(w)
    [] w.ev.id = "Lab" -> LabMenu(w)
    [] w.ev.id = "Note" -> NoteMenu(w)
    [] w.ev.id = "WeMeetAgain" -> WeMeetAgainMenu(w)
    [] w.ev.id = "WomanInBlue" -> WomanInBlueMenu(w)
    [] w.ev.id = "Falling" -> FallingMenu(w)
    [] w.ev.id = "MindBloom" -> MindBloomMenu(w)
    [] w.ev.id = "Moai" -> MoaiMenu(w)
    [] w.ev.id = "Sphere" -> SphereMenu(w)
    [] w.ev.id = "Sensory" -> SensoryMenu(w)
    [] w.ev.id = "Tomb" -> TombMenu(w)
    [] w.ev.id = "Winding" -> WindingMenu(w)
    [] w.ev.id = "Heart" -> HeartMenu(w)

Chosen(w, o) ==
  CASE w.ev.id = "BigFish" -> BigFish(w, o)
    [] w.ev.id = "Cleric" -> Cleric(w, o)
    [] w.ev.id = "DeadAdventurer" -> DeadAdventurer(w, o)
    [] w.ev.id = "GoldenIdol" -> GoldenIdol(w, o)
    [] w.ev.id = "GoldenWing" -> GoldenWing(w, o)
    [] w.ev.id = "WorldOfGoop" -> WorldOfGoop(w, o)
    [] w.ev.id = "LiarsGame" -> LiarsGame(w, o)
    [] w.ev.id = "LivingWall" -> LivingWall(w, o)
    [] w.ev.id = "Mushrooms" -> Mushrooms(w, o)
    [] w.ev.id = "ScrapOoze" -> ScrapOoze(w, o)
    [] w.ev.id = "ShiningLight" -> ShiningLight(w, o)
    [] w.ev.id = "MatchAndKeep" -> MatchAndKeep(w, o)
    [] w.ev.id = "GoldenShrine" -> GoldenShrine(w, o)
    [] w.ev.id = "Transmogrifier" -> Transmogrifier(w, o)
    [] w.ev.id = "Purifier" -> Purifier(w, o)
    [] w.ev.id = "UpgradeShrine" -> UpgradeShrine(w, o)
    [] w.ev.id = "Wheel" -> Wheel(w, o)
    [] w.ev.id = "Addict" -> Addict(w, o)
    [] w.ev.id = "BackToBasics" -> BackToBasics(w, o)
    [] w.ev.id = "Beggar" -> Beggar(w, o)
    [] w.ev.id = "CursedTome" -> CursedTome(w, o)
    [] w.ev.id = "DrugDealer" -> DrugDealer(w, o)
    [] w.ev.id = "ForgottenAltar" -> ForgottenAltar(w, o)
    [] w.ev.id = "Ghosts" -> Ghosts(w, o)
    [] w.ev.id = "Vampires" -> Vampires(w, o)
    [] w.ev.id = "Nest" -> Nest(w, o)
    [] w.ev.id = "Library" -> Library(w, o)
    [] w.ev.id = "Mausoleum" -> Mausoleum(w, o)
    [] w.ev.id = "colosseum" -> Colosseum(w, o)
    [] w.ev.id = "Bandits" -> Bandits(w, o)
    [] w.ev.id = "Skull" -> Skull(w, o)
    [] w.ev.id = "Joust" -> Joust(w, o)
    [] w.ev.id = "Nloth" -> Nloth(w, o)
    [] w.ev.id = "Designer" -> Designer(w, o)
    [] w.ev.id = "Duplicator" -> Duplicator(w, o)
    [] w.ev.id = "Blacksmith" -> Blacksmith(w, o)
    [] w.ev.id = "Bonfire" -> Bonfire(w, o)
    [] w.ev.id = "FaceTrader" -> FaceTrader(w, o)
    [] w.ev.id = "Fountain" -> Fountain(w, o)
    [] w.ev.id = "Lab" -> Lab(w, o)
    [] w.ev.id = "Note" -> Note(w, o)
    [] w.ev.id = "WeMeetAgain" -> WeMeetAgain(w, o)
    [] w.ev.id = "WomanInBlue" -> WomanInBlue(w, o)
    [] w.ev.id = "Falling" -> Falling(w, o)
    [] w.ev.id = "MindBloom" -> MindBloom(w, o)
    [] w.ev.id = "Moai" -> Moai(w, o)
    [] w.ev.id = "Sphere" -> Sphere(w, o)
    [] w.ev.id = "Sensory" -> Sensory(w, o)
    [] w.ev.id = "Tomb" -> Tomb(w, o)
    [] w.ev.id = "Winding" -> Winding(w, o)
    [] w.ev.id = "Heart" -> Heart(w, o)

GridPicked(w, i) ==
  CASE w.ev.id = "Cleric" -> ClericPick(w, i)
    [] w.ev.id = "GoldenWing" -> GoldenWingPick(w, i)
    [] w.ev.id = "Beggar" -> BeggarPick(w, i)
    [] w.ev.id = "DrugDealer" -> DrugDealerPick(w, i)
    [] w.ev.id = "Designer" -> DesignerPick(w, i)
    [] w.ev.id = "Bonfire" -> BonfirePick(w, i)
    [] w.ev.id = "Duplicator" -> DuplicatorPick(w, i)
    [] OTHER -> Picked(w, i)

-----------------------------------------------------------------------------
\* What an event asks of the run before it may be drawn (the floors and acts
\* it belongs to aside): the act's own events, then the shrines and one-timers.
build_event_pool(r, id) ==
  CASE id = "Cleric" -> r.gold >= 35
    [] id = "Beggar" -> r.gold >= 75
    [] id = "Moai"   -> Owns(r, "golden_idol") \/ 2 * r.hp <= r.max
    [] OTHER         -> TRUE

event_player_is_cursed(r) == \E i \in Purgeable(r) : TypeOf(r.deck[i]) = "curse"

build_shrine_pool(r, id) ==
  CASE id = "Fountain" -> event_player_is_cursed(r)
    [] id = "Designer" -> r.gold >= 75
    [] id = "Skull"    -> r.hp > 12
    [] id = "Nloth"    -> Cardinality(r.relics) >= 2
    [] id \in {"Joust", "WomanInBlue"} -> r.gold >= 50
    [] OTHER -> TRUE

MayMeet(v) == v.room = "event" => build_event_pool(v.run, v.what) /\ build_shrine_pool(v.run, v.what)

-----------------------------------------------------------------------------
\* dispatch_on_enter_room_relics.
dispatch_on_enter_room_relics(r, where) ==
  LET head == IF where = "event" /\ Owns(r, "sssserpent") THEN GainGold(r, 50) ELSE r
      maw == IF Owns(head, "maw_bank") /\ head.maw THEN GainGold(head, 12) ELSE head
  IN  IF where = "rest" /\ Owns(maw, "eternal_feather")
      THEN HealOutOfCombat(maw, (Len(maw.deck) \div 5) * 3) ELSE maw

\* on_player_entry: the relics at the door, then the room.
on_player_entry(v) ==
  LET r == dispatch_on_enter_room_relics(v.run, v.room)
      w == [run |-> r, phase |-> "none", room |-> v.room, ev |-> NoEvent, site |-> NoSite,
            loot |-> NoLoot, fight |-> NoFight, pend |-> "none"]
  IN  CASE v.room \in DOMAIN RoomGold -> {enter_combat([w EXCEPT !.fight.foes = v.what])}
        [] v.room = "event" -> EventEnter([w EXCEPT !.phase = "dialog", !.ev.id = v.what])
        [] v.room = "rest" -> RestEnter(w)
        [] v.room = "shop" -> ShopEnter(w)
        [] v.room = "treasure" -> TreasureEnter(w)
        [] v.room = "neow" -> NeowEnter(w)

Init == \E v \in Visits : MayMeet(v) /\ \E w \in on_player_entry(v) : Is(w)

-----------------------------------------------------------------------------
\* The cards a bottle or Dolly's Mirror may be given.
PendCards(w) ==
  CASE w.pend \in Bottles -> {i \in DOMAIN w.run.deck : bottle_pick_legal(w.run, w.pend, i)}
    [] w.pend = "mirror" -> DOMAIN w.run.deck
    [] OTHER -> {}

\* legal_actions, phase by phase: the rows of the deck and of the screen, the
\* options and the buttons a command may name.
NoChoice == [deck |-> {}, cards |-> {}, claim |-> {}, options |-> {}, wares |-> {}, buttons |-> {}]
Deck(rows) == [NoChoice EXCEPT !.deck = rows]
Buttons(bs) == [NoChoice EXCEPT !.buttons = bs]

OpenRowChoices(w) ==
  [NoChoice EXCEPT !.cards = TakeableCards(w),
                   !.buttons = {"skip"} \cup (IF sing_legal(w) THEN {"sing"} ELSE {})]

RewardChoices(w) ==
  IF w.loot.open # 0 THEN OpenRowChoices(w)
  ELSE [NoChoice EXCEPT !.claim = {i \in DOMAIN w.loot.rows : reward_claim_legal(w, i)},
                        !.buttons = {"proceed"}]

GridChoices(w) ==
  IF w.site.mode \in Confirms THEN Buttons({"proceed"}) ELSE Deck(neow_grid_card_legal(w))

NeowChoices(w) ==
  CASE w.site.screen = "blessing" -> [NoChoice EXCEPT !.options = Blessings]
    [] w.site.screen = "card"  -> OpenRowChoices(w)
    [] w.site.screen = "grid"  -> GridChoices(w)
    [] w.site.screen = "items" -> RewardChoices(w)
    [] w.site.screen = "done"  -> Buttons({"proceed"})

ChestChoices(w) ==
  CASE w.site.screen = "closed" -> Buttons({"open", "proceed"})
    [] w.site.screen = "select" ->
         [NoChoice EXCEPT !.claim = DOMAIN w.site.relics, !.buttons = {"cancel"}]
    [] w.site.screen = "grid"  -> GridChoices(w)
    [] w.site.screen = "items" -> RewardChoices(w)
    [] w.site.screen = "done"  -> Buttons({"proceed"})

RestChoices(w) ==
  CASE w.site.screen = "menu"  -> [NoChoice EXCEPT !.options = UsableOptions(w.run)]
    [] w.site.screen = "dream" -> OpenRowChoices(w)
    [] OTHER -> [NoChoice EXCEPT !.deck = RestCards(w), !.buttons = {"cancel"}]

DialogChoices(w) ==
  IF w.ev.grid # "none" THEN Deck(event_grid_card_legal(w))
  ELSE [NoChoice EXCEPT !.options = Menu(w)]

ShopChoices(w) ==
  IF w.site.screen = "purge"
  THEN [NoChoice EXCEPT !.deck = PurgeableUnbottled(w.run), !.buttons = {"cancel"}]
  ELSE [NoChoice EXCEPT !.wares = {i \in DOMAIN w.site.wares : shop_buy_legal(w, i)},
                        !.buttons = {"proceed"} \cup (IF shop_purge_legal(w) THEN {"purge"} ELSE {})]

legal_actions(w) ==
  CASE w.pend # "none" -> Deck(PendCards(w))
    [] w.pend = "none" /\ w.phase = "neow"     -> NeowChoices(w)
    [] w.pend = "none" /\ w.phase = "treasure" ->
         Buttons({"proceed"} \cup (IF treasure_chest_open_legal(w.run) THEN {"open"} ELSE {}))
    [] w.pend = "none" /\ w.phase = "chest"    -> ChestChoices(w)
    [] w.pend = "none" /\ w.phase = "reward"   -> RewardChoices(w)
    [] w.pend = "none" /\ w.phase = "rest"     -> RestChoices(w)
    [] w.pend = "none" /\ w.phase = "dialog"   -> DialogChoices(w)
    [] w.pend = "none" /\ w.phase = "shop"     -> ShopChoices(w)
    [] OTHER -> NoChoice

-----------------------------------------------------------------------------
\* What the player is shown of a room (public_view.cpp): a screen's contents
\* only while it is up, the words an event shows, an unopened chest's size.
event_scratch_public_mask(id) ==
  CASE id = "Joust" -> {"a"}
    [] id \in {"DeadAdventurer", "Addict", "BackToBasics", "Beggar", "CursedTome", "DrugDealer",
               "ForgottenAltar", "Ghosts", "Nest", "Falling", "MindBloom", "Moai", "Sphere",
               "Sensory", "Tomb", "Winding"} -> {}
    [] OTHER -> {"a", "b", "c", "d"}

FaceDown == [k |-> "none", taken |-> FALSE]
ShownBoard(e) ==
  CASE e.id = "MatchAndKeep" ->
         [i \in DOMAIN e.board |-> IF e.board[i].taken \/ e.b = i THEN e.board[i] ELSE FaceDown]
    [] e.id # "MatchAndKeep" /\ event_scratch_public_mask(e.id) = {} -> <<>>
    [] OTHER -> e.board

encode_event(e) ==
  [id |-> e.id, screen |-> e.screen, grid |-> e.grid, board |-> ShownBoard(e),
   words |-> [x \in event_scratch_public_mask(e.id) |-> e[x]]]

encode_always_block(r) ==
  [hp |-> r.hp, max |-> r.max, gold |-> r.gold, purge |-> r.purge, keys |-> r.keys, deck |-> r.deck,
   relics |-> r.relics, counters |-> <<r.charm, r.doll, r.lifts, r.nest, r.maw, r.mask, r.tail>>,
   belt |-> r.belt]

OpenRow(w) == IF w.loot.open = 0 THEN <<>> ELSE <<w.loot.rows[w.loot.open]>>
encode_screens(w) ==
  LET up == IF w.phase = "none" THEN "none" ELSE w.site.screen
      grid == [mode |-> w.site.mode, needed |-> w.site.needed, picked |-> w.site.picked]
  IN  CASE w.phase = "reward" -> <<w.loot>>
        [] w.phase = "shop" -> <<w.site>>
        [] w.phase = "dialog" -> <<encode_event(w.ev)>>
        [] w.phase = "treasure" -> <<w.site.size>>
        [] w.phase = "neow" -> <<up, grid, CASE up = "items" -> <<w.loot>> [] up = "card" -> OpenRow(w) [] OTHER -> <<>> >>
        [] w.phase = "chest" -> <<up, w.site.seen, IF w.site.seen THEN w.site.relics ELSE <<>>,
                                  IF up \in {"grid", "items"} THEN <<grid>> ELSE <<>>,
                                  IF up = "items" THEN <<w.loot>> ELSE <<>> >>
        [] w.phase = "rest" -> <<up, UsableOptions(w.run), IF up = "dream" THEN OpenRow(w) ELSE <<>> >>
        [] OTHER -> <<>>

encode_public_view(w) ==
  [phase |-> w.phase, room |-> w.room, pend |-> w.pend, always |-> encode_always_block(w.run),
   screens |-> encode_screens(w), mask |-> legal_actions(w)]

-----------------------------------------------------------------------------
\* The worlds resample.cpp puts in the place of this one.
FaceDownCells_PairedOnly(e) ==         \* mutant: the card face up is moved too
  {i \in DOMAIN e.board : ~e.board[i].taken}

FaceDownCells(e) == {i \in DOMAIN e.board : ~e.board[i].taken /\ e.b # i}
resample_match_and_keep_board(w) ==
  LET e == w.ev
      cells == FaceDownCells(e)
  IN  {[w EXCEPT !.ev.board = [i \in DOMAIN e.board |-> IF i \in cells THEN e.board[p[i]] ELSE e.board[i]]] :
         p \in Bijection(cells, cells)}

Reordered(w, tier) == {[w EXCEPT !.run.pools[tier] = pool] : pool \in SetToSeqs(Range(w.run.pools[tier]))}

\* An unopened boss's chest gives its relics back to the front of the pool and
\* draws them again; a Circlet was none of the pool's.
restore_boss_chest_offers(w) ==
  [w EXCEPT !.run.pools.boss = SelectSeq(w.site.relics, LAMBDA x : x # "circlet") \o @]
redraw_boss_chest_offers(w) ==
  LET rolled == roll_boss_chest(w.run) IN [On(w, rolled.run) EXCEPT !.site.relics = rolled.relics]

\* (Each of the other pools is shuffled too, whatever the room; they are on no
\* screen, and one of them at a time is enough here.)
resample_hidden(w) ==
  CASE w.phase = "dialog" /\ w.ev.id = "MatchAndKeep" -> resample_match_and_keep_board(w)
    [] w.phase = "treasure" -> Filled(w, w.site.size) \cup UNION {Reordered(w, t) : t \in RollTiers}
    [] w.phase = "chest" /\ ~w.site.seen ->
         {redraw_boss_chest_offers(v) : v \in Reordered(restore_boss_chest_offers(w), "boss")}
    [] w.phase = "chest" /\ w.site.seen -> Reordered(w, "boss")
    [] w.phase = "shop" -> UNION {Reordered(w, t) : t \in DOMAIN w.run.pools}
    [] OTHER -> {w}

-----------------------------------------------------------------------------
Live == phase \notin {"map", "over"}
Open(p) == phase = p /\ pend = "none"
Legal == legal_actions(World)

Entered(w) == IF w.phase = "entering" THEN enter_combat(w) ELSE w

Choose ==
  /\ Open("dialog")
  /\ \E o \in Legal.options : \E w \in Chosen(World, o) : Become(Entered(w))

PickCard ==
  /\ Open("dialog")
  /\ \E i \in Legal.deck : \E w \in GridPicked(World, i) : Become(w)

UsePotion ==
  /\ Live
  /\ \E i \in DOMAIN run.belt :
       /\ combat_potion_legal(World, i) \/ noncombat_potion_legal(World, i)
       /\ \E w \in PotionUsed(World, i) : Become(w)

Discard ==
  /\ Live
  /\ \E i \in DOMAIN run.belt :
       potion_discard_legal(World, i) /\ Become(PotionDiscarded(World, i))

GiveCard ==
  /\ pend # "none"
  /\ \E i \in Legal.deck :
       Become(IF pend = "mirror" THEN step_deck_pick(World, i) ELSE step_bottle_pick(World, i))

-----------------------------------------------------------------------------
\* The reward screen has its own phase, or is lent to Neow and the boss's
\* chest; a card row alone is open in Neow's deal and in Dream Catcher's dream.
Selecting == Open("chest") /\ site.screen = "select"
Dreaming == Open("rest") /\ site.screen = "dream"
NeowDeals == Open("neow") /\ site.screen = "card"

Claim ==
  /\ ~Selecting
  /\ \E i \in Legal.claim : \E w \in claim_reward(World, i) : Become(apply_claim_equip_request(w))

TakeCard ==
  \E c \in Legal.cards :
    Become(CASE Dreaming -> DreamTaken(World, c) [] NeowDeals -> CardTaken(World, c)
             [] OTHER -> reward_take_card(World, c))

Sing ==
  /\ "sing" \in Legal.buttons
  /\ Become(CASE Dreaming -> DreamSung(World) [] NeowDeals -> CardSung(World)
              [] OTHER -> reward_sing(World))

Skip ==
  /\ "skip" \in Legal.buttons
  /\ Become(CASE Dreaming -> DreamSkipped(World) [] NeowDeals -> neow_skip_card(World)
              [] OTHER -> reward_skip_card(World))

\* Proceed: from a boss's rewards to his chest, on from a grid that only shows,
\* otherwise out.
Proceed ==
  /\ "proceed" \in Legal.buttons
  /\ \/ /\ phase = "reward"
        /\ Become(IF room = "boss" THEN BossChestEnter(ClearLoot(World))
                  ELSE [ClearLoot(World) EXCEPT !.phase = "map"])
     \/ phase \in {"neow", "chest"} /\ site.screen = "items" /\ Become(ItemsLeft(World))
     \/ phase \in {"neow", "chest"} /\ site.screen = "grid" /\ Become(GridConfirm(World))
     \/ phase = "neow" /\ site.screen = "done" /\ Become(NeowLeaves(World))
     \/ phase = "chest" /\ site.screen \in {"closed", "done"} /\ Become(leave_boss_chest(World))
     \/ phase = "treasure" /\ Become(TreasureLeft(World))
     \/ phase = "shop" /\ Become(ShopLeft(World))

\* A grid that may be closed again, and the boss's chest.
Cancel ==
  /\ "cancel" \in Legal.buttons
  /\ Become(CASE phase = "rest" -> [World EXCEPT !.site.screen = "menu"]
              [] phase = "shop" -> PurgeClosed(World)
              [] phase = "chest" -> close_boss_chest(World))

-----------------------------------------------------------------------------
Rest ==
  /\ Open("rest")
  /\ \/ \E o \in Legal.options : \E w \in RestOption(World, o) : Become(w)
     \/ \E i \in Legal.deck : Become(RestPick(World, i))

Buy ==
  \/ \E i \in Legal.wares : \E w \in shop_buy(World, i) : Become(w)
  \/ "purge" \in Legal.buttons /\ Become(PurgeOpened(World))
  \/ Open("shop") /\ \E i \in Legal.deck : Become(shop_purge_card(World, i))

OpenChest ==
  /\ "open" \in Legal.buttons
  /\ \/ phase = "treasure" /\ \E w \in open_treasure_chest(World) : Become(w)
     \/ phase = "chest" /\ Become(open_boss_chest(World))

PickRelic ==
  /\ Selecting
  /\ \E i \in Legal.claim : \E w \in BossRelicPicked(World, i) : Become(w)

Bless ==
  /\ Open("neow")
  /\ \E b \in Legal.options : \E w \in neow_activate(World, b[1], b[2]) : Become(w)

\* The grid Neow and the boss's chest share.
PickGrid ==
  /\ Open("neow") \/ Open("chest")
  /\ \E i \in Legal.deck : \E w \in neow_grid_pick(World, i) : Become(w)

-----------------------------------------------------------------------------
Happen ==
  /\ Open("fight") /\ FightGoesOn(World)
  /\ \E w \in Happened(World) : Become(w)

EndCommand ==
  /\ Open("fight") /\ fight.mid
  /\ \E w \in CommandEnds(World) : Become(w)

\* The visit is over, or its fight has come to the bound.
Over ==
  /\ ~Live \/ (phase = "fight" /\ ~fight.mid /\ fight.steps >= FightSteps)
  /\ UNCHANGED vars

Next ==
  \/ Choose \/ PickCard \/ UsePotion \/ Discard \/ GiveCard
  \/ Claim \/ TakeCard \/ Sing \/ Skip \/ Proceed \/ Cancel
  \/ Rest \/ Buy \/ OpenChest \/ PickRelic \/ Bless \/ PickGrid
  \/ Happen \/ EndCommand \/ Over

Spec == Init /\ [][Next]_vars

-----------------------------------------------------------------------------
\* Outside a fight a run that is not over has health within its ceiling and no
\* debt, and so does a fight that waits for a command: a dialog, a purchase or
\* a relic that kills or indebts the player ends the run.
LivingRunsHaveHealth ==
  /\ Live /\ phase # "fight" => run.hp \in 1..run.max /\ run.gold >= 0
  /\ phase = "fight" /\ ~fight.mid => fight.hp \in 1..fight.max

\* Whatever screen a room shows, something on it may be chosen: no grid opens on
\* a deck with no card for it, no relic asks for a card the deck has not, no
\* dialog or campfire has every option closed.
WayOut == Live /\ phase # "fight" => Legal # NoChoice

\* Between commands the fight counts on as many Fairies as the belt holds:
\* those a death used up are off the belt, those brewed in the fight or thrown
\* away are counted in and out.
FairiesAgree ==
  phase = "fight" /\ ~fight.mid => fight.armed = Cardinality(BeltFairies(run))

\* Du-Vu Doll's counter, on the run and in the fight, is the number of curses
\* in the deck, wherever the last curse came from.
DollCountsCurses ==
  Owns(run, "doll") => /\ run.doll = Curses(run.deck)
                       /\ phase = "fight" /\ ~fight.mid => fight.doll = run.doll

\* A world the sampler puts in the place of the true one looks the same to the
\* player, down to what may be chosen in it, and is one the run can be in: no
\* relic is both on offer and still in the pool, or twice in either.
LeftInPool(w) ==
  w.run.pools.boss \o (IF w.phase = "chest" THEN SelectSeq(w.site.relics, LAMBDA x : x # "circlet") ELSE <<>>)
ParticlesLookAlike ==
  Live /\ phase # "fight" =>
    \A v \in resample_hidden(World) :
      /\ encode_public_view(v) = encode_public_view(World)
      /\ ~(phase = "chest" /\ site.seen) => IsInjective(LeftInPool(v))

\* The gold of a fight: the purse, what the thieves hold and what the player
\* has earned but not banked.
Wealth(r, f) ==
  r.gold + FoldLeft(LAMBDA sum, t : sum + t.taken, 0, f.thieves) + (f.earned - f.banked)

StolenRows(l) == SelectSeq(l.rows, LAMBDA row : row.kind = "stolen")

\* No gold appears or is lost in a fight, save the twenty a kill may pay (and
\* what a card obtained there pays through Ceramic Fish); and the fight's
\* rewards give back what the dead thieves had taken, no more and no less.
GoldAccounted ==
  [][phase = "fight" /\ ~Owns(run, "ceramic_fish") =>
       /\ Wealth(run', fight') - Wealth(run, fight) \in {0, 20}
       /\ phase' = "reward" /\ ~fight'.smoked =>
            settle_stolen_gold(fight') =
              FoldLeft(LAMBDA sum, row : sum + row.n, 0, StolenRows(loot'))]_vars

\* run_advance.cpp:3157-3159 says that no reward screen opens past a defeat.
NoRewardPastDefeat == phase = "reward" /\ fight.foes # "none" => ~fight.slain

=============================================================================
