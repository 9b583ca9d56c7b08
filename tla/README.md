# SpeedTheSpire in TLA+

SpeedTheSpire is a headless C++ engine that plays Slay the Spire: fights, and
whole runs around them, as a deterministic state machine that a search or a
learner can step millions of times. This directory holds TLA+ models of the
parts of it where *order* matters, TLC configurations that check them on small
instances, and TLAPS proofs of the results that hold for every size.

Source paths below are relative to the repository (`src/engine/...`,
`include/sts/engine/...`). `PROJECT.json` maps every definition that models
code to the lines it models, and lists runs, mutants, hazards and theorems.

## 1. The system

### 1.1 The combat engine

A fight is one plain struct, `CombatState` (`combat_state.hpp`), mutated in
place. The interesting part is not the arithmetic of a card but the *queues*:
an effect is never executed where it is decided, it is queued as an item and
executed later, after others that were queued in between.

| part | state | operations |
|---|---|---|
| action ring (`action_queue.cpp:967-1051`) | 64 slots, head, tail and count, all stored | `add_to_bottom`, `add_to_top`, `pop_action_front`, edit of the front item, clear |
| pump and turn sequence (`action_queue.cpp`) | phase, `turn_has_ended`, `monster_attacks_queued`, the card queue and the monster queue | `pump_step`, `start_of_turn`, `queue_monsters`, the end-of-turn sentinel, the sweep at the end of the fight |
| card play (`card_play.cpp`) | card queue, limbo, energy | `card_can_use`, `resolve_card_play`, the autoplay filing, end-of-turn self-plays |
| piles (`piles.cpp`) | draw, hand, discard, exhaust, limbo | draw with reshuffle, filing, end-of-turn discard |
| interpreter (`interp.cpp`, `interp/`) | everything | one body per opcode of an item |
| powers and relics (`powers/`, `relics/`, hook tables) | amounts | hooks that may queue items or act at once |
| monsters (`monster_*.cpp`, `monster_dispatch.cpp`) | records by slot, next move, flags | `take_turn`, `on_monster_damaged`, spawn, death |
| legality and the batch API (`advance.cpp`) | none of its own | `legal_actions`, `play_is_legal`, `step_one`, `fill_result` |

How they interact: `step_one` validates a verb and queues it; `pump` then runs
`pump_step` until a choice blocks it, the fight is decided, or nothing is left.
One `pump_step` does the first of these that applies: run the item at the
head of the action queue; resolve the head of the card queue (whose effects
become items); call the monsters; let the next monster act (its move becomes
items); start the next turn; wait. Everything a card, a power, a relic or a
monster does goes through the one action queue, at its top or its bottom.

What is hard about it:

* *order*: the items of a monster's own turn are queued before the thorns that
  answer its blow are known; a move forced at once can be overwritten by a
  `ROLL_MOVE` that was queued earlier;
* *stale names*: items and pending turns name a monster by slot, and a spawn
  moves slots; a card play names a target that may be gone when it resolves;
* *intermediate states that look final*: a large slime is dead before its
  children exist; an Awakened One between its lives has no hp;
* *two ways to the same event*: the user and Time Warp can both end a turn;
* *several owners of one card*: autoplayed cards wait in limbo for an item that
  something else may clear away;
* *the end of the fight*: heals and filings that are queued outlive it, and
  what they trigger is sorted again.

### 1.2 The run around the fights

| part | state | operations |
|---|---|---|
| run controller (`run_advance.cpp`) | run phase, floor, act, map position, the fight's copy of the player | enter a room, fold a fight's outcome back, advance an act |
| rewards (`combat_rewards.cpp`, `treasure_rooms.cpp`, `boss_chest.cpp`) | offered items | claim, skip, proceed |
| potions (`potions.cpp`, `run_advance.cpp`) | belt, Fairy counters, an accumulator of brewed potions | obtain, use, discard, revive |
| rest sites, shop, Neow, events | the room's dialog | choose, leave |
| relic pools, master deck, encounters, map | decks and pools drawn from | take, swap, remove |
| random streams (`rng_*.hpp`) | two generators, a counter per stream | next |
| public view, knowledge, sampler (`public_view.cpp`, `knowledge.cpp`, `resample.cpp`) | what is known of the draw pile's order | note a move of a card; project a state to what the player sees; redraw what he does not |

Hard: obligations that cross a fight (stolen gold, brewed potions, cards
obtained, Fairies consumed) are parked in accumulators and settled at command
boundaries; a phase may be left in several ways, and each must settle them
once. A dialog's branch may kill, indebt or open a grid on a deck that has no card for it, and
runs on to its end. What the player knows is kept apart from what is, by every
body that moves a card, and the sampler must redraw all of the rest.

### 1.3 The tools

The oracle bridge (`tools/oracle_bridge`) drives the real game to record
reference runs: a driver process that speaks a line protocol with timeouts and
probes, and an orchestrator that watches heartbeats, kills and restarts it, and
resumes the seeds that were left. Hard: crashes between the steps of a result's
recording, late answers, a heartbeat that is stale although the game is not.
The fuzzer, differ, distribution checks, registry generator and report tools
are offline.

## 2. Plan

Modules in the order in which they were planned; all but the last two items are
*done* and described in section 3.

1. **ActionRing**, **ActionDeque**: the ring and the deque it implements.
2. **CombatState**, **CardEffects**, **CombatPump**, **CombatSafety**,
   **CombatRound**: one fight with its queues; the rounds as abstract
   specification.
3. **RunWalk**, **RunPath**: the phases of a run and what moves between
   them, with a fight as one step; the climb through the acts as abstract
   specification.
4. **MonsterMoves**, **MonsterTurns**, **MonsterFight**: every
   monster's choice of moves, and the slots, turns and items of a field that
   splits, summons, dies and flees.
5. **RunPurse** and what builds on it, up to **RoomVisit**: the run's books, every
   room and dialog, the fight's copies of the books, the belt.
6. **DuelState** up to **Duel**: what the queued items do, hook by hook.
7. **Campaign**, **OracleLink**, **SeedLedger**: driver, game and orchestrator with
   crashes and retries; the ledger of settled seeds as abstract specification.
8. *Left*: **MapGen**, the encounter lists' draws and the random streams, as
   functions against reference definitions. They are pure and tested by golden
   values in the repository, which makes them the least rewarding part.
9. *Left*: the composition of 3 and 5, so that a room starts from a run that has walked
   there instead of an enumerated one.

Theorems still worth proving, beyond those of section 6: `WayOut` (a grid opens only
on a deck that has a card for it, and nothing between the opening and the pick
changes the deck), `GoldAccounted`, and the monsters' `PostureMatchesMove`.

## 3. The models

### ActionRing, ActionDeque

`ActionRing` is the ring as stored: a function of slots, `head`, `tail` and
`count`, with the four operations' own modular arithmetic and the clear of the
terminal sweep, which resets all three. `ActionDeque` is what callers rely on: a
sequence of bounded length with `push` at either end, `pop`, `edit` of the front and
`clear`. `ImplementsDeque` is the refinement, with the contents read off the ring
as the terminal sweep reads them.

### CombatState, CardEffects, CombatPump

One action of `CombatPump` is one branch of `pump_step`, so the interleaving of
the engine (which queue is served when) is the model's own. `Execute` in
`CardEffects` is the opcode switch; the body of an opcode is one operator over the
queue that is left after the pop. The user's verbs are actions of their own,
enabled where `step_one` accepts them.

| code | model |
|---|---|
| `CombatState` | the variables of `CombatState.tla`; queues as sequences, since the ring is proved to be one |
| `pump_step`'s branches | `RunAction`, `RunSentinel`, `RunCardPlay`, `QueueMonsters`, `RunMonster`, `StartSubsequentTurn`, `WaitForUser`, `BlockOnChoice` |
| `resolve_card_play` | `RejectPlay`, `VanishPlay`, `AcceptPlay` |
| `resolve_pending_post_combat_actions_at_terminal` | `BeginTerminal`, `SortItem`, `DrainStep`, `FinishTerminal`, one step per iteration of its loops |
| `execute_opcode` | `Execute` |
| monsters' `take_turn` and `on_damaged` | `MoveProgram`, `AfterDamage`, `Reaction`, `ForcedMove`, `Departing` |
| `step_one`, `step_potion` | `PlayCard`, `Choose`, `EndTurn`, `DrinkChaos`, `DrinkSmoke` |

Control is kept whole; data is abstracted to what control looks at:

* A card has a *kind* that fixes the program it queues. The eight kinds are the
  ones whose programs differ for the queues: an attack, an attack that heals
  (Bite), Havoc, a card that asks for a choice, a power, a card that acts
  at the end of the turn (Burn), an ethereal one, and Normality.
* A monster has a kind too: plain, a spiker (thorns), a large slime and what it
  splits into, the Awakened One and its cultists, the Time Eater, a thief.
* Piles are sets: the order in them comes from a shuffle, so the next card is a
  free choice. All damage is one point, a card costs one energy.
* Where the game's random generator or an omitted number decides (a random
  target, a thief's decision to run), the model chooses freely.
* `pre_turn_actions` is left out: nothing in `src/engine` calls its
  `add_to_turn_start`. Relics other than Unceasing Top and the amounts of powers are
  `Duel`'s, and a Fairy's revive is `FightLedger`'s.
* `monsters[i].id` is the model's own name of a record. The code has none; the
  refinement needs one because slots move.

### CombatRound

What a fight promises at the level of rounds, with no queue in it: a turn is
ended, every monster then in the fight is owed one turn, and the next round
starts when none is owed. `CombatSafety!ImplementsRounds` maps the four flags
and the monster queue onto it.

### CombatSafety, MCCombat

`CombatSafety` states the properties, each with the code it is about.
`MCCombat` holds the decks and encounters; every `.cfg` picks the ones that make
one hard case happen.

The proofs are in `Combat_proofs`, in three parts that build on each other: types and
death; where the cards are; monsters, turns and rounds.

### RunWalk, RunPath

`RunWalk` is the run around the fights: where it stands (`act`, `floor`, the kind of
`room`), in which `phase`, how far the act's encounter lists are used up, and the
keys. What is decided inside a room in one step here:

| code | model |
|---|---|
| `next_room_transition_impl`, `on_player_entry_impl` | `NextRoomTransition`, `UseUpEncounter`, `OnPlayerEntry`: one action, with the row's kinds, the roll of a "?" and the phase a room opens in as choices |
| `act_transition`, `on_boss_chest_proceed`, `act4_crossing` | `ActTransition` in `LeaveBossChest` and `Act4Crossing` |
| `finish_combat_after_action`, `step_potion`'s Smoke Bomb | `LoseFight`, `WinLastBoss`, `WinHeart`, `ReopenDialog`, `EnterCombatReward`, `DrinkSmokeBomb` |
| `step_one` by phase | `ChooseNode`, `ChooseBoss`, `ProceedFromReward`, `LeaveShop`, ... |
| the dialogs | the Colosseum and the Spire Heart by screen; every other event is `Plain`, which may finish, fight, put a reward up or kill |

Abstracted: the map (a row's node may be of any kind `assign_room_types` can put
there, so Wing Boots need no case of their own; what has to hold holds for every
map), hit points, gold, deck, relics and potions; an elite of an act may or may not be
the burning one; a Smoke Bomb is always at hand. Steps inside a screen
that change none of the variables (picking a card, buying) are left out.

`RunPath` is what a run promises: stops are climbed in order, the boss rooms
stand behind the last row, one or two of them, the chest or the Spire Heart behind
those, and a run that is over stays over. `ClimbsThePath` maps floor and height to
stops, which is where the different height of act 4 and the second boss of act 3
can go wrong.

### MonsterMoves, MonsterTurns, MonsterFight, MCMonsters

The monsters of `monster_*.cpp` and the dispatch tables. A record keeps what its
routines read: identity, next and past moves, three levels of hit points (well, half or
below, none), the flags and powers that steer moves, its place `x` on the
screen.

| code | model |
|---|---|
| `get_move` / `roll_move` of each monster | one operator each in `MonsterMoves`, giving the set of moves any chain of throws may end with |
| `monster_init_fn`, `monster_pre_battle_fn`, `monster_roll_move_fn` | `Opened`, `PreBattle`, `Chosen` and their parts in `MonsterTurns` |
| `take_turn` | what changes at once and what is queued, in `MonsterTurns` |
| `on_monster_damaged`, `monster_die_fn`, `monster_die_after_fn` | `Damaged`, `Vetoed`, `Died` |
| `queue_rally`, `queue_spawn_daggers`, `queue_split` and the like | `Planned`, `Summons`, `Split` |
| `spawn_monster_at_slot`, the monster queue | `Spawned`, `RunItem`, `NextTurn` |

The player is reduced to a source of blows (`Strike`, and thorns in answer to a
monster's own blow). Items and turns carry the slot, as in the code, and a
ghost `who`, the record they were meant for, which only the properties read.
`GroupsAssumption` says that an encounter is a list of ids, `CastAssumption` what the
encounter tables and the leader's pool of gremlins say of leaders: they have no company
but minions, and a call brings gremlins.

### The rooms: RunPurse to RoomVisit, MCRooms

One record `w` holds the run, the phase, the open dialog, the open reward screen, what the
room keeps, and the fight's ledger; a command of the player is one action of
`RoomVisit`. Every branch of a dialog is an operator that yields the set of worlds
its random draws may lead to.

| module | code |
|---|---|
| `RunPurse` | `run_state.hpp`, `run_deck.cpp`: health, gold, the belt, and the deck's door with the relics that answer it |
| `RelicShelf` | `relic_pools.cpp`, `relics/relic_pickup_*.cpp` |
| `RunWorld` | the controller's record, `event_framework.cpp`: dialogs, grids, leaving |
| `ActEvents`, `ShrineEvents` | `events/*.cpp`, every dialog screen by screen |
| `RewardScreen` | `combat_rewards.cpp`, the reward phase, the screens relics open |
| `NeowBlessing`, `QuietRooms`, `Merchant` | `neow.cpp`; `rest_sites.cpp`, `treasure_rooms.cpp`, `boss_chest.cpp`; `shop.cpp` |
| `FightLedger` | the boundary of a command in a fight: `finish_combat_after_action`, `drain_pending_obtains`, the settling of gold, Fairies, relic counters; `step_potion`, `step_discard_potion`, in and out of a fight |
| `RoomVisit` | `step_one` by phase, `legal_actions` (the operator of that name), the event pools' gates, `public_view.cpp`'s run part, `resample.cpp` |

Abstracted: a card is its kind, whether it is upgraded and bottled; a relic or a potion is
in the model when some branch asks for it, and `plain` stands for the
potions that work only inside a fight. A gold roll gives one value, a shop price is the
middle of its range and the stock has four slots for thirteen; percentages, floats in the code,
are exact rationals, cut where the code cuts. The floors and acts that some
events' gates ask for are left to `RunWalk`. A fight is
what its books see: gold earned and stolen, health lost and gained, cards and
potions obtained, Fairies consumed, the end. Potions at the map, between rooms,
are left out.

Each draw is made in one step, so an action of `RoomVisit` is one command with all it
calls; `VisitsAssumption` says of the enumerated visits what every entry to a room finds: a run that is
alive, with Du-Vu Doll's counter true, a room that can be entered, an event that exists.
The proofs are in `RoomEvents_proofs` (the run's books and the events' dialogs) and
`RoomVisit_proofs` (the other rooms, rewards, potions, the fight's books, the visit).

The public view and the sampler: `encode_public_view` gives what the player may see of a
world, `resample_hidden` the worlds a search may put in its place. One hidden pool is
shuffled at a time, which is enough to tell a missing row apart.

### DuelState to Duel, MCDuel

`CombatPump` asks who may move when; `Duel` asks what the items, hooks and
choices *do*, with powers, relics and cards by name. A fight is one record
`f`, and each operator is a function from fights to fights, as in the code.

| module | code |
|---|---|
| `DuelState` | the lists of powers and relics, costs and flags of cards, `back_attack.cpp` |
| `DuelPowers` | `powers/*.cpp`, `power_hooks.cpp`: one operator per power hook |
| `DuelRelics` | `relics/relics_*.cpp`, `relic_hooks.cpp`: one operator per relic hook |
| `DuelBlows` | `interp_damage.cpp`, `interp_block.cpp`, `interp_powers.cpp` |
| `DuelCards` | `interp_cards.cpp`, `piles.cpp`, `knowledge.cpp` |
| `DuelChoices` | the choices and offers of `interp_cards.cpp`, `potions.cpp`, `resample_draw_order`, the combat part of `public_view.cpp` |
| `Duel` | the programs of the cards, `queue_effect_step`, the opcode switch, `start_of_turn`, `enter_combat` and the overflow draw, the two guards' turns |

Abstracted: one die is thrown a step and serves all draws of that step; a shuffle is
a rotation by the die; an offer comes from a pool of one or two cards;
monsters' moves are drawn from a small set per kind. The Spire's Shield and Spear, whose
deaths and markers matter here, draw from the set of their moves and
`MonsterMoves` has their cycle. No other foe has a script at its death. Nothing
damages without a source (the Explosive Potion is left out; Fruit Juice, Entropic
Brew and the Smoke Bomb are in `FightLedger`). The end-of-fight drain handles one item a
step and drops the items that do not survive it; its bound
`kTerminalDrainSteps` and plays queued behind the end of the turn are left out, and
so is the Runic Dome. How many innate cards overflow the first hand is reckoned when the fight is made.

### Campaign, OracleLink, SeedLedger, MCCampaign

`OracleLink` is one recorded run over the pipe: driver, game and mod, with lost
readiness, late answers, probes and bounded retries (`Stepper.step`, `run_seed`).
The game is external, modelled by what the driver relies on. `Campaign` puts it
inside the driver's loop over the seeds (run file, ledger on disk, restart
request) and adds the orchestrator that launches, polls and kills. The ledger is
replaced atomically (`os.replace`), everything else may be cut short: a crash of
the game, a failed write, an error of the driver, a drift of the environment, a stall
seen by the orchestrator, the orchestrator's own stop are all *faults*, at most
`MaxFaults` of them. `SeedLedger` is the promise: seeds are settled in order, once, for
good, and the campaign is accepted only when every seed has its run.

The heartbeat's age is not modelled: a stall may be seen of any launch within the
budget, and is always seen of a driver that has exited. Left out too: the campaign's timeout
and the checks that a resumed campaign is the same one.

## 4. The runs

| run | distinct states | shows |
|---|---|---|
| `ring` | 320 | counters agree and the ring is the deque, with capacity 4 and two items: wraps at both ends, full and empty |
| `autoplay` | 656 695 | Havoc and Distilled Chaos with rejected, nested and targetless plays, a choice, a Burn, a power, and Unceasing Top refilling: no card is stranded, lost or in two places, Havoc's mark ends with its play, and every resolution comes to rest |
| `rounds` | 227 681 | large slimes, an Awakened One and its cultist, thieves and a spiker, or the Time Eater, against a player with thorns, a Smoke Bomb and a Distilled Chaos: every monster acts once a round, a turn ends once, the fight is not won between death and spawn or between two lives, a forced move is not rolled away, the dead stay dead |
| `run_walk` | 167 807 | every walk with two bosses in act 3: the encounter lists last, no stop is skipped or doubled, bosses stand where they are due and differ, act 4 needs three keys, a run that is driven on ends |
| `monsters` | 72 827 | forty-nine encounters: every item and turn names the record it was meant for, the queue of turns holds its five, minions fall with their leader, moves fit postures, the half-dead rise |
| `rooms` | 1 296 859 | every dialog, room and eighteen fights' books: living runs have health and a way out, Fairies, curses and gold agree in both books, and the sampler's worlds look alike |
| `duel` | 843 769 | nineteen fights and one per potion: markers and lent Strength are exact, cards are in one place, Buffer and prices are paid, what is known of the draw pile is true |
| `campaign` | 1 224 601 | two seeds, two attempts, any two faults: the ledger is `SeedLedger`'s, a settled seed has its run, the campaign ends |
| `stranded_card`, `slavers_smoked`, `reward_past_defeat`, `regen_skips` | – | expected violations, see section 5 |

A few properties are conjunctions of named parts: `MarksExact` is `RedSkullExact /\
MarkersMatchFacing`, `LedgerTrue` is `DoneHasRun /\ NothingToLose`,
`CardsInPlace`, `PricesKept` and `KnowledgeSound` have theirs beside them. `RedSkullExact`
is about the bit by which Red Skull counts itself active; that its three Strength stand
while the bit does is `BorrowedStrength`.

### Bounds

*Combat runs.* `MaxTurn` (3, 4) stops the *user*, not the engine, so each run ends with
a fully resolved round; four turns are two full cycles of the longest monster
routine modelled (down, rise, act, die). Decks of four to six cards put every
kind in hand together with every other it interacts with; two or three hp per monster
let a hit leave it alive, at half, and dead. Time Warp's limit is 2 instead of 12
so that it strikes inside one turn's plays; the limit is a parameter of the code's
comparison only. `played` stops counting at Normality's limit, the last value any
guard tells apart. The queues of this model have no capacity; the code's have (64
items, 5 monster turns) and only debug assertions behind them. The monsters' turns are
checked against their five in `monsters` (`FieldFits`).

*`run_walk`* needs no bound: four acts are all there are; it has two bosses in act
3, the harder case for the lists and the heights, and the theorems cover the other.

*`monsters`.* `MaxRecords` caps the field at six records, enough for a split of a split and for summons
beside their leader; the player strikes only while at most `MaxPending` = 2 items wait, so a blow
can fall into the middle of what a move queued. One draw stands for an encounter that draws its monsters.

*`rooms`.* `DeckCap` 10, `BeltCap` 3, `FightSteps` 3 happenings in a fight,
`MatchAttempts` 1 try at Match and Keep, `SkullAsks` 2 requests of the Knowing Skull,
`GiftRows` 2 rows of an Orrery or a Cauldron for five. Random cards, curses and potions are two each, one that
a relic answers and one that none does. A visit is one room: what a room leaves behind for a
later one is in the enumerated runs (near death, cursed, laden, with each relic that
changes a branch).

*`duel`.* Two turns of two cards by hand (`TurnCap`, `PlayCap`), which is enough for
an effect of one turn to be set, to outlast its end and to be taken back; autoplays,
choices and potions are not counted. `HandCap` 6 and `PowerCap` 8 for 10 and more, so that both fill
up; dice of two faces (`Faces`). `Countdown` 3 (Time Warp's 12), `PanacheCards` 2 (for 5) and
`CalendarDay` 2 (for 7) bring those counters to their end inside a fight; `Blast` is the code's 30;
`ActNumber` 1 sets the burning elite's numbers.

*`campaign`.* `MaxFaults` 2 is what separates a retry from a retry of a retry;
`MaxLaunches` 8 is never the reason to stop within it. `MaxActions`, `MaxNoops`,
`MaxErrors` (1) and `MaxStuck` (2) are the driver's own limits.

Deadlock is not checked where a thing that is over stops, or a user that has used up
his bound: the combat runs, `run_walk`, `duel`, `monsters`, `campaign`. `rooms` checks it: a
visit that is over stutters by an action of its own.

### Fairness

`CombatPump!FairSpec` assumes weak fairness of the pump (and of
`begin_first_turn`) because `pump()` is a `while` loop in the calling thread: it
takes the next step as long as there is one. Nothing obliges the user to act,
so no fairness is assumed of the verbs. `RunWalk!FairSpec` assumes weak fairness of
the whole next-state relation: whoever calls `advance()` gives every run that is
not terminal an action. It assumes of a fight that it ends, since a fight is one
step, and of a player that he does not pass for ever over what is legal.
`MonsterFight!Spec` assumes the pump (`PumpRuns` is its weak fairness with the ENABLED
written out) and strong fairness of the end of the player's turn: his cards run
out, again and again. `Campaign!FairSpec` assumes weak fairness of the two
programs and of no fault.

Every property has a mutant: a definition of the model changed the way a
plausible bug in the code would change it (the forgotten filing of a rejected
autoplay, a spawn that does not move the pending turns, a clear that keeps the
tail), on which TLC finds the property violated. Mutated definitions stand
beside the original, marked *mutant*.

## 5. Where code and documentation disagree

Each of the first four has a run whose violation shows it.

* **A card can be stranded in limbo** (`stranded_card`). Time Warp ends the turn
  inside `USE_CARD` and zeroes the card queue (`interp.cpp:392`). A card that Havoc
  or Distilled Chaos has already moved to limbo and queued then has nothing
  left that files it, and it stays there until the fight ends. The comment above
  says that nothing in Acts 1-3 reaches this and that limbo "holds the ONE card
  currently resolving"; a Distilled Chaos against a Time Eater does.
* **A Smoke Bomb leaves the Colosseum for good** (`slavers_smoked`). The Slavers' fight
  must return to its dialog, in which the second fight is offered; the comment at
  `run_advance.cpp:3468` and a test of that name say that a Smoke Bomb does so too.
  `USE_POTION` takes `step_potion`'s own branch, which enters the reward screen
  without asking `event_combat_reopens`. The test sets the flags by hand and ends the fight
  through `finish_combat_after_action`, the one path that asks.
* **A lost fight can be settled as won** (`reward_past_defeat`). `drain_pending_obtains`
  (`run_advance.cpp:921`) adds the cards obtained in a command to the deck before the
  defeat is looked for; Darkstone Periapt, or Ceramic Fish with Bloody Idol, then raises the fallen
  player's health above zero. The comment at 3157-3159 says no reward screen opens past a defeat.
* **The last stack of Regeneration makes the walk skip a power** (`regen_skips`).
  `power_native_regen` removes its own slot at once (`power_regen.cpp:111-117`) while
  `dispatch_actor_powers` walks the list by index; its comment
  (`power_hooks.cpp:114-116`) says that no body does so. Rage behind it lasts a turn longer than
  `powers.yaml:193` says.

Met while modelling, without a run:

* With only a half-dead Awakened One in the fight, `legal_actions` leaves a targeted card playable with
  an empty row, which `play_is_legal` (`advance.cpp:421-434`) reads as "takes no target";
  `advance.hpp:116-119` says such a card is legal only against a live slot.
* After a timeout the driver takes any message as the answer to its probe
  (`campaign_driver.py:442-450`); the late answer and the probe's are not numbered, so the
  lockstep that `driver/README.md:195-197` describes rests on delays.
* `public_view.cpp:176-214` masks the rolls that Dead Adventurer and The Joust have parked in their
  scratch words; `resample_hidden` does not redraw them, although `resample.hpp:5-7, 38-40` says every hidden quantity is.
* `op_random_card_to_draw` (`interp_cards.cpp:1856-1922`) inserts into the draw pile at random without
  telling `knowledge.cpp`, whose header lists "Random-position insertion" among the events. Modelled as it
  is (`SlippedIn`); no fight of `duel` has such a card together with a known order.
* An `ARTIFACT` slot of amount 0 stays in the list until its queued removal, and bodies that ask for the
  slot's presence see it (`power_hooks.cpp:519-534` against `power_sadistic.cpp:45`, `power_shifting.cpp:62`).
* A Void drawn at no energy leaves −1 (`interp.cpp:157-161`).
* `advance.hpp:83-84` says the player opens with every innate card in hand; Mark of Pain's Wounds may be
  shuffled in among them before the overflow is drawn.

## 6. What is proved

The theorems hold for every value of the constants under the modules' named
assumptions (`ASSUME`), which only say what the code's types say: capacities
are positive, a deck is finite, an encounter is a sequence (in the pump's model not an empty one), act 3 has a
second boss or not, a visit is entered by a living run.

**ActionRing_proofs** (any capacity, any items):

* `TypeCorrect` — the counters stay in range and the slots hold items.
* `TailCorrect` — the stored `tail` always equals `head + count` modulo the
  capacity. Not inductive alone: an operation's new tail depends on the range of
  the counters, so the invariant is the conjunction with the type.
* `RingImplementsDeque` — the ring refines the deque. Lemmas locate the item at
  distance *k* from the head, with the two wraps as tests for the end of the array;
  one lemma per operation shows that the contents change as the deque's do.

**Combat_proofs, types and death** (any deck, encounter, numbers of cards, hp and energy):

* `CombatTypeCorrect` — every variable keeps its type. This is where energy does not
  go below zero, the Time Warp clock stays below its limit and the player's hp in range.
  The strengthening: a queued `SPAWN_MONSTER` never names slot 0 (`GoodItem`),
  or the spawn would copy a record that does not exist; the two lists of the terminal
  sweep hold such items too, because their items come back into the queue. One
  lemma per opcode, one per step of the pump, one per verb.
* `DeathIsFinal` — no step brings a dead player back. It needs no invariant: only
  the pump's and the sweep's execution of an item change hp, the first is guarded by
  the fight being undecided and the second by the player being alive.

**Combat_proofs, the cards** (same constants):

* `CardsInOnePile`, `HavocMarksEnd`, `NoCardLost` — a card is in one pile; Havoc's mark
  is on no card that could be played again; a step loses a card by the two rules
  only. None is inductive: filing a card from limbo keeps the piles apart only if it
  *is* in limbo and nothing else files it too. So `PileInv` adds, while the pump
  resolves plays (`Working`), that every card named in the card queue is in limbo
  (the user's own play at the head may still be in the hand), that every card a queued
  item files is in limbo, and that no card is named twice, in one queue or in both
  (`Claims`); and that nothing is queued while the engine waits for a verb (`Rest`).
  During the terminal sweep the queues may lie, and the piles do not change.
* `CardsAreFiled` — where no encounter has an Awakened One or a Time Eater, every card
  in limbo is named by the play or the item that will take it out, in one of the two
  queues or in the sweep's two lists (`Filed`). The hypothesis is on the encounters
  only, and needed: these two empty the card queue, and `stranded_card` shows a card
  left behind.

**Combat_proofs, monsters and turns** (same constants):

* `ForcedMovesAreKept` — a half-dead Awakened One will rise, a large slime at half its
  health will split. The invariant (`Forced`) says *who has the last word*: the
  record has its forced move and no roll for it is queued, or a `SET_MOVE` (or the
  rebirth's heal) for it is queued with no roll behind it. It needs to know what stands
  in the queue when a roll is queued: what a choice holds up (`Choosing`), that a
  large slime's split is queued in one piece (`SplitUnderway`), which kinds of
  monster are half dead, split or run (`KindsSound`).
* `FightsEndDecided` — a fight that is over is decided. While it goes on with the
  cannot-lose flag up, an Awakened One is not down or the item that lowers the flag
  is queued (`StaysUp`; no Awakened One ever leaves, `NoEscape`); in the terminal sweep
  of a victory nothing can join or raise the flag again (`SweepDecided`).
* `OneEndPerTurn` — no second end of turn. A sentinel in the card queue, and a card
  whose filing could make Time Warp queue one, exist only in the user's own turn
  (`StopsInUsersTurn`, `UsesInUsersTurn`); between the sentinel and the call of
  the monsters exactly one item that ends the turn is queued (`EndIsQueued`).
* `RoundsAreImplemented` — the flags and the queue of monsters implement `CombatRound`,
  a spawn that moves pending turns to other slots included. On top of the rest:
  every record has a number of its own and no slot is owed two turns (`IdInv`).

**RunWalk_proofs** (one boss in act 3 or two):

* `RunTypeCorrect`, `ListsLast`, `KeysBeforeTheDoor`, `SecondBossIsNew`, and `ClimbRefined`,
  the refinement of `RunPath`, from one inductive invariant `IInv`. None of them is
  inductive: a list lasts only because the stop fixes how many rooms of it can lie
  behind, and the stop says so only if the room on it is one the stop allows. So the
  invariant says, stop by stop, which rooms and phases are possible (`Placed`), bounds
  the cursors by the stop (`Counted`: equality for the bosses, which is how the code
  knows whether a second boss waits), ties the Heart's screens to its room
  (`HeartHere`) and the open door to the keys (`KeysHeld`). Every step stays in the
  room, goes on to a room that *fits* the next stop, or changes the act
  (`Steps`); there is one lemma for each of the three.

**MonsterFight_proofs** (any encounters, any bounds on records and on what waits):

* `AimTrue` — the next item and the next turn name the record they were queued for. Not
  inductive: a spawn moves the records behind it, and the items of the same summons were
  given their slots *before* any of it ran. `Aimed` therefore distinguishes two kinds of
  queue. Mostly *every* item and turn aims true now (`AllStraight`, `TurnsAim`), and nothing that
  waits makes a record. On the monsters' turn the queue may instead be the rest of a
  split or a summons (`Owed`): there is a list of names for every place of the queue,
  each is the one before with the new record inserted if the item between them is a
  spawn (`After`), and every item aims true in the names it will find (`Fits`). That a
  summons lays out such a queue needs that its plan follows the summoner's own record
  from insertion to insertion (`PlanStep`); that a spawn keeps one, that a MINION
  queued at the bottom is given the slot where the spawns that wait will leave the new
  record (`SettledFacts`), and that turns follow their records (`TurnsPushed`).
  All of it stands on the fact that no routine, hook or death changes a record's name:
  one lemma per routine, of which the dispatch lemmas `ChosenKeeps` and `TurnedIs` are made.
* `OrphansNone` — no minion outlives its leader. `Cast` says which fights there are: one that
  has no leader and in which nothing that waits makes one (`Common`), or one leader and its
  minions (`Company`). There the leader lives, and all that waits is blows, moves and summons
  of minions (`Reigns`); or it has fallen, no summons is on its way, and for each
  minion that still lives an item waits that takes it from the fight (`Fallen`, `Doomed`). The
  step that needs both invariants is the leader's death: the sweep names the slots of
  those that are there *then*, so it is right only because a death never falls between the spawns of
  a summons, which `Aimed` knows: an item that deals a blow runs only when everything that waits
  aims true (`AttendedDeath`, `AttendedExecuted`). An item that takes a
  minion leaves the queue in the same step in which the minion goes (`AttendedTail`, `Taken`).

**Campaign_proofs** (any list of seeds without repetition, any budgets of attempts,
launches and faults; nothing of the pipe but the outcome of a run is used):

* `SettledSeedsAreKept` — `LedgerTrue`. The invariant `LedgerInv` has two halves. Each
  copy of the ledger (file, driver, orchestrator's poll) is sound by itself
  (`SoundLedger`): its rows are the seeds of a first part of the list, none of them
  done and failed, in list order while none has failed, the seed under way is the next
  one, and a closing status tells the truth. And the copies differ in one way
  only: the driver's *is* the file's while it plays, and after a failed write at most
  one row ahead of it (`Grown`), with the run file of every row, written or not yet,
  closed; the orchestrator's copy only lags. Every step of the driver on the ledger is
  shown to be one kind of write (`Write`), one lemma per step, and one lemma shows
  that a write keeps the invariant.
* `LedgerIsImplemented` — a reader of the file sees `SeedLedger`. A write settles the
  next open seed or none (`WriteSettles`), and a verdict over a copy that lags is right of the
  file because settled seeds stay settled (`VerdictStands`).

**FoldFacts, RoomEvents_proofs, RoomVisit_proofs** (any set of runs and visits that
`VisitsAssumption` allows, any random cards, curses and potions, any caps):

* `VisitSound` — in every phase of a visit `Sound` holds: the run is in order, and what the
  phase relies on is there. It is the inductive invariant of the three theorems below, none of which is
  inductive. *In order* (`RunOK`) means: health at most its maximum, no debt, a deck of cards,
  and Du-Vu Doll's counter equal to the number of curses. *What a phase relies on*: an
  open dialog is on one of its event's own pages with a grid that this event opens, and what
  the event has written down for a later page still holds of the run
  (`SpecialOf`: the gold that World of Goop will take, the cards that Falling and We Meet Again
  have picked by their place in the deck, the slots of the Wheel); an entry to a fight keeps the
  dialog it will return to without a grid (`EntryOK`); a shop's wares have prices; a grid of Neow or the
  boss's chest has a mode; a reward screen's open row is a row. In a fight two books are
  kept: the run's and the ledger's, which may disagree in the middle of a command
  only (`Fighting`), and by how much is bounded: the armed Fairies are at most the belt's, since a death uses
  them up before the belt is cleared, what was banked is at most what was earned, the maximum of health only grows.
* `LivingHaveHealth` — nobody goes on without health or in debt. One lemma per event says
  that each of its answers leaves a world that is `Safe`: it ends the run, or has health left.
* `FairiesCounted` and `DollCounted` — the two counts that a fight copies are the run's again
  between two commands, after Fairies were used up, brewed and thrown away in the same command, and after
  curses came in through the deck's door with its relics (Omamori, Darkstone Periapt, Ceramic Fish).

  These four rest on what *folds* do: cards obtained one by one through the door, cards taken
  out from the back so that places stay true, Fairies burned from the left of the belt, potions brewed,
  thieves settled. The library's induction theorems take the hypothesis as an operator, which none of
  the installed provers instantiates; `FoldFacts` goes round that. It proves induction over the naturals for a
  *set* (`SetInduction`, from well-foundedness), shows that a left fold passes through the
  values its steps give (`FoldSteps`) and that it keeps what every step keeps (`FoldKeeps`), with the step and
  what is kept as CONSTANTS of the module. Each fold of the model then is an instance of the
  module with operators of its own (`AddFold`, `DropFold`, `BrewFold`, ..., and `PlanFold` and
  `SettleFold` of MonsterFight_proofs).

Only model-checked: `WayOut`, `GoldAccounted`, `ParticlesLookAlike`, the monsters' `FieldFits`
and `PostureMatchesMove`, and the properties of the duel. `WayOut` needs, page by page,
which options are open, a second round through sixty dialogs. `GoldAccounted` compares a sum over the
thieves at the end of a fight with the steals one by one; `ParticlesLookAlike` compares two
projections of some thirty fields each, over every screen. `FieldFits` is true of the encounters of the
game, not of any list of ids; `PostureMatchesMove` needs to know what may wait
in the queue beside an interrupt, for each kind of monster. The duel's
invariants go through the walks over lists of powers and relics, in which every hook of `DuelPowers` and
`DuelRelics` has a part.
Out of the prover's reach, and left to TLC for good: liveness
(`PumpSettles`, `RunEnds`, `HalfDeadRises`, `CampaignEnds`), anything that needs `ENABLED`, and
modules with `RECURSIVE` operators, of which this project has none.

## 7. What is not modelled

* *Left of the plan*: how encounter lists, map paths and event odds are drawn; the
  streams' counters; the composition of the walk with the rooms (acts and floors in the events' gates, the
  branches behind the bosses of act 3 and 4, which are `RunWalk`'s alone).
* *Of the monsters*: block, damage numbers and the powers that steer no move, the relic
  hooks of a spawn, the assertion behind the cap on records.
* *Of the duel*: the cards and relics that no fight of `MCDuel` needs and that are made of the
  same steps and hooks as the others, and what section 3 lists.
* *Of the tools*: the campaign's timeout, the identity checks and the heartbeat's age;
  the planner, the replay and the translator, which convert recordings offline; the
  fuzzer, differ and distribution checks, which compare the engine with itself; the registry's
  generator; the game's mod beyond its line protocol (the game is not in the repository).
* *For good*: hashes, byte classes, schema and seed strings (pure encodings of data the
  models abstract away), the two generators' 64-bit arithmetic, and the batch loop (each state
  is stepped alone and shares nothing with the others).

`PROJECT.json` lists the components with their status.
