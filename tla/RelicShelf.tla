----------------------------- MODULE RelicShelf -----------------------------
(***************************************************************************)
(* The dungeon's relic pools and the door a relic comes through            *)
(* (relic_pools.cpp, relics/relic_pickup_*.cpp).  Each tier's pool was     *)
(* shuffled once, at the start of the run; every draw takes from it for    *)
(* good, a relic the run may not see now included.                         *)
(***************************************************************************)
EXTENDS RunPurse

RollTiers == {"common", "uncommon", "rare"}

\* Where a draw goes on when a tier's pool is empty.
Ladder ==
  [ common   |-> <<"common", "uncommon", "rare">>,
    uncommon |-> <<"uncommon", "rare">>,
    rare     |-> <<"rare">>,
    shop     |-> <<"shop", "uncommon", "rare">>,
    boss     |-> <<"boss">> ]

BottleType == [bottled_flame |-> "attack", bottled_lightning |-> "skill",
               bottled_tornado |-> "power"]
Bottles == DOMAIN BottleType

\* Relics that open a screen when they are picked up.
ScreenRelics == Bottles \cup {"orrery", "cauldron", "dollys_mirror", "pandora",
                              "tiny_house", "astrolabe", "empty_cage", "calling_bell"}

\* The campfire relics, of which a run sees two.
CampfireRelics == {"girya", "peace_pipe", "shovel"}

\* relic_can_spawn: the deck gates of the bottles, the campfire count, and
\* the relics that are never drawn inside a shop.
Spawns(r, x, inShop) ==
  /\ x \in Bottles =>
        \E i \in DOMAIN r.deck : /\ TypeOf(r.deck[i]) = BottleType[x]
                                 /\ x = "bottled_tornado" \/ r.deck[i].k \notin {"strike", "defend", "bash"}
  /\ x \in CampfireRelics => Cardinality(r.relics \cap CampfireRelics) < 2
  /\ x \in {"old_coin", "maw_bank", "the_courier", "smiling_mask"} => ~inShop
  /\ x = "black_blood" => Owns(r, "burning_blood")

\* The places of a tier's pool whose relic may appear.
Spawning(r, pool, inShop) == {i \in DOMAIN pool : Spawns(r, pool[i], inShop)}

\* The place a draw takes, 0 for none: the front one if it may appear, else
\* the rearmost that may (from a boss pool the next in front).
PlaceOf(may, tier) ==
  CASE may = {} -> 0
    [] may # {} /\ (1 \in may \/ tier = "boss") -> CHOOSE i \in may : \A j \in may : i <= j
    [] OTHER -> CHOOSE i \in may : \A j \in may : i >= j

DrawPlace(r, tier, inShop) == PlaceOf(Spawning(r, r.pools[tier], inShop), tier)

\* What a draw at that place leaves: everything passed over is lost.
PoolAfter(pool, tier, at) ==
  CASE at = 0 -> <<>>
    [] at = 1 \/ (at # 0 /\ tier = "boss") -> SubSeq(pool, at + 1, Len(pool))
    [] OTHER -> SubSeq(pool, 2, at - 1)

\* The draw from the rung of the ladder it gets to, the pools above it emptied;
\* a Circlet below the last.
DrawAtRung(r, rungs, n, inShop) ==
  IF n > Len(rungs)
  THEN [got |-> "circlet",
        run |-> [r EXCEPT !.pools = [t \in DOMAIN @ |-> IF t \in ToSet(rungs) THEN <<>> ELSE @[t]]]]
  ELSE LET Drawn(tier, at) ==
             [got |-> r.pools[tier][at],
              run |-> [r EXCEPT !.pools = [t \in DOMAIN @ |->
                         CASE t = tier -> PoolAfter(@[t], t, at)
                           [] t \in {rungs[i] : i \in 1..(n - 1)} -> <<>>
                           [] OTHER -> @[t]]]]
       IN  Drawn(rungs[n], DrawPlace(r, rungs[n], inShop))

\* return_random_relic_key down the ladder of tiers.
DrawRelic(r, tier, inShop) ==
  LET FirstRung(rungs) ==
        CHOOSE n \in 1..(Len(rungs) + 1) :
          /\ n <= Len(rungs) => DrawPlace(r, rungs[n], inShop) # 0
          /\ \A i \in 1..(n - 1) : DrawPlace(r, rungs[i], inShop) = 0
  IN  DrawAtRung(r, Ladder[tier], FirstRung(Ladder[tier]), inShop)

\* return_end_random_relic_key: the shop's restock takes the rearmost relic
\* that may appear, then goes down the ladder from the front.
DrawFromEnd(r, tier, inShop) ==
  LET FromEnd(may) ==
        IF may = {} THEN DrawRelic([r EXCEPT !.pools[tier] = <<>>], tier, inShop)
        ELSE LET at == CHOOSE i \in may : \A j \in may : i >= j
             IN  [got |-> r.pools[tier][at], run |-> [r EXCEPT !.pools[tier] = SubSeq(@, 1, at - 1)]]
  IN  FromEnd(Spawning(r, r.pools[tier], inShop))

\* Again until the relic is not one of those: return_random_screenless_relic
\* wants no screen, return_random_non_campfire_relic_key no campfire relic.
DrawAvoiding(r, tier, avoided) ==
  LET again(d, i) == IF i = 0 \/ d.got \in avoided THEN DrawRelic(d.run, tier, FALSE) ELSE d
  IN  FoldLeft(again, [got |-> "none", run |-> r],
               [i \in 1..(2 * Cardinality(avoided) + 1) |-> i - 1])

Screened == Bottles \cup {"whetstone"}

DrawScreenless(r, tier) == DrawAvoiding(r, tier, Screened)

-----------------------------------------------------------------------------
\* The pickups that act on the run (relic_on_equip); the random ones give
\* several outcomes.
EquippedRuns(r, x) ==
  CASE x = "strawberry"  -> {[r EXCEPT !.max = @ + 7, !.hp = @ + 7]}
    [] x = "pear"        -> {[r EXCEPT !.max = @ + 10, !.hp = @ + 10]}
    [] x = "mango"       -> {[r EXCEPT !.max = @ + 14, !.hp = @ + 14]}
    [] x = "waffle"      -> {[r EXCEPT !.max = @ + 7, !.hp = r.max + 7]}
    [] x = "old_coin"    -> {GainGold(r, 300)}
    [] x = "potion_belt" ->
         {[r EXCEPT !.belt = @ \o [i \in 1..Least(2, BeltCap - Len(@)) |-> "none"]]}
    [] x = "war_paint"   ->
         UpgradeSome(r, {i \in Upgradeable(r) : TypeOf(r.deck[i]) = "skill"}, 2)
    [] x = "whetstone"   ->
         UpgradeSome(r, {i \in Upgradeable(r) : TypeOf(r.deck[i]) = "attack"}, 2)
    [] x = "necronomicon" -> {AddCard(r, "bell")}
    [] x = "doll"        -> {Recounted(r)}
    [] OTHER -> {r}

\* The counter a relic is picked up with.
WithCounter(r, x) ==
  CASE x = "omamori"     -> [r EXCEPT !.charm = 2]
    [] x = "lizard_tail" -> [r EXCEPT !.tail = TRUE]
    [] x = "girya"       -> [r EXCEPT !.lifts = 0]
    [] x = "maw_bank"    -> [r EXCEPT !.maw = TRUE]
    [] x = "matryoshka"  -> [r EXCEPT !.nest = 2]
    [] x = "nloths_mask" -> [r EXCEPT !.mask = TRUE]
    [] OTHER -> r

\* acquire_relic without an equip context: a relic with a screen is refused.
Acquire(r, x) ==
  IF x \in ScreenRelics THEN {r}
  ELSE EquippedRuns(WithCounter([r EXCEPT !.relics = @ \cup {x}], x), x)

\* A second copy of a unique relic is a Circlet.
OrCirclet(r, x) == IF Owns(r, x) THEN "circlet" ELSE x

WithoutCounter(r, x) ==
  CASE x = "omamori"     -> [r EXCEPT !.charm = 0]
    [] x = "lizard_tail" -> [r EXCEPT !.tail = FALSE]
    [] x = "doll"        -> [r EXCEPT !.doll = -1]
    [] OTHER -> r

LoseRelic(r, x) == WithoutCounter([r EXCEPT !.relics = @ \ {x}], x)

\* swap_relic_in_place: no pickup effect, no loss effect.
SwapRelic(r, x, y) == WithCounter([r EXCEPT !.relics = (@ \ {x}) \cup {y}], y)

\* draw_event_relic then acquire_relic: every tier the roll may give.
EventRelicRuns(r) ==
  LET Taken(d) == Acquire(d.run, d.got)
  IN  UNION {Taken(DrawScreenless(r, t)) : t \in RollTiers}

\* A relic and a curse with it: Omamori is asked before the relic comes, which
\* may itself be an Omamori.
RelicWithCurse(r) ==
  LET Asked(barred) ==
        {IF barred THEN q ELSE AddPastOmamori(q, Fresh("regret", 0)) :
           q \in EventRelicRuns(IF barred THEN [r EXCEPT !.charm = @ - 1] ELSE r)}
  IN  Asked(OmamoriBlocks(r, "regret"))

=============================================================================
