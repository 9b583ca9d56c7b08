---------------------------- MODULE ShrineEvents ----------------------------
(***************************************************************************)
(* The dialogs a shrine roll may give: the six shrines                     *)
(* (events/shrines.cpp) and the one-time dialogs, the five the later acts  *)
(* add (events/city_one_timers.cpp) and those of every act                 *)
(* (events/one_time_specials.cpp).                                         *)
(***************************************************************************)
EXTENDS RunWorld

CONSTANTS
    MatchKinds,     \* the pairs laid out by Match and Keep (six in the game)
    MatchAttempts,  \* the tries it allows (kMatchAttempts)
    SkullAsks       \* bound: how often the Skull is asked for each of its gifts

\* There are more pairs than tries (kMatchAttempts is five): cards are left to
\* turn over while a try is.
ASSUME ShrineAssumption ==
  /\ IsFiniteSet(MatchKinds) /\ MatchKinds \subseteq DOMAIN CardDef
  /\ MatchAttempts \in 1..(Cardinality(MatchKinds) - 1)
  /\ SkullAsks \in Nat

\* Match and Keep: a tries are left, b is the card face up (0 when none), and
\* the board holds every kind twice.
MatchEnter(w) ==
  LET cells == 1..(2 * Cardinality(MatchKinds))
      deals == {f \in [cells -> MatchKinds] :
                  \A k \in MatchKinds : Cardinality({i \in cells : f[i] = k}) = 2}
  IN  {[w EXCEPT !.ev.board = [i \in cells |-> [k |-> f[i], taken |-> FALSE]],
                 !.ev.a = MatchAttempts] : f \in deals}

\* Options count from 0, the cells of the board from 1.
MatchAndKeepMenu(w) ==
  IF w.ev.screen # 2 THEN {0}
  ELSE {i - 1 : i \in {i \in DOMAIN w.ev.board : ~w.ev.board[i].taken /\ w.ev.b # i}}

MatchAndKeep(w, o) ==
  LET i == o + 1
      first == w.ev.b
      pair == w.ev.board[first].k = w.ev.board[i].k
      matched == On([w EXCEPT !.ev.board[first].taken = TRUE, !.ev.board[i].taken = TRUE],
                    AddCard(w.run, w.ev.board[i].k))
      tried == [(IF pair THEN matched ELSE w) EXCEPT !.ev.a = @ - 1, !.ev.b = 0]
  IN  CASE w.ev.screen < 2 -> {At(w, w.ev.screen + 1)}
        [] w.ev.screen > 2 -> Leave(w)
        [] w.ev.screen = 2 /\ first = 0 -> {[w EXCEPT !.ev.b = i]}
        [] w.ev.screen = 2 /\ first # 0 -> {IF tried.ev.a <= 0 THEN At(tried, 3) ELSE tried}

-----------------------------------------------------------------------------
GoldenShrineMenu(w) == IF w.ev.screen = 0 THEN {0, 1, 2} ELSE {0}

GoldenShrine(w, o) ==
  IF w.ev.screen # 0 THEN Leave(w)
  ELSE CASE o = 0 -> Turn(w, 1, {GainGold(w.run, IF w.run.hard THEN 50 ELSE 100)})
         [] o = 1 -> Turn(w, 1, {AddCard(GainGold(w.run, 275), "regret")})
         [] o = 2 -> {At(w, 1)}

-----------------------------------------------------------------------------
\* Transmogrifier, Purifier and the Upgrade Shrine: a grid, when the deck has
\* a card for it.
Shrine(w, o, kind) ==
  IF w.ev.screen # 0 THEN Leave(w)
  ELSE {IF o = 0 /\ grid_has_card(w.run, kind) THEN OpenGrid(At(w, 1), kind) ELSE At(w, 1)}

TransmogrifierMenu(w) == IF w.ev.screen = 0 THEN {0, 1} ELSE {0}
Transmogrifier(w, o) == Shrine(w, o, "transformable")

PurifierMenu(w) == IF w.ev.screen = 0 THEN {0, 1} ELSE {0}
Purifier(w, o) == Shrine(w, o, "purge")

UpgradeShrineMenu(w) ==
  IF w.ev.screen # 0 THEN {0} ELSE {1} \cup {o \in {0} : grid_has_card(w.run, "upgrade")}
UpgradeShrine(w, o) == Shrine(w, o, "upgrade")

-----------------------------------------------------------------------------
\* Wheel of Change: a is the field the wheel stopped at.
WheelMenu(w) == {0}

Wheel(w, o) ==
  LET r == w.run
      hurt == apply_event_damage(w, Percent(r.max, IF r.hard THEN 15 ELSE 10), "none")
      gifts == {LET d == DrawScreenless(r, t)
                IN  OpenLoot(add_event_combat_relic_reward(ClearLoot(On(w, d.run)), d.got)) :
                t \in RollTiers}
  IN  CASE w.ev.screen = 0 -> {At([w EXCEPT !.ev.a = n], 1) : n \in 0..5}
        [] w.ev.screen = 1 ->
             Turn(w, 2, {IF w.ev.a = 0 THEN GainGold(r, 100) ELSE r})
        [] w.ev.screen = 3 -> Leave(w)
        [] w.ev.screen = 2 ->
             CASE w.ev.a = 0 -> {At(w, 3)}
               [] w.ev.a = 1 -> gifts
               [] w.ev.a = 2 -> Turn(w, 3, {Heal(r, r.max)})
               [] w.ev.a = 3 -> Turn(w, 3, {AddCard(r, "regret")})
               [] w.ev.a = 4 ->
                    {At(IF grid_has_card(r, "purge") THEN OpenGrid(w, "purge") ELSE w, 3)}
               [] w.ev.a = 5 -> {At(hurt, 3)}

-----------------------------------------------------------------------------
\* Knowing Skull: a, b and c are the rising prices of a potion, of gold and
\* of a card; leaving costs six as well.
kSkullBaseCost == 6

SkullEnter(w) ==
  {[w EXCEPT !.ev.a = kSkullBaseCost, !.ev.b = kSkullBaseCost, !.ev.c = kSkullBaseCost]}

SkullMenu(w) ==
  LET asked == <<w.ev.a - kSkullBaseCost, w.ev.b - kSkullBaseCost, w.ev.c - kSkullBaseCost>>
  IN  IF w.ev.screen # 1 THEN {0} ELSE {3} \cup {o \in 0..2 : asked[o + 1] < SkullAsks}

\* What was asked for comes whether or not the player outlived the price.
Skull(w, o) ==
  LET paid(n) == apply_event_damage(w, n, "none")
      potion == [paid(w.ev.a) EXCEPT !.ev.a = @ + 1]
      gold == [paid(w.ev.b) EXCEPT !.ev.b = @ + 1]
      card == [paid(w.ev.c) EXCEPT !.ev.c = @ + 1]
  IN  CASE w.ev.screen = 0 -> {At(w, 1)}
        [] w.ev.screen = 2 -> Leave(w)
        [] w.ev.screen = 1 /\ o = 0 ->
             IF Owns(w.run, "sozu") THEN {potion}
             ELSE {On(potion, PutPotion(potion.run, p)) : p \in RandomPotions}
        [] w.ev.screen = 1 /\ o = 1 -> {On(gold, GainGold(gold.run, 90))}
        [] w.ev.screen = 1 /\ o = 2 -> {On(card, AddCard(card.run, k)) : k \in RandomCards}
        [] w.ev.screen = 1 /\ o = 3 -> {At(paid(kSkullBaseCost), 2)}

-----------------------------------------------------------------------------
\* The Joust: a is 1 when the bet is on the owner, b is 1 when he wins.
JoustMenu(w) == IF w.ev.screen = 1 THEN {0, 1} ELSE {0}

Joust(w, o) ==
  LET won == CASE w.ev.a = 1 /\ w.ev.b = 1 -> GainGold(w.run, 250)
               [] w.ev.a = 0 /\ w.ev.b = 0 -> GainGold(w.run, 100)
               [] OTHER -> w.run
  IN  CASE w.ev.screen = 0 -> {At(w, 1)}
        [] w.ev.screen = 1 -> Turn([w EXCEPT !.ev.a = o], 2, {LoseGold(w.run, 50)})
        [] w.ev.screen = 2 -> {At([w EXCEPT !.ev.b = n], 3) : n \in {0, 1}}
        [] w.ev.screen = 3 -> Turn(w, 4, {won})
        [] w.ev.screen = 4 -> Leave(w)

-----------------------------------------------------------------------------
\* N'loth: board holds the two relics he asks for, drawn on entry.
NlothEnter(w) ==
  {[w EXCEPT !.ev.board = pair] :
     pair \in {p \in w.run.relics \X w.run.relics : p[1] # p[2]}}

NlothMenu(w) == IF w.ev.screen = 0 THEN {0, 1, 2} ELSE {0}

Nloth(w, o) ==
  CASE w.ev.screen # 0 -> Leave(w)
    [] w.ev.screen = 0 /\ o = 2 -> {At(w, 1)}
    [] w.ev.screen = 0 /\ o \in {0, 1} ->
         Turn(w, 1, IF Owns(w.run, "nloths_gift") THEN Acquire(w.run, "circlet")
                    ELSE Acquire(LoseRelic(w.run, w.ev.board[o + 1]), "nloths_gift"))

-----------------------------------------------------------------------------
\* Designer: a is 1 when the adjustment is the player's pick, b is 1 when the
\* cleaning is a removal; c is 2 while the full service runs, d is the first
\* of the two cards to be changed.
designer_adjust_cost(r) == IF r.hard THEN 50 ELSE 40
designer_clean_up_cost(r) == IF r.hard THEN 75 ELSE 60
designer_full_service_cost(r) == IF r.hard THEN 110 ELSE 90

unbottled_deck_count(r) == Cardinality({i \in DOMAIN r.deck : ~r.deck[i].bottle})

DesignerEnter(w) == {[w EXCEPT !.ev.a = x, !.ev.b = y] : x \in {0, 1}, y \in {0, 1}}

DesignerMenu(w) ==
  LET r == w.run
  IN  IF w.ev.screen # 1 THEN {0}
      ELSE {3} \cup {o \in {0} : /\ r.gold >= designer_adjust_cost(r)
                                 /\ grid_has_card(r, "upgrade")}
               \cup {o \in {1} : /\ r.gold >= designer_clean_up_cost(r)
                                 /\ unbottled_deck_count(r) >= 2 - w.ev.b}
               \cup {o \in {2} : /\ r.gold >= designer_full_service_cost(r)
                                 /\ unbottled_deck_count(r) >= 1}

designer_upgrade_random(w, n) ==
  {On(w, r) : r \in UpgradeSome(w.run, Upgradeable(w.run), n)}

\* The service is paid before the grid is looked at, which may be empty.
Designer(w, o) ==
  LET r == w.run
      adjusted == On(w, LoseGold(r, designer_adjust_cost(r)))
      cleaned == On(w, LoseGold(r, designer_clean_up_cost(r)))
      served == [On(w, LoseGold(r, designer_full_service_cost(r))) EXCEPT !.ev.c = 2]
      grid(v, kind) == IF grid_has_card(v.run, kind) THEN {OpenGrid(v, kind)} ELSE {At(v, 2)}
  IN  CASE w.ev.screen = 0 -> {At(w, 1)}
        [] w.ev.screen = 2 -> Leave(w)
        [] w.ev.screen = 1 /\ o = 0 ->
             IF w.ev.a = 1 THEN grid(adjusted, "upgrade")
             ELSE {At(v, 2) : v \in designer_upgrade_random(adjusted, 2)}
        [] w.ev.screen = 1 /\ o = 1 ->
             grid(cleaned, IF w.ev.b = 1 THEN "purge" ELSE "transformable")
        [] w.ev.screen = 1 /\ o = 2 -> grid(served, "purge")
        [] w.ev.screen = 1 /\ o = 3 ->
             {At(apply_event_damage(w, IF r.hard THEN 5 ELSE 3, "none"), 2)}

\* The pair: the first card's removal moves the second one up.
DesignerPick(w, i) ==
  LET r == w.run
      first == w.ev.d
      k1 == r.deck[first].k
      k2 == r.deck[i].k
      left == RemoveCard(RemoveCard(r, first), IF i > first THEN i - 1 ELSE i)
      done == [w EXCEPT !.ev.grid = "none", !.ev.c = 0, !.ev.d = 0, !.ev.screen = 2]
  IN  CASE w.ev.grid = "upgrade" -> {On(done, UpgradeCard(r, i))}
        [] w.ev.grid = "purge" ->
             IF w.ev.c = 2 THEN designer_upgrade_random(On(done, RemoveCard(r, i)), 1)
             ELSE {On(done, RemoveCard(r, i))}
        [] w.ev.grid = "transformable" ->
             IF GridCards(r, "pair_second", i) # {}
             THEN {[w EXCEPT !.ev.grid = "pair_second", !.ev.d = i]}
             ELSE {On(done, q) : q \in Transform(r, i)}
        [] w.ev.grid = "pair_second" ->
             {On(done, AddCard(AddCard(left, n1), n2)) :
                n1 \in TransformsOf(k1), n2 \in TransformsOf(k2)}

-----------------------------------------------------------------------------
DuplicatorMenu(w) == IF w.ev.screen = 0 THEN {0, 1} ELSE {0}

Duplicator(w, o) ==
  IF w.ev.screen # 0 THEN Leave(w)
  ELSE {IF o = 0 /\ w.run.deck # <<>> THEN OpenGrid(w, "duplicate") ELSE At(w, 1)}

DuplicatorPick(w, i) ==
  LET c == w.run.deck[i]
  IN  {On([w EXCEPT !.ev.grid = "none", !.ev.screen = 1], AddCopy(w.run, Fresh(c.k, c.up)))}

(***************************************************************************)
(* The dialogs of every act.                                               *)
(***************************************************************************)

BlacksmithMenu(w) ==
  IF w.ev.screen # 0 THEN {0} ELSE {1, 2} \cup {o \in {0} : grid_has_card(w.run, "upgrade")}

\* The curse comes before the tongs.
Blacksmith(w, o) ==
  IF w.ev.screen # 0 THEN Leave(w)
  ELSE CASE o = 0 -> {OpenGrid(At(w, 1), "upgrade")}
         [] o = 1 -> Turn(w, 1, Acquire(AddCard(w.run, "regret"), "warped_tongs"))
         [] o = 2 -> {At(w, 1)}

-----------------------------------------------------------------------------
BonfireMenu(w) == {0}

Bonfire(w, o) ==
  CASE w.ev.screen = 0 -> {At(w, 1)}
    [] w.ev.screen = 1 ->
         {IF grid_has_card(w.run, "purge") THEN OpenGrid(w, "purge") ELSE At(w, 2)}
    [] w.ev.screen = 2 -> Leave(w)

\* What the fire pays for a card of each rarity.
bonfire_pay_reward(r, k) ==
  LET rarity == CardDef[k].rarity
  IN  CASE rarity = "curse" -> Acquire(r, OrCirclet(r, "spirit_poop"))
        [] rarity \in {"common", "special"} -> {Heal(r, 5)}
        [] rarity = "uncommon" -> {Heal(r, r.max)}
        [] rarity = "rare" -> {Heal(RaiseMax(r, 10), r.max + 10)}
        [] OTHER -> {r}

\* The fire pays before it takes the card.
BonfirePick(w, i) ==
  {On([w EXCEPT !.ev.grid = "none", !.ev.screen = 2], RemoveCard(r, i)) :
     r \in bonfire_pay_reward(w.run, w.run.deck[i].k)}

-----------------------------------------------------------------------------
\* Face Trader: a is the gold, b the health it costs.
FaceTraderEnter(w) ==
  {[w EXCEPT !.ev.a = IF w.run.hard THEN 50 ELSE 75, !.ev.b = Most(1, w.run.max \div 10)]}

FaceTraderMenu(w) == IF w.ev.screen = 1 THEN {0, 1, 2} ELSE {0}

Faces == {"cultist_mask", "face_of_cleric", "nloths_mask", "sssserpent"}

FaceTrader(w, o) ==
  LET r == w.run
      faces == IF Faces \ r.relics = {} THEN {"circlet"} ELSE Faces \ r.relics
      touched == apply_event_damage(On(w, GainGold(r, w.ev.a)), w.ev.b, "none")
  IN  CASE w.ev.screen = 0 -> {At(w, 1)}
        [] w.ev.screen = 2 -> Leave(w)
        [] w.ev.screen = 1 /\ o = 0 -> {At(touched, 2)}
        [] w.ev.screen = 1 /\ o = 1 -> Turn(w, 2, UNION {Acquire(r, x) : x \in faces})
        [] w.ev.screen = 1 /\ o = 2 -> {At(w, 2)}

-----------------------------------------------------------------------------
FountainMenu(w) == IF w.ev.screen = 0 THEN {0, 1} ELSE {0}

\* Every curse that can go, from the back of the deck; the bottles stay on
\* the cards the indices move.
Washed(r) ==
  LET wash(acc, i) == IF TypeOf(acc.deck[i]) = "curse" /\ rest_card_purgeable(acc.deck[i])
                      THEN RemoveCard(acc, i) ELSE acc
      n == Len(r.deck)
  IN  FoldLeft(wash, r, [j \in 1..n |-> n + 1 - j])

Fountain(w, o) ==
  CASE w.ev.screen # 0 -> Leave(w)
    [] w.ev.screen = 0 /\ o = 0 -> Turn(w, 1, {Washed(w.run)})
    [] w.ev.screen = 0 /\ o = 1 -> {At(w, 1)}

-----------------------------------------------------------------------------
\* open_potion_reward_screen: n potion rows.
PotionScreens(w, n) ==
  {OpenLoot([w EXCEPT !.loot = [rows |-> [i \in 1..n |-> Row("potion", 0, f[i])], open |-> 0]]) :
     f \in [1..n -> RandomPotions]}

LabMenu(w) == {0}

Lab(w, o) == IF w.ev.screen # 0 THEN Leave(w) ELSE PotionScreens(w, IF w.run.hard THEN 2 ELSE 3)

-----------------------------------------------------------------------------
NoteMenu(w) == IF w.ev.screen = 1 THEN {0, 1} ELSE {0}

\* A Note For Yourself: the card goes under index 0, then one is stored away.
Note(w, o) ==
  LET taken == On(At(w, 2), AddCardOnTop(w.run, "power"))
  IN  CASE w.ev.screen = 0 -> {At(w, 1)}
        [] w.ev.screen = 2 -> Leave(w)
        [] w.ev.screen = 1 /\ o = 0 ->
             {IF grid_has_card(taken.run, "purge") THEN OpenGrid(taken, "purge") ELSE taken}
        [] w.ev.screen = 1 /\ o = 1 -> {At(w, 2)}

-----------------------------------------------------------------------------
\* We Meet Again: on entry he asks for one potion (its slot, a), for gold (b)
\* and for one card (its place in the deck, c); 0 is no offer.
card_is_offerable(c) == TypeOf(c) # "curse" /\ CardDef[c.k].rarity # "basic"

WeMeetAgainEnter(w) ==
  LET r == w.run
      slots == DOMAIN r.belt \ EmptySlots(r)
      cards == {i \in DOMAIN r.deck : card_is_offerable(r.deck[i])}
      orNone(s) == IF s = {} THEN {0} ELSE s
  IN  {[w EXCEPT !.ev.a = p, !.ev.b = g, !.ev.c = i] :
         p \in orNone(slots), i \in orNone(cards),
         g \in IF r.gold < 50 THEN {0} ELSE {50, Least(r.gold, 150)}}

WeMeetAgainMenu(w) ==
  IF w.ev.screen # 0 THEN {0}
  ELSE {3} \cup {o \in {0} : w.ev.a # 0} \cup {o \in {1} : w.ev.b # 0}
           \cup {o \in {2} : w.ev.c # 0}

\* He takes what was named when the dialog opened, without looking again.
WeMeetAgain(w, o) ==
  LET r == w.run
  IN  CASE w.ev.screen # 0 -> Leave(w)
        [] w.ev.screen = 0 /\ o = 0 -> Turn(w, 1, EventRelicRuns(ClearSlot(r, w.ev.a)))
        [] w.ev.screen = 0 /\ o = 1 -> Turn(w, 1, EventRelicRuns(LoseGold(r, w.ev.b)))
        [] w.ev.screen = 0 /\ o = 2 -> Turn(w, 1, EventRelicRuns(RemoveCard(r, w.ev.c)))
        [] w.ev.screen = 0 /\ o = 3 -> {At(w, 1)}

-----------------------------------------------------------------------------
WomanInBlueMenu(w) == IF w.ev.screen = 0 THEN 0..3 ELSE {0}

WomanInBlue(w, o) ==
  LET r == w.run
      hit == apply_event_damage(w, CeilPercent(r.max, 5), "none")
  IN  CASE w.ev.screen # 0 -> Leave(w)
        [] w.ev.screen = 0 /\ o \in 0..2 ->
             PotionScreens(On(w, LoseGold(r, 20 + 10 * o)), o + 1)
        [] w.ev.screen = 0 /\ o = 3 -> {At(IF r.hard THEN hit ELSE w, 1)}
=============================================================================
