----------------------------- MODULE RewardScreen -----------------------------
(***************************************************************************)
(* The reward screen (combat_rewards.cpp) and the relics that open one, or *)
(* another screen, when they are picked up (relics/relic_pickup_boss.cpp,  *)
(* relic_pickup_shop.cpp).                                                 *)
(*                                                                         *)
(* w.pend is what the relic asks for: a bottle or Dolly's Mirror (a card   *)
(* of the deck, before anything else may happen), "items" (its rows are on *)
(* the reward screen), or, from a boss relic, "remove", "transform",       *)
(* "pandora" or "bell" (a grid or a confirmation of the boss chest's).     *)
(***************************************************************************)
EXTENDS RunWorld

CONSTANT
    GiftRows        \* rows of an Orrery or a Cauldron (five in the game)

ASSUME GiftAssumption == GiftRows \in Nat

\* The gold of a won fight, by room, one value for each roll.
RoomGold == [monster |-> 15, elite |-> 30, burning |-> 30, boss |-> 100]

IsElite(w) == w.room \in {"elite", "burning"}

-----------------------------------------------------------------------------
\* Picking a relic up where a screen can open.
bottle_pick_legal(r, x, i) ==
  rest_card_purgeable(r.deck[i]) /\ TypeOf(r.deck[i]) = BottleType[x]

PandoraCards(r) == {i \in DOMAIN r.deck : r.deck[i].k \in {"strike", "defend"}}

\* Cards that leave together and come back as others, at the upgrade given.
Renewed(r, picks, up) ==
  LET came(k) == Fresh(k, IF CardDef[k].type = "curse" THEN 0 ELSE up)
      renew(runs, i) ==
        UNION {{AddCopy(q, came(k)) : k \in TransformsOf(r.deck[i].k)} : q \in runs}
  IN  FoldLeft(renew, {Without(r, Range(picks))}, picks)

relic_astrolabe_transform_cards(r, picks) == Renewed(r, picks, 1)

PotionRows(n) == {[i \in 1..n |-> Row("potion", 0, f[i])] : f \in [1..n -> RandomPotions]}

Rows(w, rows) == [w EXCEPT !.loot = [rows |-> rows, open |-> 0], !.pend = "items"]

\* Pandora's Box lays its draws out before they come; nothing happens to a
\* deck without starters.
PandoraOpens(w) ==
  LET gone == PandoraCards(w.run)
      n == Cardinality(gone)
      v == On(w, Without(w.run, gone))
  IN  IF gone = {} THEN {w}
      ELSE {[v EXCEPT !.pend = "pandora",
                      !.loot = [rows |-> [i \in 1..n |-> Row("preview", 0, f[i])], open |-> 0]] :
              f \in [1..n -> RandomCards]}

TinyHouseOpens(w) ==
  UNION {LET r == RaiseMax(q, 5)
         IN  {Rows(On(w, r), <<GoldRow(r, 50), Row("potion", 0, p), CardsRow(r)>>) :
                p \in RandomPotions} : q \in UpgradeSome(w.run, Upgradeable(w.run), 1)}

\* The relic's screen, for a relic already on the shelf; a grid that would
\* have nothing to choose from does its work at once.
EquipScreen(w, x) ==
  LET r == w.run
      all == SetToSeq(Purgeable(r))
      ask(what) == {[w EXCEPT !.pend = what]}
  IN  CASE x \in Bottles ->
             IF \E i \in DOMAIN r.deck : bottle_pick_legal(r, x, i) THEN ask(x) ELSE {w}
        [] x = "dollys_mirror" -> IF r.deck # <<>> THEN ask("mirror") ELSE {w}
        [] x = "orrery" -> {Rows(w, [i \in 1..GiftRows |-> CardsRow(r)])}
        [] x = "cauldron" -> {Rows(w, rows) : rows \in PotionRows(GiftRows)}
        [] x = "tiny_house" -> TinyHouseOpens(w)
        [] x = "pandora" -> PandoraOpens(w)
        [] x = "calling_bell" -> ask("bell")
        [] x = "empty_cage" ->
             IF Len(all) <= 2 THEN {On(w, Without(r, Range(all)))} ELSE ask("remove")
        [] x = "astrolabe" ->
             IF Len(all) <= 3
             THEN {On(w, q) : q \in relic_astrolabe_transform_cards(r, all)}
             ELSE ask("transform")

\* acquire_relic with an equip context.
AcquireWithScreen(w, x) ==
  IF x \in ScreenRelics
  THEN EquipScreen(On(w, [w.run EXCEPT !.relics = @ \cup {x}]), x)
  ELSE {On(w, r) : r \in Acquire(w.run, x)}

\* apply_claim_equip_request: the rows a relic has laid out take the screen
\* over, and close the shop.
apply_claim_equip_request(w) ==
  IF w.pend # "items" THEN w
  ELSE [w EXCEPT !.pend = "none", !.phase = "reward", !.site = [screen |-> "none"]]

step_bottle_pick(w, i) == [w EXCEPT !.run.deck[i].bottle = TRUE, !.pend = "none"]

\* The copy is not in the bottle its model is in.
step_deck_pick(w, i) ==
  [On(w, AddCopy(w.run, [w.run.deck[i] EXCEPT !.bottle = FALSE])) EXCEPT !.pend = "none"]

-----------------------------------------------------------------------------
\* assemble_combat_rewards.  The rows of an event's fight are already there.
EliteRows(w) ==
  LET relic(v, d) == WithRow(On(v, d.run), Row("relic", 0, d.got))
      one == {relic(w, DrawRelic(w.run, t, FALSE)) : t \in RollTiers}
      two == {relic(v, DrawAvoiding(v.run, t, CampfireRelics)) : v \in one, t \in RollTiers}
      key(v) == IF w.room = "burning" /\ "emerald" \notin v.run.keys
                THEN WithRow(v, Row("emerald", 0, "none")) ELSE v
  IN  {key(v) : v \in IF Owns(w.run, "black_star") THEN two ELSE one}

\* No potion behind four rows; none of a plain or a boss room whose monsters
\* ran away, but the White Beast Statue drops it all the same.
PotionMayDrop(w, escaped) ==
  /\ Len(w.loot.rows) < 4
  /\ IsElite(w) \/ w.room = "event" \/ ~escaped \/ Owns(w.run, "white_beast")

PotionDrops(w, escaped) ==
  IF ~PotionMayDrop(w, escaped) THEN {w}
  ELSE {WithRow(w, Row("potion", 0, p)) : p \in RandomPotions}
         \cup {v \in {w} : ~Owns(w.run, "white_beast")}

assemble_combat_rewards(w, outcome, stolen) ==
  LET escaped == outcome = "monsters_escaped"
      base == IF w.room = "event" THEN [w EXCEPT !.loot.open = 0] ELSE ClearLoot(w)
      back == IF stolen > 0 THEN WithRow(base, Row("stolen", stolen, "none")) ELSE base
      paid == IF w.room = "event" \/ (w.room = "monster" /\ escaped) THEN back
              ELSE WithRow(back, GoldRow(w.run, RoomGold[w.room]))
      won == IF IsElite(w) THEN EliteRows(paid) ELSE {paid}
      dealt(v) == LET once == WithRow(v, CardsRow(v.run))
                  IN  IF w.room = "monster" /\ Owns(w.run, "prayer_wheel")
                      THEN WithRow(once, CardsRow(v.run)) ELSE once
  IN  UNION {{IF outcome = "player_escaped" THEN ClearLoot(u) ELSE dealt(u) :
                u \in PotionDrops(v, escaped)} : v \in won}

-----------------------------------------------------------------------------
\* Claiming.  remove_item: the rows behind it move up by one, and the last place
\* is given up.
NoRow(w, i) ==
  LET rows == w.loot.rows
  IN  [w EXCEPT !.loot.rows = [j \in 1..(Len(rows) - 1) |-> rows[IF j < i THEN j ELSE j + 1]]]

reward_relic_row_is_key_linked(w, i) ==
  /\ i \in 1..(Len(w.loot.rows) - 1)
  /\ w.loot.rows[i].kind = "relic" /\ w.loot.rows[i + 1].kind = "sapphire"

reward_claim_legal(w, i) ==
  /\ w.loot.open = 0
  /\ LET row == w.loot.rows[i]
     IN  CASE row.kind = "potion" -> Owns(w.run, "sozu") \/ EmptySlots(w.run) # {}
           [] row.kind = "cards" -> row.cards # {}
           [] OTHER -> row.kind # "preview"

\* An egg claimed from the screen hatches the offers still on it.
apply_egg_preview_to_open_offers(w) ==
  LET shown(row) == [row EXCEPT !.cards = {Hatched(w.run, c) : c \in @}]
  IN  [w EXCEPT !.loot.rows = [i \in DOMAIN @ |-> shown(@[i])]]

\* A relic row goes with the key linked to it, and a key with its relic.
ClaimRelic(w, i) ==
  LET claimed == {apply_egg_preview_to_open_offers(v) :
                    v \in AcquireWithScreen(w, w.loot.rows[i].what)}
      lone(v) == IF reward_relic_row_is_key_linked(v, i) THEN NoRow(v, i + 1) ELSE v
  IN  {NoRow(lone(v), i) : v \in claimed}

ClaimSapphire(w, i) ==
  LET held == [w EXCEPT !.run.keys = @ \cup {"sapphire"}]
  IN  IF reward_relic_row_is_key_linked(w, i - 1) THEN NoRow(NoRow(held, i), i - 1)
      ELSE NoRow(held, i)

claim_reward(w, i) ==
  LET row == w.loot.rows[i]
  IN  CASE row.kind \in {"gold", "stolen"} ->
             {NoRow(On(w, GainGold(w.run, row.n + row.bonus)), i)}
        [] row.kind = "potion" ->
             {NoRow(IF Owns(w.run, "sozu") THEN w ELSE On(w, PutPotion(w.run, row.what)), i)}
        [] row.kind = "relic" -> ClaimRelic(w, i)
        [] row.kind = "cards" -> {[w EXCEPT !.loot.open = i]}
        [] row.kind = "emerald" -> {NoRow([w EXCEPT !.run.keys = @ \cup {"emerald"}], i)}
        [] row.kind = "sapphire" -> {ClaimSapphire(w, i)}

-----------------------------------------------------------------------------
\* The open card row: a card taken, a song, or the row closed and kept.
OpenCards(w) == IF w.loot.open = 0 THEN {} ELSE w.loot.rows[w.loot.open].cards

TakeableCards(w) == {c \in OpenCards(w) : Len(w.run.deck) < DeckCap}

CloseRow(w) == NoRow([w EXCEPT !.loot.open = 0], w.loot.open)

reward_take_card(w, c) == On(CloseRow(w), AddCopy(w.run, c))

sing_legal(w) == w.loot.open # 0 /\ Owns(w.run, "singing_bowl")

reward_sing(w) ==
  LET r == [w.run EXCEPT !.max = @ + 2]
  IN  On(CloseRow(w), [r EXCEPT !.hp = Least(@ + 2, r.max)])

reward_skip_card(w) == [w EXCEPT !.loot.open = 0]

=============================================================================
