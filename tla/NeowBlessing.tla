----------------------------- MODULE NeowBlessing -----------------------------
(***************************************************************************)
(* Neow's room (neow.cpp) and the grid it lends to the boss chest.         *)
(* site.screen is "blessing", "card", "grid", "items" or "done"; an open   *)
(* grid has its mode, the picks it needs and those already made.           *)
(***************************************************************************)
EXTENDS RewardScreen

NoGrid(screen) == [screen |-> screen, mode |-> "none", needed |-> 0, picked |-> <<>>]

NeowEnter(w) == {[w EXCEPT !.phase = "neow", !.site = NoGrid("blessing")]}

Done(w) == [w EXCEPT !.site.screen = "done", !.site.mode = "none"]

open_grid(w, mode, picks) ==
  [w EXCEPT !.site.screen = "grid", !.site.mode = mode, !.site.needed = picks,
            !.site.picked = <<>>]

Confirms == {"pandora", "bell"}

neow_grid_card_legal(w) ==
  IF w.site.screen # "grid" \/ w.site.mode \in Confirms THEN {}
  ELSE (IF w.site.mode = "upgrade" THEN Upgradeable(w.run) ELSE Purgeable(w.run))
         \ Range(w.site.picked)

apply_grid(r, mode, picked) ==
  CASE mode = "upgrade" -> {UpgradeCard(r, picked[1])}
    [] mode = "remove" -> {Without(r, Range(picked))}
    [] mode = "transform" -> Renewed(r, picked, 0)
    [] mode = "transform_upgrade" -> relic_astrolabe_transform_cards(r, picked)

\* The last pick does the work; the ones before it are only remembered.
neow_grid_pick(w, i) ==
  LET picked == Append(w.site.picked, i)
  IN  IF Len(picked) < w.site.needed THEN {[w EXCEPT !.site.picked = picked]}
      ELSE {Done(On(w, r)) : r \in apply_grid(w.run, w.site.mode, picked)}

\* What a boss relic asked for (Neow's swap and apply_boss_chest_equip_request).
\* The bottles and Dolly's Mirror are in no pool drawn from here: an assertion
\* guards their arms, which otherwise drop the request.
OpenRequest(w) ==
  LET v == [w EXCEPT !.pend = "none"]
  IN  CASE w.pend = "remove" -> open_grid(v, "remove", 2)
        [] w.pend = "transform" -> open_grid(v, "transform_upgrade", 3)
        [] w.pend \in Confirms -> open_grid(v, w.pend, 0)
        [] w.pend = "items" -> [v EXCEPT !.site.screen = "items"]
        [] OTHER -> Done(v)

\* relic_confirm_pandoras_box: the cards shown come, the last one first.
PandoraComes(w) ==
  LET rows == Reverse(w.loot.rows)
      come(r, row) == AddCard(r, row.what)
  IN  Done(ClearLoot(On(w, FoldLeft(come, w.run, rows))))

\* relic_confirm_calling_bell: the curse, and three relics that open nothing.
BellTolls(w) ==
  LET draw(acc, t) == LET d == DrawScreenless(acc.run, t)
                      IN  WithRow(On(acc, d.run), Row("relic", 0, d.got))
      cursed == ClearLoot(On(w, AddCard(w.run, "bell")))
  IN  [FoldLeft(draw, cursed, <<"common", "uncommon", "rare">>)
         EXCEPT !.site.screen = "items", !.site.mode = "none"]

GridConfirm(w) == IF w.site.mode = "pandora" THEN PandoraComes(w) ELSE BellTolls(w)

-----------------------------------------------------------------------------
\* neow_category_options: a blessing of each category, the third with a
\* drawback that rules one of its blessings out.
Drawbacks == {"no_gold", "max_hp_loss", "damage", "curse"}

FreeBlessings ==
  {"cards", "rare_card", "remove", "upgrade", "transform", "potions", "common_relic",
   "hp_bonus", "lament", "gold", "boss_relic"}

PaidBlessings(drawback) ==
  {"cards", "remove_two", "rare_relic", "gold", "transform_two", "hp_bonus"}
    \ CASE drawback = "curse" -> {"remove_two"}
        [] drawback = "no_gold" -> {"gold"}
        [] drawback = "max_hp_loss" -> {"hp_bonus"}
        [] OTHER -> {}

Blessings ==
  ({"none"} \X FreeBlessings) \cup UNION {{d} \X PaidBlessings(d) : d \in Drawbacks}

hp_bonus(r) == Percent(r.max, 10)

apply_drawback(r, drawback) ==
  CASE drawback = "no_gold" -> LoseGold(r, r.gold)
    [] drawback = "max_hp_loss" -> LowerMax(r, hp_bonus(r))
    [] drawback = "damage" -> [r EXCEPT !.hp = @ - (@ \div 10) * 3]
    [] OTHER -> r

\* A relic obtained here may open a screen of its own.
spawn_relic_and_obtain(w, d) ==
  {OpenRequest(v) : v \in AcquireWithScreen(On(w, d.run), d.got)}

\* The bonus in max hp was rolled with the blessing, before its drawback.
apply_payout(w, type, paid, bonus) ==
  LET r == w.run
      offer == [Row("cards", 0, "none") EXCEPT !.cards = {Fresh(k, 0) : k \in RandomCards}]
      potions == PotionRows(3)
  IN  CASE type = "cards" ->
             {[w EXCEPT !.loot = [rows |-> <<offer>>, open |-> 1], !.site.screen = "card"]}
        [] type = "rare_card" -> {Done(On(w, AddCard(r, k))) : k \in RandomCards}
        [] type = "remove" -> {open_grid(w, "remove", 1)}
        [] type = "remove_two" -> {open_grid(w, "remove", 2)}
        [] type = "transform" -> {open_grid(w, "transform", 1)}
        [] type = "transform_two" -> {open_grid(w, "transform", 2)}
        [] type = "upgrade" -> {open_grid(w, "upgrade", 1)}
        [] type = "potions" ->
             {[w EXCEPT !.loot = [rows |-> p, open |-> 0], !.site.screen = "items"] : p \in potions}
        [] type = "common_relic" -> spawn_relic_and_obtain(w, DrawRelic(r, "common", FALSE))
        [] type = "rare_relic" -> spawn_relic_and_obtain(w, DrawRelic(r, "rare", FALSE))
        [] type = "lament" -> spawn_relic_and_obtain(w, [got |-> "neows_lament", run |-> r])
        [] type = "boss_relic" ->
             spawn_relic_and_obtain(w, DrawRelic(LoseRelic(r, "burning_blood"), "boss", FALSE))
        [] type = "hp_bonus" -> {Done(On(w, RaiseMax(r, IF paid THEN 2 * bonus ELSE bonus)))}
        [] type = "gold" -> {Done(On(w, GainGold(r, IF paid THEN 250 ELSE 100)))}

\* neow_activate: drawback, payout, and the curse at the very end.
neow_activate(w, drawback, type) ==
  LET paid == On(w, apply_drawback(w.run, drawback))
      out == apply_payout(paid, type, drawback # "none", hp_bonus(w.run))
  IN  IF drawback # "curse" THEN out
      ELSE {On(v, AddCard(v.run, k)) : v \in out, k \in RandomCurses}

\* The card screen ends with the card, the song or neither.
CardTaken(w, c) == Done(reward_take_card(w, c))
CardSung(w) == Done(reward_sing(w))
neow_skip_card(w) == Done(ClearLoot(w))

ItemsLeft(w) == Done(ClearLoot(w))

NeowLeaves(w) == [ClearLoot(w) EXCEPT !.phase = "map", !.site = [screen |-> "none"]]

=============================================================================
