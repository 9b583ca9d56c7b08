------------------------------ MODULE RunWorld ------------------------------
(***************************************************************************)
(* The run controller between two commands (struct RunController): the     *)
(* run, the phase, the open event dialog, the open reward screen and the   *)
(* fight's ledger, carried in one record w.  A body is an operator that    *)
(* gives the set of worlds a choice may lead to, a random draw giving      *)
(* several.                                                                *)
(*                                                                         *)
(*   w.ev    the dialog: id, screen, the grid it has opened, and the four  *)
(*           scratch words of EventDialogState under the names a to d;     *)
(*           board holds the cards an event has laid out                   *)
(*   w.loot  the reward screen: its rows and the card row that is open     *)
(*   w.room  the kind of room, "burning" for the elite with the emerald    *)
(*   w.site  what that room keeps: its screen, its wares, its relics       *)
(*   w.fight the fight (FightLedger)                                       *)
(*   w.pend  what a relic just picked up has asked for                     *)
(***************************************************************************)
EXTENDS RelicShelf

NoEvent == [id |-> "none", screen |-> 0, grid |-> "none",
            a |-> 0, b |-> 0, c |-> 0, d |-> 0, board |-> <<>>]

NoLoot == [rows |-> <<>>, open |-> 0]
NoFight == [foes |-> "none"]

\* Small steps of a body: the run, the screen, the end of the dialog.
On(w, r) == [w EXCEPT !.run = r]
At(w, s) == [w EXCEPT !.ev.screen = s]
Turn(w, s, runs) == {[w EXCEPT !.run = r, !.ev.screen = s] : r \in runs}
Leave(w) == {[w EXCEPT !.ev = NoEvent, !.phase = "map"]}
OpenGrid(w, kind) == [w EXCEPT !.ev.grid = kind]

-----------------------------------------------------------------------------
\* The cards a grid lets the player choose.
GridCards(r, kind, held) ==
  CASE kind = "upgrade"           -> Upgradeable(r)
    [] kind = "transformable_any" -> Purgeable(r)
    [] kind = "duplicate"         -> DOMAIN r.deck
    [] kind = "pair_second"       -> PurgeableUnbottled(r) \ {held}
    [] kind = "none"              -> {}
    [] OTHER                      -> PurgeableUnbottled(r)

event_grid_card_legal(w) == GridCards(w.run, w.ev.grid, w.ev.d)

grid_has_card(r, kind) == GridCards(r, kind, 0) # {}

\* A grid's pick: what it does to the run, and the grid closes.
Picked(w, i) ==
  LET done == [w EXCEPT !.ev.grid = "none"]
  IN  CASE w.ev.grid = "purge"         -> {On(done, RemoveCard(w.run, i))}
        [] w.ev.grid = "upgrade"       -> {On(done, UpgradeCard(w.run, i))}
        [] w.ev.grid = "transformable" -> {On(done, r) : r \in Transform(w.run, i)}

-----------------------------------------------------------------------------
\* apply_event_damage: Torii and Tungsten Rod, then at zero the first Fairy
\* of the belt, Lizard Tail, or the end of the run, which closes the dialog.
apply_event_damage(w, n, owner) ==
  LET r == w.run
      torii == IF owner = "player" /\ n \in 2..5 /\ Owns(r, "torii") THEN 1 ELSE n
      loss == IF Owns(r, "tungsten") THEN torii - 1 ELSE torii
      hp == Most(0, r.hp - loss)
      fairies == BeltFairies(r)
      spent == CHOOSE i \in fairies : \A j \in fairies : i <= j
      potency == IF Owns(r, "bark") THEN 60 ELSE 30
      dead == [w EXCEPT !.run.hp = 0, !.ev = NoEvent, !.phase = "over"]
      saved == [w EXCEPT !.run.hp = Most(1, Percent(r.max, potency)), !.run.belt[spent] = "none"]
      tailed == [w EXCEPT !.run.hp = Most(1, r.max \div 2), !.run.tail = FALSE]
  IN  IF n <= 0 \/ r.hp <= 0 \/ loss = 0 THEN w
      ELSE IF hp > 0 THEN [w EXCEPT !.run.hp = hp]
      ELSE IF Owns(r, "bloom") \/ (fairies = {} /\ ~r.tail) THEN dead
      ELSE IF fairies # {} THEN saved ELSE tailed

\* What a body does that asks whether the player lived.
IfAlive(w, worlds) == IF w.run.hp > 0 THEN worlds ELSE {w}

-----------------------------------------------------------------------------
\* The reward screen's rows.
Row(kind, n, what) == [kind |-> kind, n |-> n, bonus |-> 0, what |-> what, cards |-> {}]

Bonus(r, n) == IF Owns(r, "golden_idol") THEN RoundedPercent(n, 25) ELSE 0

GoldRow(r, n) == [Row("gold", n, "none") EXCEPT !.bonus = Bonus(r, n)]

\* A card row, the eggs' upgrades already on it.
CardsRow(r) ==
  [Row("cards", 0, "none") EXCEPT !.cards = {Hatched(r, Fresh(k, 0)) : k \in RandomCards}]

WithRow(w, row) == [w EXCEPT !.loot.rows = Append(@, row)]

ClearLoot(w) == [w EXCEPT !.loot = NoLoot]

\* An event's gold joins the gold already on the screen.
add_event_combat_gold_reward(w, n) ==
  LET rows == w.loot.rows
      at == {i \in DOMAIN rows : rows[i].kind = "gold"}
      i == CHOOSE i \in at : \A j \in at : i <= j
      sum == rows[i].n + n
  IN  IF at = {} THEN WithRow(w, GoldRow(w.run, n))
      ELSE [w EXCEPT !.loot.rows[i].n = sum, !.loot.rows[i].bonus = Bonus(w.run, sum)]

add_event_combat_relic_reward(w, x) == WithRow(w, Row("relic", 0, x))

\* draw_event_relic for the reward screen, every tier the roll may give.
RelicRowRuns(w) ==
  {LET d == DrawRelic(w.run, t, FALSE)
   IN  add_event_combat_relic_reward(On(w, d.run), d.got) : t \in RollTiers}

\* Straight to the reward screen, the dialog closed.
OpenLoot(w) == [w EXCEPT !.ev = NoEvent, !.phase = "reward"]

\* enter_event_combat: the fight is entered in full by FightLedger's
\* enter_combat; the room it is fought in stays the event's.
enter_event_combat(w, foes) == [w EXCEPT !.phase = "entering", !.fight = [foes |-> foes]]

=============================================================================
