----------------------------- MODULE FightLedger -----------------------------
(***************************************************************************)
(* The books a fight keeps beside the run (run_advance.cpp): health, armed *)
(* Fairies, relic counters and the gold gained or stolen live in the       *)
(* combat state while it lasts and are brought back to the run at the end  *)
(* of each command and of the fight.  What happens in the fight itself is  *)
(* reduced to what those books see.                                        *)
(*                                                                         *)
(*   hp, max              the combat's health                              *)
(*   armed                Fairies a death would use (combat flags)         *)
(*   tail, charm, doll    the combat's copies of three relic counters      *)
(*   earned, banked       combat_gold, and how much of it the run has      *)
(*   thieves              each with the gold of one steal, the steals it   *)
(*                        has made and those already booked, the gold      *)
(*                        taken, and "in", "dead" or "fled"                *)
(*   cards, potions       obtained in this command, not yet on the run     *)
(*   over, mugged, smoked the fight has ended; a thief fled; smoke bomb    *)
(*   slain                the player has fallen for good                   *)
(*   mid, steps           inside a command; steps taken so far             *)
(***************************************************************************)
EXTENDS RewardScreen, ActEvents

CONSTANT
    FightSteps      \* bound: things that happen in one fight

ASSUME FightAssumption == FightSteps \in Nat

\* What each fight of the model has in it, and the gold a thief takes.
ThievesOf(foes) ==
  CASE foes = "looter" -> <<15>> [] foes = "looter_mugger" -> <<15, 15>> [] OTHER -> <<>>

Bosses == {"boss"}

enter_combat(w) ==
  LET foes == w.fight.foes
      thief(n) == [amt |-> n, steals |-> 0, prev |-> 0, taken |-> 0, live |-> "in"]
  IN  [w EXCEPT !.phase = "fight",
                !.fight = [foes |-> foes, hp |-> w.run.hp, max |-> w.run.max,
                           armed |-> Cardinality(BeltFairies(w.run)),
                           tail |-> w.run.tail, charm |-> w.run.charm, doll |-> w.run.doll,
                           earned |-> 0, banked |-> 0,
                           thieves |-> [i \in DOMAIN ThievesOf(foes) |-> thief(ThievesOf(foes)[i])],
                           cards |-> <<>>, potions |-> <<>>, over |-> FALSE, mugged |-> FALSE,
                           smoked |-> FALSE, slain |-> FALSE, mid |-> FALSE, steps |-> 0]]

-----------------------------------------------------------------------------
\* What can happen inside a command.
heal_player_with_relics(w, n) ==
  IF Owns(w.run, "bloom") THEN w ELSE [w EXCEPT !.fight.hp = Least(w.fight.max, @ + n)]

\* try_player_revive: Mark of the Bloom forbids it, then a Fairy, then
\* Lizard Tail.
try_player_revive(w) ==
  LET f == w.fight
      potency == IF Owns(w.run, "bark") THEN 60 ELSE 30
      fallen == [w EXCEPT !.fight.hp = 0, !.fight.over = TRUE, !.fight.slain = TRUE]
  IN  CASE Owns(w.run, "bloom") -> fallen
        [] f.armed > 0 -> [w EXCEPT !.fight.armed = @ - 1,
                                    !.fight.hp = Most(1, Percent(f.max, potency))]
        [] f.tail -> [w EXCEPT !.fight.tail = FALSE, !.fight.hp = Most(1, f.max \div 2)]
        [] OTHER -> fallen

Hurt(w, n) ==
  IF w.fight.hp > n THEN [w EXCEPT !.fight.hp = @ - n] ELSE try_player_revive(w)

ThiefSteals(w, t) == [w EXCEPT !.fight.thieves[t].steals = @ + 1]

\* The fight is over when no thief is left in it.
ThiefGone(w, t, how) ==
  LET v == [w EXCEPT !.fight.thieves[t].live = how]
  IN  [v EXCEPT !.fight.over = \A i \in DOMAIN v.fight.thieves : v.fight.thieves[i].live # "in",
                !.fight.mugged = @ \/ how = "fled"]

\* op_damage_greed: the kill pays, through Ectoplasm and Bloody Idol.
Greed(w, t) ==
  LET dead == ThiefGone(w, t, "dead")
      paid == [dead EXCEPT !.fight.earned = @ + 20]
  IN  CASE Owns(w.run, "ectoplasm") -> dead
        [] Owns(w.run, "bloody_idol") -> heal_player_with_relics(paid, 5)
        [] OTHER -> paid

Implant(w) == [w EXCEPT !.fight.cards = Append(@, "parasite")]
Alchemize(w, p) == [w EXCEPT !.fight.potions = Append(@, p)]
Won(w) == [w EXCEPT !.fight.over = TRUE]

InFight(w) == {t \in DOMAIN w.fight.thieves : w.fight.thieves[t].live = "in"}

\* What thieves and brews do.
Steals(w) == {ThiefSteals(w, t) : t \in {t \in InFight(w) : w.fight.thieves[t].steals < 2}}
Goes(w) ==
  UNION {{Greed(w, t), ThiefGone(w, t, "dead"), ThiefGone(w, t, "fled")} : t \in InFight(w)}
Brews(w) == {Alchemize(w, p) : p \in {p \in RandomPotions : w.fight.foes = "cultist"}}

\* One thing more happens; health is all that most fights touch.
Happenings(w) ==
  {Hurt(w, n) : n \in {3, 50}} \cup Steals(w) \cup Goes(w)
    \cup {v \in {Implant(w)} : w.fight.foes = "writhing_mass"}
    \cup Brews(w)
    \cup {v \in {Won(w)} : w.fight.thieves = <<>>}

FightGoesOn(w) == ~w.fight.over /\ w.fight.steps < FightSteps

Happened(w) ==
  {[v EXCEPT !.fight.mid = TRUE, !.fight.steps = @ + 1] : v \in Happenings(w)}

-----------------------------------------------------------------------------
\* The end of a command, in the order of the calls.

\* mutant: what has been banked is banked again
sync_live_gold_Rebanked(w) == [w EXCEPT !.run.gold = @ + w.fight.earned]

\* The steals not yet booked, the first of them, and what it takes: no more
\* than the purse still holds.
Due(v) == {t \in DOMAIN v.fight.thieves : v.fight.thieves[t].prev < v.fight.thieves[t].steals}
NextThief(v) == CHOOSE t \in Due(v) : \A u \in Due(v) :
                  \/ v.fight.thieves[t].prev < v.fight.thieves[u].prev
                  \/ v.fight.thieves[t].prev = v.fight.thieves[u].prev /\ t <= u
Stolen(v, t) ==
  LET take == Least(v.fight.thieves[t].amt, v.run.gold)
  IN  [v EXCEPT !.run.gold = @ - take, !.fight.thieves[t].taken = @ + take,
                !.fight.thieves[t].prev = @ + 1]

Robbed(w) == FoldLeft(LAMBDA v, i : IF Due(v) = {} THEN v ELSE Stolen(v, NextThief(v)), w,
                      [i \in 1..(2 * Len(w.fight.thieves)) |-> i])

\* Each steal is booked; then what the player's own gold has grown by since
\* the last command.
sync_live_gold(w) ==
  [Robbed(w) EXCEPT !.run.gold = @ + (w.fight.earned - w.fight.banked),
                    !.fight.banked = w.fight.earned]

\* The Fairies the fight no longer has armed leave the belt, from the left.
burn_consumed_fairies(w) ==
  LET burn(r, i) == IF Cardinality(BeltFairies(r)) > w.fight.armed /\ r.belt[i] = "fairy"
                    THEN ClearSlot(r, i) ELSE r
  IN  On(w, FoldLeft(burn, w.run, [i \in DOMAIN w.run.belt |-> i]))

\* mutant: the fight's copies of the counters are left as they were
drain_pending_obtains_OneWay(w) ==
  LET live == [w.run EXCEPT !.hp = w.fight.hp, !.max = w.fight.max,
                            !.tail = w.fight.tail, !.charm = w.fight.charm]
      r == FoldLeft(AddCard, live, w.fight.cards)
  IN  IF w.fight.cards = <<>> THEN w
      ELSE [On(w, r) EXCEPT !.fight.cards = <<>>, !.fight.hp = r.hp, !.fight.max = r.max]

\* The relics that answer a card work on the run: health and counters go
\* there and come back.
drain_pending_obtains(w) ==
  LET live == [w.run EXCEPT !.hp = w.fight.hp, !.max = w.fight.max, !.tail = w.fight.tail,
                            !.charm = w.fight.charm, !.doll = w.fight.doll]
      r == FoldLeft(AddCard, live, w.fight.cards)
  IN  IF w.fight.cards = <<>> THEN w
      ELSE [On(w, r) EXCEPT !.fight.cards = <<>>, !.fight.hp = r.hp, !.fight.max = r.max,
                            !.fight.tail = r.tail, !.fight.charm = r.charm, !.fight.doll = r.doll]

\* mutant: a Fairy brewed in the fight is not armed
drain_pending_potions_Unarmed(w) ==
  [On(w, IF Owns(w.run, "sozu") THEN w.run ELSE FoldLeft(PutPotion, w.run, w.fight.potions))
     EXCEPT !.fight.potions = <<>>]

\* Sozu drops them; a Fairy that finds a slot is armed.
drain_pending_potions(w) ==
  LET r == IF Owns(w.run, "sozu") THEN w.run ELSE FoldLeft(PutPotion, w.run, w.fight.potions)
      placed == Cardinality(BeltFairies(r)) - Cardinality(BeltFairies(w.run))
  IN  [On(w, r) EXCEPT !.fight.potions = <<>>, !.fight.armed = @ + placed]

fold_back_combat(w) ==
  LET v == sync_live_gold(burn_consumed_fairies(drain_pending_potions(w)))
      f == v.fight
  IN  [v EXCEPT !.run.hp = f.hp, !.run.max = f.max, !.run.tail = f.tail,
                !.run.charm = f.charm, !.run.doll = f.doll,
                !.fight.earned = 0, !.fight.banked = 0]

\* settle_stolen_gold: only the dead give back.
settle_stolen_gold(f) ==
  FoldLeft(LAMBDA sum, t : sum + (IF t.live = "dead" THEN t.taken ELSE 0), 0, f.thieves)

have_monsters_escaped(f) ==
  f.thieves # <<>> /\ \A i \in DOMAIN f.thieves : f.thieves[i].live = "fled"

\* Meat on the Bone, then the relics of a victory.
Victorious(w) ==
  LET bloodied == w.fight.hp > 0 /\ 2 * w.fight.hp <= w.fight.max
      meat == IF Owns(w.run, "meat_on_the_bone") /\ bloodied
              THEN heal_player_with_relics(w, 12) ELSE w
      blood == CASE meat.fight.hp <= 0 -> meat
                 [] Owns(w.run, "burning_blood") -> heal_player_with_relics(meat, 6)
                 [] Owns(w.run, "black_blood") -> heal_player_with_relics(meat, 12)
                 [] OTHER -> meat
  IN  IF Owns(w.run, "face_of_cleric")
      THEN [blood EXCEPT !.fight.max = @ + 1, !.fight.hp = Least(@ + 1, blood.fight.max + 1)]
      ELSE blood

\* enter_combat_reward.
RewardsOf(w) ==
  LET v == fold_back_combat(Victorious(w))
      outcome == CASE w.fight.mugged /\ have_monsters_escaped(w.fight) -> "monsters_escaped"
                   [] w.fight.smoked /\ ~w.fight.mugged -> "player_escaped"
                   [] OTHER -> "killed"
  IN  assemble_combat_rewards([v EXCEPT !.phase = "reward"], outcome, settle_stolen_gold(v.fight))

\* A fight lost, won in a dialog that goes on, or won.
finish_combat_after_action(w) ==
  CASE ~w.fight.over -> {w}
    [] w.fight.over /\ w.fight.hp <= 0 -> {[fold_back_combat(w) EXCEPT !.phase = "over"]}
    [] w.fight.over /\ w.fight.hp > 0 /\ w.room = "event" /\ event_combat_reopens(w) ->
         {event_combat_reopen(fold_back_combat(Victorious(w)))}
    [] OTHER -> RewardsOf(w)

CommandEnds(w) ==
  LET booked == burn_consumed_fairies(sync_live_gold(w))
      drained == drain_pending_potions(drain_pending_obtains(booked))
  IN  finish_combat_after_action([drained EXCEPT !.fight.mid = FALSE])

(***************************************************************************)
(* The belt in use (run_advance.cpp's step_potion and step_discard_potion). *)
(* "plain" stands for the potions that do their work in the fight alone.   *)
(***************************************************************************)
BargainUnderway(w) == w.phase = "dialog" /\ w.ev.id = "WeMeetAgain"

\* No potion is drunk while an item waits in the queue, nor in a fight that is
\* over; a boss is not left behind in smoke.
combat_potion_legal(w, i) ==
  /\ w.phase = "fight" /\ ~w.fight.mid /\ ~w.fight.over
  /\ w.run.belt[i] \notin {"none", "fairy"}
  /\ w.run.belt[i] = "smoke" => w.fight.foes \notin Bosses

noncombat_potion_legal(w, i) ==
  /\ w.phase \notin {"fight", "over"} /\ ~BargainUnderway(w)
  /\ w.run.belt[i] \in {"blood", "fruit", "brew"}

potion_discard_legal(w, i) ==
  /\ w.phase # "over" /\ ~BargainUnderway(w)
  /\ w.phase = "fight" => ~w.fight.mid
  /\ w.run.belt[i] # "none"

Potency(r, n) == IF Owns(r, "bark") THEN 2 * n ELSE n

Emptied(w, i) == On(w, ClearSlot(w.run, i))

Rolls(r) == [DOMAIN r.belt -> RandomPotions]

\* Outside a fight: Toy Ornithopter heals before the blood's slot is cleared
\* and after the juice or the brew; the order shows nowhere.
DrunkAtRest(w, i) ==
  LET r == w.run
      left == ClearSlot(r, i)
      toy(q) == IF Owns(q, "ornithopter") THEN HealOutOfCombat(q, 5) ELSE q
      juice == Potency(r, 5)
      brewed == IF Owns(r, "sozu") THEN {left}
                ELSE {FoldLeft(PutPotion, left, f) : f \in Rolls(r)}
  IN  CASE r.belt[i] = "blood" ->
             {On(w, toy(HealOutOfCombat(left, Percent(r.max, Potency(r, 20)))))}
        [] r.belt[i] = "fruit" ->
             {On(w, toy([left EXCEPT !.max = @ + juice, !.hp = @ + juice]))}
        [] r.belt[i] = "brew" -> {On(w, toy(q)) : q \in brewed}

\* use_fruit_juice raises the ceiling in the fight and on the run.
Juiced(w) ==
  LET n == Potency(w.run, 5)
  IN  [w EXCEPT !.fight.max = @ + n, !.fight.hp = @ + n, !.run.max = w.fight.max + n]

\* In a fight: what the potion does there, then Toy Ornithopter.
DrunkInFight(w, i) ==
  LET left == Emptied(w, i)
      toy(v) == IF Owns(v.run, "ornithopter") THEN heal_player_with_relics(v, 5) ELSE v
      p == w.run.belt[i]
  IN  CASE p = "blood" ->
             {toy(heal_player_with_relics(left, Percent(w.fight.max, Potency(w.run, 20))))}
        [] p = "fruit" -> {toy(Juiced(left))}
        [] p = "brew" -> {toy([left EXCEPT !.fight.potions = f]) : f \in Rolls(w.run)}
        [] OTHER ->
             {toy(left)} \cup {toy(ThiefGone(left, t, "dead")) : t \in InFight(w)}
               \cup {toy(Won(left)) : t \in {t \in {0} : w.fight.thieves = <<>>}}

\* Smoke Bomb goes to the rewards by itself and asks no one.
Smoked(w, i) ==
  LET out == [Emptied(w, i) EXCEPT !.fight.over = TRUE, !.fight.smoked = TRUE]
  IN  RewardsOf(IF Owns(w.run, "ornithopter") THEN heal_player_with_relics(out, 5) ELSE out)

\* step_potion: a potion drunk in a fight ends a command there.
PotionUsed(w, i) ==
  CASE w.phase # "fight" -> DrunkAtRest(w, i)
    [] w.phase = "fight" /\ w.run.belt[i] = "smoke" -> Smoked(w, i)
    [] OTHER -> UNION {CommandEnds(v) : v \in DrunkInFight(w, i)}

\* step_discard_potion: a Fairy thrown away in a fight is no longer armed.
PotionDiscarded(w, i) ==
  IF w.phase = "fight" /\ w.run.belt[i] = "fairy"
  THEN [Emptied(w, i) EXCEPT !.fight.armed = Most(0, @ - 1)] ELSE Emptied(w, i)
=============================================================================
