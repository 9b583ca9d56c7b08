------------------------------ MODULE DuelPowers ------------------------------
(***************************************************************************)
(* The power hooks (src/engine/powers/*.cpp and power_hooks.cpp).  One     *)
(* operator per power; c is the HookContext: o the owner, n and k the      *)
(* amount and counter the slot had when its turn came, i the slot's place, *)
(* row the card's pool row, tgt, src, amt, ty what the caller knows.  No   *)
(* damage here lacks a source (a thrown potion's would).                   *)
(*                                                                         *)
(* Almost every hook queues items.  Few write at once, and those are the   *)
(* ones whose place in the walk matters: Regeneration removes its own slot *)
(* while the walk over the list is under way.                              *)
(***************************************************************************)
EXTENDS DuelState

CONSTANTS
  Countdown,      \* kTimeWarpCountdown, 12: cards per Time Warp
  PanacheCards,   \* kPanacheCardAmount, 5
  Blast           \* kExplosiveBlastDamage, 30

ASSUME PowerAssumption ==
  /\ Countdown \in Nat \ {0}
  /\ PanacheCards \in Nat \ {0}
  /\ Blast \in Nat

IsType(f, c, ty) == TypeOfRow(f, c.row) = ty

(***************************************************************************)
(* Healing: the Mark of the Bloom stops it, the Magic Flower adds half,    *)
(* and a player back above half health loses the Red Skull's Strength.     *)
(***************************************************************************)

Bloodied(f) == 2 * f.act[Player].hp <= f.act[Player].max
OnNotBloodied(f) ==
  IF "RED_SKULL" \in f.flag /\ HasRelic(f, "RED_SKULL")
  THEN Top([f EXCEPT !.flag = @ \ {"RED_SKULL"}], Gain(Player, "STRENGTH", -3))
  ELSE f
Healed(f, n) == IF HasRelic(f, "MARK_OF_THE_BLOOM") THEN 0
                ELSE IF n > 0 /\ HasRelic(f, "MAGIC_FLOWER") THEN (3 * n + 1) \div 2
                ELSE n
Smaller(m, n) == IF m < n THEN m ELSE n
\* A heal that leaves the player at half health or below tells nobody.
Recovered(f) == IF Bloodied(f) THEN f ELSE OnNotBloodied(f)
HealPlayer(f, n) ==
  Recovered([f EXCEPT !.act[Player].hp = Smaller(@ + Healed(f, n), f.act[Player].max)])
HealMonster(f, m, n) ==
  IF Dying(f, m) THEN f ELSE [f EXCEPT !.act[m].hp = Smaller(@ + n, f.act[m].max)]

(***************************************************************************)
(* Entering a power list (add_power_to_list).  A stack that is there grows, *)
(* unless the power says otherwise; a new one may start with a counter.    *)
(***************************************************************************)

StartsJustApplied(f, a, id, byMonster) ==
  /\ a = Player /\ byMonster
  /\ id \in {"WEAK", "FRAIL"} \/ (id = "VULNERABLE" /\ f.ended)
Fresh(f, a, id, n, k, byMonster) ==
  Slot(id, IF id = "PANACHE" THEN PanacheCards ELSE n,
       CASE id \in {"PANACHE", "MALLEABLE", "FLIGHT"} -> n
         [] \/ StartsJustApplied(f, a, id, byMonster)
            \/ id \in {"DRAW_REDUCTION", "INTANGIBLE_MONSTER"} -> 1
         [] OTHER -> k)
Stacked(f, a, i, n) ==
  LET p == Pow(f, a)[i]
      grown == SetAmount(f, a, i, p.amt + n)
  IN  CASE p.id = "PANACHE" -> SetCounter(f, a, i, p.ctr + n)
        [] p.id = "CONFUSION" -> f
        [] p.id = "MALLEABLE" -> SetCounter(grown, a, i, p.ctr + n)
        [] p.id = "COMBUST" /\ a = Player -> [grown EXCEPT !.combust = @ + 1]
        [] p.id \in {"STRENGTH", "DEXTERITY"} /\ p.amt + n = 0 -> Top(grown, Drop(a, p.id))
        [] OTHER -> grown
Appended(f, a, slot, sort) ==
  LET pow == Append(Pow(f, a), slot) IN
  [f EXCEPT !.act[a].pow = IF sort THEN InPriority(pow) ELSE pow,
            !.act[a].mark = IF slot.id = "CURL_UP" THEN @ \ {"CURLED"} ELSE @,
            !.combust = IF slot.id = "COMBUST" /\ a = Player THEN 1 ELSE @]
AddToList(f, a, id, n, k, byMonster, sort) ==
  IF id \notin Instanced /\ HasSlot(f, a, id) THEN Stacked(f, a, SlotOf(f, a, id), n)
  ELSE IF Len(Pow(f, a)) >= PowerCap THEN f
  ELSE Appended(f, a, Fresh(f, a, id, n, k, byMonster), sort)

(***************************************************************************)
(* Hooks of a card being used, drawn or exhausted.                         *)
(***************************************************************************)

Anger(f, c) == IF IsType(f, c, "SKILL") THEN Top(f, Gain(c.o, "STRENGTH", c.n)) ELSE f
Curiosity(f, c) == IF IsType(f, c, "POWER") THEN Bot(f, Gain(c.o, "STRENGTH", c.n)) ELSE f
Hex(f, c) == IF IsType(f, c, "ATTACK") THEN f ELSE Bot(f, Make("DRAW_RANDOM", "DAZED", c.n))
SharpHide(f, c) ==
  IF IsType(f, c, "ATTACK") THEN Bot(f, Hit(c.o, Player, c.n, "THORNS")) ELSE f
SpentByAttack(f, c, pw) == IF IsType(f, c, "ATTACK") THEN Bot(f, Drop(c.o, pw)) ELSE f
PenNibSpent(f, c) == SpentByAttack(f, c, "PEN_NIB")
VigorSpent(f, c) == SpentByAttack(f, c, "VIGOR")
RageOnAttack(f, c) == IF IsType(f, c, "ATTACK") THEN Bot(f, Shield(c.o, c.n)) ELSE f
RageEnds(f, c) == Bot(f, Drop(c.o, "RAGE"))

\* Double Tap and Duplication copy the card, spend a charge at once and queue
\* their removal with the last one.  A copy is never copied.
SpendCharge(f, c, pw) ==
  LET i == SlotOf(f, c.o, pw)
      g == SetAmount(f, c.o, i, Pow(f, c.o)[i].amt - 1)
  IN  IF i = 0 THEN f
      ELSE IF Pow(g, c.o)[i].amt = 0 THEN Bot(g, Drop(c.o, pw)) ELSE g
CopyAndSpend(f, c, pw) ==
  IF c.n <= 0 \/ Purged(f, c.row) THEN f ELSE SpendCharge(Replay(f, c.row, c.tgt), c, pw)
DoubleTap(f, c) == IF IsType(f, c, "ATTACK") THEN CopyAndSpend(f, c, "DOUBLE_TAP") ELSE f
DoubleTapEnds(f, c) == IF c.o = Player THEN Bot(f, Drop(c.o, "DOUBLE_TAP")) ELSE f
Duplication(f, c) == CopyAndSpend(f, c, "DUPLICATION")
DuplicationFades(f, c) ==
  Bot(f, IF c.n = 0 THEN Drop(c.o, "DUPLICATION") ELSE Lessen(c.o, "DUPLICATION"))

CorruptionOnUse(f, c) ==
  IF IsType(f, c, "SKILL") THEN [f EXCEPT !.card[c.row].flags = @ \cup {"EXHAUST_ONCE"}] ELSE f
CorruptionOnDraw(f, c) == IF IsType(f, c, "SKILL") THEN SetCostForTurn(f, c.row, 0) ELSE f

Panache(f, c) ==
  IF c.n # 1 THEN SetAmount(f, c.o, c.i, c.n - 1)
  ELSE Bot(SetAmount(f, c.o, c.i, PanacheCards), Hit(c.o, Foe(c.o), c.k, "THORNS"))
PanacheAnew(f, c) == SetAmount(f, c.o, c.i, PanacheCards)

BeatOfDeath(f, c) == Bot(f, Hit(c.o, Player, c.n, "THORNS"))
Slow(f, c) == Bot(f, Gain(c.o, "SLOW", 1))
SlowAnew(f, c) == SetAmount(f, c.o, c.i, 0)
\* The one hook that runs an opcode on the spot: the turn ends behind every
\* item that waits, and every monster record gains Strength, dead or not.
TimeWarp(f, c) ==
  LET rise(g) == Bots(g, [m \in 1 .. Cardinality(Monsters(f)) |-> Gain(m, "STRENGTH", 2)])
      clock(g) == [g EXCEPT !.cq = << >>, !.closing = TRUE]
  IN  IF c.n + 1 # Countdown THEN SetAmount(f, c.o, c.i, c.n + 1)
      ELSE rise(clock(SetAmount(f, c.o, c.i, 0)))

\* randomize_card_cost: a price from 0 to 3 becomes the card's own, unless it
\* is that already.
RandomizeCost(f, r, fresh) ==
  LET new == f.roll % 4
      g == IF new = InstanceBase(f.card[r]) THEN f ELSE [f EXCEPT !.card[r] = Permanent(@, new)]
  IN  IF IsUnplayable(f.card[r].id) \/ IsXCost(f.card[r].id) THEN f
      ELSE IF fresh THEN [g EXCEPT !.card[r].flags = @ \ {"FREE_ONCE"}] ELSE g
Confusion(f, c) == RandomizeCost(f, c.row, TRUE)
Evolve(f, c) ==
  IF HasSlot(f, c.o, "NO_DRAW") \/ ~IsType(f, c, "STATUS") THEN f ELSE Bot(f, Draw(c.n))
FireBreathing(f, c) ==
  IF IsType(f, c, "STATUS") \/ IsType(f, c, "CURSE")
  THEN Bot(f, Hit(c.o, Foe(c.o), c.n, "THORNS")) ELSE f

FeelNoPain(f, c) == Bot(f, Shield(c.o, c.n))
DarkEmbrace(f, c) == IF Fighting(f) = {} THEN f ELSE Bot(f, Draw(c.n))

(***************************************************************************)
(* Hooks of damage and death.  All of them come before the hp is written,  *)
(* except Rupture, Plated Armor (wasHPLost) and Painful Stabs.             *)
(***************************************************************************)

Survives(f, c) == c.amt > 0 /\ c.amt < f.act[c.o].hp

Angry(f, c) == IF c.amt <= 0 THEN f ELSE Top(f, Gain(c.o, "STRENGTH", c.n))
CurlUp(f, c) ==
  IF c.src = c.o \/ ~Survives(f, c) \/ "CURLED" \in f.act[c.o].mark THEN f
  ELSE Bots([f EXCEPT !.act[c.o].mark = @ \cup {"CURLED"}],
            <<Shield(c.o, c.n), Drop(c.o, "CURL_UP")>>)
Retort(f, c) == IF c.src = c.o THEN f ELSE Top(f, Hit(c.o, c.src, c.n, "THORNS"))
FlameBarrierEnds(f, c) == Bot(f, Drop(c.o, "FLAME_BARRIER"))
Flight(f, c) ==
  IF c.amt <= 0 \/ c.amt >= 2 * f.act[c.o].hp THEN f ELSE Bot(f, Lessen(c.o, "FLIGHT"))
Malleable(f, c) ==
  IF ~Survives(f, c) THEN f
  ELSE Bot(SetAmount(f, c.o, c.i, c.n + 1), Shield(c.o, c.n))
Refilled(f, c) == SetAmount(f, c.o, c.i, c.k)
MalleableMonster(f, c) == IF c.o = Player THEN f ELSE Refilled(f, c)
MalleablePlayer(f, c) == IF c.o = Player THEN Refilled(f, c) ELSE f
FlightAnew(f, c) == Refilled(f, c)
InvincibleAnew(f, c) == Refilled(f, c)
Reactive(f, c) ==
  IF c.o = Player \/ ~Survives(f, c) THEN f
  ELSE Bot(f, Item("ROLL_MOVE", c.o, c.o, 0, ""))
\* Mutant: the Strength a blow takes is never owed back.
Shifting_ForGood(f, c) ==
  IF c.amt <= 0 THEN f ELSE Top(f, Gain(c.o, "STRENGTH", -c.amt))
\* Strength falls by the damage, and comes back through Shackled unless the
\* owner has an Artifact to eat the loss.
Shifting(f, c) ==
  LET down == Top(f, Gain(c.o, "STRENGTH", -c.amt)) IN
  IF c.amt <= 0 THEN f
  ELSE IF HasSlot(f, c.o, "ARTIFACT") THEN down ELSE Top(down, Gain(c.o, "SHACKLED", c.amt))

Rupture(f, c) ==
  IF c.src # c.o \/ c.amt <= 0 THEN f ELSE Top(f, Gain(c.o, "STRENGTH", c.n))
PlatedArmorChips(f, c) ==
  IF c.ty \in {"THORNS", "HP_LOSS"} \/ c.src = c.o \/ c.amt <= 0 THEN f
  ELSE Bot(f, Lessen(c.o, "PLATED_ARMOR"))
PlatedArmorShields(f, c) == Bot(f, Shield(c.o, c.n))
PainfulStabs(f, c) ==
  IF c.amt <= 0 \/ c.ty = "THORNS" THEN f ELSE Bot(f, Make("DISCARD", "WOUND", 1))

SporeCloud(f, c) ==
  IF Fighting(f) = {} THEN f ELSE Top(f, Inflict(c.o, Player, "VULNERABLE", c.n))
Stasis(f, c) ==
  IF c.k <= 0 THEN f
  ELSE Bot(f, Item("STASIS_RETURN", c.o, Player, c.k,
                   IF Len(f.hand) # HandCap THEN "HAND" ELSE "DISCARD"))
Sadistic(f, c) ==
  IF c.pw = "SHACKLED" \/ c.pw \notin Debuffs \/ c.tgt = c.o \/ HasSlot(f, c.tgt, "ARTIFACT")
  THEN f ELSE Bot(f, Hit(c.o, c.tgt, c.n, "THORNS"))

(***************************************************************************)
(* Hooks of the turn.                                                      *)
(***************************************************************************)

CombustLoss(f) == IF f.combust = 0 THEN 1 ELSE f.combust
Combust(f, c) ==
  IF \A m \in Monsters(f) : Dying(f, m) THEN f
  ELSE Bots(f, <<Item("LOSE_HP", c.o, c.o, CombustLoss(f), ""), Hit(c.o, Foe(c.o), c.n, "THORNS")>>)
Constricted(f, c) == Bot(f, Hit(IF c.k = 0 THEN 1 ELSE c.k, c.o, c.n, "THORNS"))
LoseStrength(f, c) == Bots(f, <<Gain(c.o, "STRENGTH", -c.n), Drop(c.o, "LOSE_STRENGTH")>>)
LoseDexterity(f, c) == Bots(f, <<Gain(c.o, "DEXTERITY", -c.n), Drop(c.o, "LOSE_DEXTERITY")>>)
NextTurnBlock(f, c) == Bots(f, <<Shield(c.o, c.n), Drop(c.o, "NEXT_TURN_BLOCK")>>)
Magnetism(f, c) ==
  IF Fighting(f) = {} THEN f ELSE Bots(f, [j \in 1 .. c.n |-> Make("HAND", "SWIFT_STRIKE", 1)])
Mayhem(f, c) == Bots(f, [j \in 1 .. c.n |-> Item("PLAY_TOP", Player, Player, 0, "DEFER")])
RitualPlayer(f, c) == IF c.o = Player THEN Bot(f, Gain(c.o, "STRENGTH", c.n)) ELSE f
RitualMonster(f, c) ==
  IF c.o = Player THEN f
  ELSE IF "RITUAL_SKIP" \in f.act[c.o].mark
       THEN [f EXCEPT !.act[c.o].mark = @ \ {"RITUAL_SKIP"}]
       ELSE Bot(f, Gain(c.o, "STRENGTH", c.n))

\* Heals at once and drops its slot at once when the stack is used up.
UseUp(f, a, i) ==
  IF i = 0 THEN f
  ELSE IF Pow(f, a)[i].amt <= 1 THEN RemoveSlot(f, a, i)
  ELSE SetAmount(f, a, i, Pow(f, a)[i].amt - 1)
Regen(f, c) ==
  IF c.o # Player THEN HealMonster(f, c.o, c.n)
  ELSE UseUp(IF f.act[Player].hp > 0 THEN HealPlayer(f, c.n) ELSE f, Player, SlotOf(f, Player, "REGEN"))
RegenerateMonster(f, c) == IF c.o = Player THEN f ELSE HealMonster(f, c.o, c.n)

\* A bomb names its own instance by what its slot holds now, counts down and
\* goes off as its count runs out.
TheBomb(f, c) ==
  LET it == Keyed(Lessen(c.o, "THE_BOMB"), c.n * 1000 + c.k) IN
  IF Fighting(f) = {} THEN f
  ELSE IF c.n # 1 THEN Bot(f, it)
  ELSE Bots(f, <<it, Hit(c.o, Foe(c.o), c.k, "THORNS")>>)

\* Vulnerable, Weak and Frail from a monster's own turn are not counted in the
\* round they arrive in; Draw Reduction and Intangible likewise.
JustApplied(f, c) == Pow(f, c.o)[c.i].ctr # 0
Fades(f, c) ==
  IF JustApplied(f, c) THEN SetCounter(f, c.o, c.i, 0)
  ELSE Bot(f, IF c.n = 0 THEN Drop(c.o, c.id) ELSE Lessen(c.o, c.id))
DurationDebuff(f, c) == Fades(f, c)
IntangibleMonster(f, c) == Fades(f, c)
DrawReduction(f, c) ==
  IF JustApplied(f, c) THEN SetCounter(f, c.o, c.i, 0) ELSE Bot(f, Lessen(c.o, "DRAW_REDUCTION"))

Explosive(f, c) ==
  IF c.n # 1 \/ Dying(f, c.o) THEN Bot(f, Lessen(c.o, "EXPLOSIVE"))
  ELSE Bots(f, <<Item("SUICIDE", c.o, c.o, 0, ""), Hit(c.o, Player, Blast, "THORNS")>>)
Fading(f, c) ==
  IF c.o = Player THEN f
  ELSE IF c.n = 1 /\ ~Dying(f, c.o) THEN Bot(f, Item("SUICIDE", c.o, c.o, 0, ""))
  ELSE Bot(f, Lessen(c.o, "FADING"))

(***************************************************************************)
(* Which power answers which hook (the bindings of the power registry).    *)
(***************************************************************************)

OnUseCard(f, c) ==
  CASE c.id = "ANGER" -> Anger(f, c)
    [] c.id = "CURIOSITY" -> Curiosity(f, c)
    [] c.id = "HEX" -> Hex(f, c)
    [] c.id = "SHARP_HIDE" -> SharpHide(f, c)
    [] c.id = "PEN_NIB" -> PenNibSpent(f, c)
    [] c.id = "VIGOR" -> VigorSpent(f, c)
    [] c.id = "RAGE" -> RageOnAttack(f, c)
    [] c.id = "DOUBLE_TAP" -> DoubleTap(f, c)
    [] c.id = "DUPLICATION" -> Duplication(f, c)
    [] c.id = "CORRUPTION" -> CorruptionOnUse(f, c)
    [] c.id = "PANACHE" -> Panache(f, c)
    [] OTHER -> f
OnAfterUseCard(f, c) ==
  CASE c.id = "BEAT_OF_DEATH" -> BeatOfDeath(f, c)
    [] c.id = "SLOW" -> Slow(f, c)
    [] c.id = "TIME_WARP" -> TimeWarp(f, c)
    [] OTHER -> f
OnCardDraw(f, c) ==
  CASE c.id = "CORRUPTION" -> CorruptionOnDraw(f, c)
    [] c.id = "CONFUSION" -> Confusion(f, c)
    [] c.id = "EVOLVE" -> Evolve(f, c)
    [] c.id = "FIRE_BREATHING" -> FireBreathing(f, c)
    [] OTHER -> f
OnExhaust(f, c) ==
  CASE c.id = "FEEL_NO_PAIN" -> FeelNoPain(f, c)
    [] c.id = "DARK_EMBRACE" -> DarkEmbrace(f, c)
    [] OTHER -> f
OnAttacked(f, c) ==
  CASE c.id = "ANGRY" -> Angry(f, c)
    [] c.id = "CURL_UP" -> CurlUp(f, c)
    [] c.id \in {"THORNS", "FLAME_BARRIER"} -> Retort(f, c)
    [] c.id = "FLIGHT" -> Flight(f, c)
    [] c.id = "MALLEABLE" -> Malleable(f, c)
    [] c.id = "REACTIVE" -> Reactive(f, c)
    [] c.id = "SHIFTING" -> Shifting(f, c)
    [] OTHER -> f
\* Thorns, a loss of hp and a blow to oneself reach only this one.
OnAttackedTolerant(f, c) == IF c.id = "SHIFTING" THEN Shifting(f, c) ELSE f
WasHpLost(f, c) ==
  CASE c.id = "RUPTURE" -> Rupture(f, c)
    [] c.id = "PLATED_ARMOR" -> PlatedArmorChips(f, c)
    [] OTHER -> f
OnDeath(f, c) ==
  CASE c.id = "SPORE_CLOUD" -> SporeCloud(f, c)
    [] c.id = "STASIS" -> Stasis(f, c)
    [] OTHER -> f
PreCard(f, c) ==
  CASE c.id = "METALLICIZE" -> Bot(f, Shield(c.o, c.n))
    [] c.id = "PLATED_ARMOR" -> PlatedArmorShields(f, c)
    [] OTHER -> f
AtEndOfTurn(f, c) ==
  CASE c.id = "COMBUST" -> Combust(f, c)
    [] c.id = "CONSTRICTED" -> Constricted(f, c)
    [] c.id = "LOSE_STRENGTH" -> LoseStrength(f, c)
    [] c.id = "LOSE_DEXTERITY" -> LoseDexterity(f, c)
    [] c.id = "RAGE" -> RageEnds(f, c)
    [] c.id = "DOUBLE_TAP" -> DoubleTapEnds(f, c)
    [] c.id \in {"NO_DRAW", "ENTANGLE"} -> Bot(f, Drop(c.o, c.id))
    [] c.id = "SHACKLED" -> Bots(f, <<Gain(c.o, "STRENGTH", c.n), Drop(c.o, "SHACKLED")>>)
    [] c.id = "REGEN" -> Regen(f, c)
    [] c.id = "REGENERATE_MONSTER" -> RegenerateMonster(f, c)
    [] c.id = "RITUAL" -> RitualPlayer(f, c)
    [] c.id = "THE_BOMB" -> TheBomb(f, c)
    [] c.id = "MALLEABLE" -> MalleableMonster(f, c)
    [] c.id = "INTANGIBLE_MONSTER" -> IntangibleMonster(f, c)
    [] OTHER -> f
AtEndOfRound(f, c) ==
  CASE c.id \in {"VULNERABLE", "WEAK", "FRAIL"} -> DurationDebuff(f, c)
    [] c.id = "DUPLICATION" -> DuplicationFades(f, c)
    [] c.id \in {"INTANGIBLE", "NO_BLOCK"} -> Bot(f, Lessen(c.o, c.id))
    [] c.id = "GENERIC_STRENGTH_UP" -> Bot(f, Gain(c.o, "STRENGTH", c.n))
    [] c.id = "RITUAL" -> RitualMonster(f, c)
    [] c.id = "MALLEABLE" -> MalleablePlayer(f, c)
    [] c.id = "SLOW" -> SlowAnew(f, c)
    [] c.id = "DRAW_REDUCTION" -> DrawReduction(f, c)
    [] OTHER -> f
AtStartOfTurn(f, c) ==
  CASE c.id = "BERSERK" -> Bot(f, Energy(c.n))
    [] c.id = "FLAME_BARRIER" -> FlameBarrierEnds(f, c)
    [] c.id = "NEXT_TURN_BLOCK" -> NextTurnBlock(f, c)
    [] c.id = "MAGNETISM" -> Magnetism(f, c)
    [] c.id = "MAYHEM" -> Mayhem(f, c)
    [] c.id = "PANACHE" -> PanacheAnew(f, c)
    [] c.id = "FLIGHT" -> FlightAnew(f, c)
    [] c.id = "INVINCIBLE" -> InvincibleAnew(f, c)
    [] OTHER -> f
PostDraw(f, c) ==
  CASE c.id = "BRUTALITY" -> Bots(f, <<Draw(c.n), Item("LOSE_HP", c.o, c.o, c.n, "")>>)
    [] c.id = "DEMON_FORM" -> Bot(f, Gain(c.o, "STRENGTH", c.n))
    [] OTHER -> f
DuringTurn(f, c) ==
  CASE c.id = "EXPLOSIVE" -> Explosive(f, c)
    [] c.id = "FADING" -> Fading(f, c)
    [] OTHER -> f

OnHook(f, hook, c) ==
  CASE hook = "USE_CARD" -> OnUseCard(f, c)
    [] hook = "AFTER_USE_CARD" -> OnAfterUseCard(f, c)
    [] hook = "CARD_DRAW" -> OnCardDraw(f, c)
    [] hook = "EXHAUST" -> OnExhaust(f, c)
    [] hook = "ATTACKED" -> OnAttacked(f, c)
    [] hook = "ATTACKED_TOLERANT" -> OnAttackedTolerant(f, c)
    [] hook = "HP_LOST" -> WasHpLost(f, c)
    [] hook = "DEATH" -> OnDeath(f, c)
    [] hook = "GAINED_BLOCK" ->
         IF c.id = "JUGGERNAUT" THEN Bot(f, Hit(c.o, RandomEnemy, c.n, "THORNS")) ELSE f
    [] hook = "INFLICT_DAMAGE" -> IF c.id = "PAINFUL_STABS" THEN PainfulStabs(f, c) ELSE f
    [] hook = "APPLY_POWER" -> IF c.id = "SADISTIC" THEN Sadistic(f, c) ELSE f
    [] hook = "PRE_CARD" -> PreCard(f, c)
    [] hook = "END_OF_TURN" -> AtEndOfTurn(f, c)
    [] hook = "END_OF_ROUND" -> AtEndOfRound(f, c)
    [] hook = "START_OF_TURN" -> AtStartOfTurn(f, c)
    [] hook = "POST_DRAW" -> PostDraw(f, c)
    [] hook = "DURING_TURN" -> DuringTurn(f, c)

\* dispatch_actor_powers: the walk counts the slots once and then reads the
\* live list, place by place.
AtPlace(f, a, hook, c, i) ==
  IF i > Len(Pow(f, a)) THEN f
  ELSE OnHook(f, hook, [c EXCEPT !.o = a, !.i = i, !.id = Pow(f, a)[i].id,
                                 !.n = Pow(f, a)[i].amt, !.k = Pow(f, a)[i].ctr])
Fire(f, a, hook, c) ==
  FoldLeft(LAMBDA g, i : AtPlace(g, a, hook, c, i), f, [i \in 1 .. Len(Pow(f, a)) |-> i])
FireAll(f, as, hook, c) == FoldLeft(LAMBDA g, a : Fire(g, a, hook, c), f, as)
===============================================================================
