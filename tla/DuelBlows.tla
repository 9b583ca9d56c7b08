------------------------------ MODULE DuelBlows ------------------------------
(***************************************************************************)
(* Damage, block, hp loss and the application of powers: the opcodes of    *)
(* src/engine/interp/interp_damage.cpp, interp_block.cpp and               *)
(* interp_powers.cpp.  A percentage is exact here: a quantity in           *)
(* flight is a fraction <<num, den>>, cut to a whole number at the end.    *)
(***************************************************************************)
EXTENDS DuelRelics

Times(q, n, d) == <<q[1] * n, q[2] * d>>
Plus(q, n) == <<q[1] + n * q[2], q[2]>>
Floor(q) == q[1] \div q[2]
Clamp(n) == IF n < 0 THEN 0 ELSE n

(***************************************************************************)
(* What a blow is worth: the attacker's powers in list order, then the     *)
(* target's, then the target's last word.                                  *)
(***************************************************************************)

AtDamageGive(q, p, strengthMult) ==
  CASE p.id = "STRENGTH" -> Plus(q, p.amt * strengthMult)
    [] p.id = "VIGOR" -> Plus(q, p.amt)
    [] p.id = "PEN_NIB" -> Times(q, 2, 1)
    [] p.id = "WEAK" -> Times(q, 3, 4)
    [] OTHER -> q
AtDamageReceive(f, a, q, p) ==
  CASE p.id = "VULNERABLE" ->
         IF a = Player /\ HasRelic(f, "ODD_MUSHROOM") THEN Times(q, 5, 4)
         ELSE IF a # Player /\ HasRelic(f, "PAPER_PHROG") THEN Times(q, 7, 4)
         ELSE Times(q, 3, 2)
    [] p.id = "SLOW" -> Times(q, 10 + p.amt, 10)
    [] OTHER -> q
AtDamageFinalReceive(q, p) ==
  CASE p.id \in {"INTANGIBLE", "INTANGIBLE_MONSTER"} -> IF q[1] > q[2] THEN <<1, 1>> ELSE q
    [] p.id = "FLIGHT" -> Times(q, 1, 2)
    [] OTHER -> q
OwnerStage(f, src, base, mult) ==
  FoldLeft(LAMBDA q, p : AtDamageGive(q, p, mult), <<base, 1>>, Pow(f, src))
FromOwnerStage(f, tgt, q) ==
  LET received == FoldLeft(LAMBDA r, p : AtDamageReceive(f, tgt, r, p), q, Pow(f, tgt))
      last == FoldLeft(AtDamageFinalReceive, received, Pow(f, tgt))
  IN  Clamp(Floor(last))

(***************************************************************************)
(* What is left of it at the victim.  A blow on its way is a record w of   *)
(* the fight f, source, target, amount, type, and how much hp it cost; a   *)
(* loss of hp is on the same way but meets no block, Boot or Torii.        *)
(***************************************************************************)

IsBlow(w) == w.ty # "HP_LOSS"
IntangibleCap(f, tgt, n) ==
  IF \/ tgt = Player /\ n > 1 /\ Carries(f, Player, "INTANGIBLE")
     \/ tgt # Player /\ n > 0 /\ f.act[tgt].kind = "NEMESIS" /\ Carries(f, tgt, "INTANGIBLE_MONSTER")
  THEN 1 ELSE n

BlockBroken(w, broken) ==
  IF broken /\ w.tgt # Player THEN [w EXCEPT !.f = Ring(@, "BLOCK_BROKEN", [Ctx EXCEPT !.tgt = w.tgt])]
  ELSE w
AtBlock(w) ==
  LET b == w.f.act[w.tgt].block
  IN  IF ~IsBlow(w) THEN w
      ELSE BlockBroken([w EXCEPT !.f.act[w.tgt].block = Clamp(b - w.n), !.n = Clamp(w.n - b)],
                       b > 0 /\ w.n >= b)
Boot(w) ==
  IF w.src = Player /\ w.ty = "NORMAL" /\ w.n \in 1 .. 4 /\ HasRelic(w.f, "BOOT")
  THEN [w EXCEPT !.n = 5] ELSE w
\* Mutant: the charge is spent behind everything that waits.
Buffer_Late(w) ==
  IF ~Carries(w.f, w.tgt, "BUFFER") THEN w
  ELSE [w EXCEPT !.n = 0,
                 !.f = IF w.n > 0 THEN Bot([@ EXCEPT !.tally.parried = @ + 1], Lessen(w.tgt, "BUFFER"))
                       ELSE @]
\* Buffer takes the whole blow and puts the spending of its charge in front
\* of everything that waits, the next blow of the same attack included.
Buffer(w) ==
  IF ~Carries(w.f, w.tgt, "BUFFER") THEN w
  ELSE [w EXCEPT !.n = 0,
                 !.f = IF w.n > 0 THEN Top([@ EXCEPT !.tally.parried = @ + 1], Lessen(w.tgt, "BUFFER"))
                       ELSE @]
Invincible(w) ==
  LET i == SlotOf(w.f, w.tgt, "INVINCIBLE")
      pool == Pow(w.f, w.tgt)[i].amt
  IN  IF i = 0 \/ w.tgt = Player THEN w
      ELSE [w EXCEPT !.n = Smaller(@, pool), !.f = SetAmount(@, w.tgt, i, Clamp(pool - w.n))]
Torii(w) ==
  IF w.tgt = Player /\ w.ty = "NORMAL" /\ w.n \in 2 .. 5 /\ HasRelic(w.f, "TORII")
  THEN [w EXCEPT !.n = 1] ELSE w
TungstenRod(w) ==
  IF w.tgt = Player /\ w.n > 0 /\ HasRelic(w.f, "TUNGSTEN_ROD") THEN [w EXCEPT !.n = @ - 1] ELSE w
Attacked(w) ==
  [w EXCEPT !.f = Fire(@, w.tgt, IF w.ty = "NORMAL" /\ w.src # w.tgt THEN "ATTACKED" ELSE "ATTACKED_TOLERANT",
                       [Ctx EXCEPT !.src = w.src, !.amt = w.n, !.ty = w.ty])]
\* The Rod spares a loss of hp before the powers hear of it, a blow after.
BeforePowers(w) == IF IsBlow(w) THEN w ELSE TungstenRod(w)
AfterPowers(w) == IF IsBlow(w) THEN TungstenRod(Torii(w)) ELSE w

(***************************************************************************)
(* Losing hp, dying, coming back.                                          *)
(***************************************************************************)

FairyHeal(f) == LET pct == IF HasRelic(f, "SACRED_BARK") THEN 60 ELSE 30
                    n == (f.act[Player].max * pct) \div 100
                IN  IF n < 1 THEN 1 ELSE n
TailHeal(f) == LET n == f.act[Player].max \div 2 IN IF n < 1 THEN 1 ELSE n
ReadyTail(f) == SelectInSeq(f.relics, LAMBDA r : r.id = "LIZARD_TAIL" /\ r.n = -1)
TryRevive(f) ==
  IF f.act[Player].hp > 0 \/ HasRelic(f, "MARK_OF_THE_BLOOM") THEN f
  ELSE IF f.fairies > 0 THEN HealPlayer([f EXCEPT !.fairies = @ - 1], FairyHeal(f))
  ELSE IF ReadyTail(f) # 0 THEN HealPlayer(Count(f, ReadyTail(f), -2), TailHeal(f))
  ELSE f

\* Blood for Blood gets cheaper wherever it is in a pile of the fight.
Cheaper(c) ==
  LET base == InstanceBase(c)
      new == Clamp(base - 1)
  IN  IF "FOR_TURN" \notin c.flags THEN [c EXCEPT !.now = IF @ > 0 THEN @ - 1 ELSE @]
      ELSE [c EXCEPT !.now = Clamp(new - (base - c.now)), !.base = new]
CardsTookDamage(f) ==
  [f EXCEPT !.hurt = @ + 1,
            !.card = [r \in DOMAIN f.card |->
                        IF /\ f.card[r].id = "BLOOD_FOR_BLOOD"
                           /\ \E pile \in {f.hand, f.disc, f.draw} : Contains(pile, r)
                        THEN Cheaper(f.card[r]) ELSE f.card[r]]]

ToldRelics(w) ==
  IF w.tgt = Player THEN [w EXCEPT !.f = Ring(@, "HP_LOST", [Ctx EXCEPT !.amt = w.lost])] ELSE w
HpLost(w) ==
  IF w.lost <= 0 THEN w
  ELSE ToldRelics([w EXCEPT !.f = Fire(@, w.tgt, "HP_LOST",
                                       [Ctx EXCEPT !.src = w.src, !.amt = w.lost, !.ty = w.ty])])
Inflicted(w) ==
  IF ~IsBlow(w) \/ w.tgt # Player \/ w.n <= 0 THEN w
  ELSE [w EXCEPT !.f = Fire(@, w.src, "INFLICT_DAMAGE", [Ctx EXCEPT !.src = w.src, !.amt = w.n, !.ty = w.ty])]
\* Mutant: the guard that is left is turned to, but keeps its marker.
GuardFell_Marked(f) ==
  LET turn(g, m) == Bot(FaceToward(g, m), Drop(Player, "SURROUNDED"))
  IN  FoldLeft(LAMBDA g, m : IF Dying(g, m) \/ ~HasSlot(g, Player, "SURROUNDED") THEN g ELSE turn(g, m),
               f, InOrder(f))
\* spire_guard_die_after: the player turns to the guard that is left, and is
\* surrounded no more once the two removals have come.
GuardFell(f) ==
  LET turn(g, m) == IF HasSlot(g, Player, "SURROUNDED")
                    THEN Bot(FaceToward(g, m), Drop(Player, "SURROUNDED")) ELSE g
      clear(g, m) == IF HasSlot(g, m, "BACK_ATTACK") THEN Bot(g, Drop(m, "BACK_ATTACK")) ELSE g
  IN  FoldLeft(LAMBDA g, m : IF Dying(g, m) THEN g ELSE clear(turn(g, m), m), f, InOrder(f))
Dies(f, m) ==
  LET dead == Ring(Fire(f, m, "DEATH", Ctx), "MONSTER_DEATH", [Ctx EXCEPT !.tgt = m])
  IN  IF f.act[m].kind \in Guards THEN GuardFell(dead) ELSE dead
Outcome(w) ==
  IF w.tgt = Player THEN TryRevive(IF w.lost > 0 THEN CardsTookDamage(w.f) ELSE w.f)
  ELSE IF w.lost > 0 /\ Dying(w.f, w.tgt) THEN Dies(w.f, w.tgt)
  ELSE w.f
\* The hp is written, then everyone is told.
Bleed(w) ==
  LET hp == w.f.act[w.tgt].hp
  IN  Outcome(Inflicted(HpLost([w EXCEPT !.f.act[w.tgt].hp = Clamp(hp - w.n), !.lost = Smaller(hp, w.n)])))
Arrive(w) == Bleed(AfterPowers(Attacked(BeforePowers(Invincible(Buffer(Boot(AtBlock(w))))))))

(***************************************************************************)
(* The opcodes of damage: what the blow is worth, whom it meets, and what  *)
(* some attacks do with its result.                                        *)
(***************************************************************************)

\* A dead attacker's queued blow is dropped, its thorns are not.
AttackerCancelled(f, it) ==
  it.op = "DAMAGE" /\ it.x # "THORNS" /\ it.src # Player /\ Dying(f, it.src)
TypeOfBlow(it) == CASE it.op = "LOSE_HP" -> "HP_LOSS"
                    [] it.op = "DAMAGE" -> it.x
                    [] OTHER -> "NORMAL"
Base(f, it) ==
  CASE it.op = "DAMAGE_BLOCK" -> f.act[Player].block
    [] it.op = "DAMAGE_DRAW_PILE" -> Len(f.draw)
    [] it.op = "RAMPAGE" -> it.n + f.card[Root(f, it.k)].misc
    [] it.op = "RITUAL_DAGGER" -> f.card[Root(f, it.k)].misc
    [] OTHER -> it.n
\* Half as much again from behind, of the whole number that was to arrive.
FromBehind(f, src, n) == IF src # Player /\ AppliesBackAttack(f, src) THEN (n * 3) \div 2 ELSE n
\* A blow locked when its card was played carries the attacker's half as n/k.
Worth(f, it, tgt) ==
  IF TypeOfBlow(it) # "NORMAL" THEN Clamp(it.n)
  ELSE FromBehind(f, it.src, FromOwnerStage(f, tgt, IF it.op = "DAMAGE" /\ it.k # 0 THEN <<it.n, it.k>>
                              ELSE OwnerStage(f, it.src, Base(f, it), 1)))
Strike(f, it, tgt) ==
  Arrive([f |-> f, src |-> IF it.op = "LOSE_HP" THEN tgt ELSE it.src, tgt |-> tgt,
          n |-> IntangibleCap(f, tgt, Worth(f, it, tgt)), ty |-> TypeOfBlow(it), lost |-> 0])
Victims(f, it) ==
  IF it.op = "VAMPIRE_ALL" THEN SelectSeq(InOrder(f), LAMBDA m : ~DeadOrEscaped(f, m)) ELSE <<it.tgt>>

Slain(f, m) == Dying(f, m) /\ ~HasSlot(f, m, "MINION")
Drained(f, g) == FoldLeft(LAMBDA n, m : n + f.act[m].hp - g.act[m].hp, 0, InOrder(f))
Idol(f) == IF HasRelic(f, "BLOODY_IDOL") THEN HealPlayer(f, 5) ELSE f
Before(f, it) ==
  IF it.op = "DROPKICK" /\ Carries(f, it.tgt, "VULNERABLE") THEN Top(Top(f, Draw(1)), Energy(1)) ELSE f
DrankBlood(f, it, g) ==
  CASE it.op = "VAMPIRE_ALL" /\ Drained(f, g) > 0 -> Bot(g, Item("HEAL", Player, Player, Drained(f, g), ""))
    [] it.op = "VAMPIRE" /\ f.act[it.tgt].hp > g.act[it.tgt].hp ->
         HealMonster(g, it.src, f.act[it.tgt].hp - g.act[it.tgt].hp)
    [] OTHER -> g
Aftermath(f, it, g) ==
  CASE it.op = "FEED" /\ Slain(g, it.tgt) -> HealPlayer([g EXCEPT !.act[Player].max = @ + it.k], it.k)
    [] it.op = "GREED" /\ Slain(g, it.tgt) /\ ~HasRelic(g, "ECTOPLASM") -> Idol([g EXCEPT !.gold = @ + it.k])
    [] it.op = "RITUAL_DAGGER" /\ Slain(g, it.tgt) -> [g EXCEPT !.card[Root(f, it.k)].misc = @ + it.n]
    [] it.op = "RAMPAGE" -> [g EXCEPT !.card[Root(f, it.k)].misc = @ + IF IsUpgraded(f.card[it.k]) THEN 8 ELSE 5]
    [] OTHER -> DrankBlood(f, it, g)
DamageOp(f, it) ==
  IF AttackerCancelled(f, it) \/ (it.op = "LOSE_HP" /\ it.n <= 0) THEN f
  ELSE Aftermath(f, it, FoldLeft(LAMBDA g, m : Strike(g, it, m), Before(f, it), Victims(f, it)))
Heal(f, tgt, n) == IF n <= 0 THEN f ELSE IF tgt = Player THEN HealPlayer(f, n) ELSE HealMonster(f, tgt, n)
Suicide(f, m) == IF Dying(f, m) THEN f ELSE Dies([f EXCEPT !.act[m].hp = 0], m)

(***************************************************************************)
(* Block.                                                                  *)
(***************************************************************************)

ModifyBlock(q, p) ==
  CASE p.id = "DEXTERITY" -> Plus(q, p.amt)
    [] p.id = "FRAIL" -> Times(q, 3, 4)
    [] OTHER -> q
\* Dexterity never leaves less than nothing for a later Frail to cut.
ModifyBlockSafe(q, p) == IF ModifyBlock(q, p)[1] < 0 THEN <<0, 1>> ELSE ModifyBlock(q, p)
BlockGain(f, a, n) ==
  IF HasSlot(f, a, "NO_BLOCK") THEN 0
  ELSE Clamp(Floor(FoldLeft(ModifyBlockSafe, <<n, 1>>, Pow(f, a))))
BlockTarget(f, it) ==
  LET others == SelectSeq(InOrder(f), LAMBDA m : m # it.src /\ ~Dying(f, m) /\ f.act[m].intent # "ESCAPE")
  IN  IF it.op # "BLOCK_RANDOM_MONSTER" THEN it.tgt
      ELSE IF others = << >> THEN it.src ELSE others[Pick(f, Len(others))]
BlockAmount(f, it) ==
  CASE it.op = "DOUBLE_BLOCK" -> f.act[it.tgt].block
    [] it.op = "BLOCK_RANDOM_MONSTER" \/ it.x = "RAW" -> it.n
    [] OTHER -> BlockGain(f, it.tgt, it.n)
GainBlock(f, a, n) ==
  LET c == [Ctx EXCEPT !.amt = n]
      up(g) == [g EXCEPT !.act[a].block = @ + n]
  IN  IF n <= 0 \/ (a # Player /\ Dying(f, a)) THEN f
      ELSE Fire(IF a = Player THEN Ring(up(f), "GAINED_BLOCK", c) ELSE up(f), a, "GAINED_BLOCK", c)
BlockOp(f, it) == GainBlock(f, BlockTarget(f, it), BlockAmount(f, it))

(***************************************************************************)
(* Applying a power: the source's powers hear of it first, then the relics *)
(* that refuse it, then the Artifact that eats it.                         *)
(***************************************************************************)

NoOpRepeat(f, a, id) == id \in {"NO_DRAW", "BARRICADE", "CORRUPTION"} /\ HasSlot(f, a, id)
BeltAnswers(f, it) ==
  /\ it.x = "VULNERABLE" /\ it.src = Player /\ it.tgt # Player
  /\ HasRelic(f, "CHAMPION_BELT") /\ ~Carries(f, it.tgt, "ARTIFACT")
Announced(f, it) ==
  Bots(Fire(f, it.src, "APPLY_POWER", [Ctx EXCEPT !.src = it.src, !.tgt = it.tgt, !.pw = it.x]),
       IF BeltAnswers(f, it) THEN <<Inflict(Player, it.tgt, "WEAK", 1)>> ELSE << >>)
Refused(f, it) == /\ it.tgt = Player
                  /\ \/ it.x = "WEAK" /\ HasRelic(f, "GINGER")
                     \/ it.x = "FRAIL" /\ HasRelic(f, "TURNIP")
SpendArtifact(f, a) == LET i == SlotOf(f, a, "ARTIFACT") IN SetAmount(f, a, i, Pow(f, a)[i].amt - 1)
Unaffected(f, it) == \/ it.tgt # Player /\ DeadOrEscaped(f, it.tgt)
                     \/ NoOpRepeat(f, it.tgt, it.x)
Receive(f, it) ==
  IF Refused(f, it) THEN f
  ELSE IF IsDebuff(it.x, it.n) /\ Carries(f, it.tgt, "ARTIFACT") THEN SpendArtifact(f, it.tgt)
  ELSE AddToList(f, it.tgt, it.x, it.n, IF it.k > 0 THEN it.k ELSE 0, it.k >= 0, TRUE)
ApplyPower(f, it) == IF Unaffected(f, it) THEN f ELSE Receive(Announced(f, it), it)

DebuffSlots(f, a) == SelectSeq(Pow(f, a), LAMBDA p : IsDebuff(p.id, p.amt))
RemoveDebuffs(f, a) == FoldLeft(LAMBDA g, p : Top(g, Drop(a, p.id)), f, DebuffSlots(f, a))
DoubleStrength(f) ==
  IF HasSlot(f, Player, "STRENGTH") THEN Top(f, Gain(Player, "STRENGTH", AmountOf(f, Player, "STRENGTH")))
  ELSE f
SpotWeakness(f, m, n) ==
  IF f.act[m].intent \in AttackMoves THEN Bot(f, Gain(Player, "STRENGTH", n)) ELSE f
===============================================================================
