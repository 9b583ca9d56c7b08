---------------------------- MODULE MonsterFight ----------------------------
(***************************************************************************)
(* The monsters of one fight: the records in their slots, the turns they   *)
(* are owed, and the action queue with the items that name them by slot.   *)
(*                                                                         *)
(* Monsters split, are summoned in the middle of the field, die in half,   *)
(* take their minions with them and run away, while items and turns that   *)
(* were queued before still hold slot numbers.  `who' in an item or a turn *)
(* is the record it was meant for; the code keeps only the slot.           *)
(*                                                                         *)
(* The player is a source of blows: at any time of his turn, and in answer *)
(* to a blow (thorns).  Amounts are levels; blocks and powers that do not  *)
(* steer a monster are left out.                                           *)
(***************************************************************************)
EXTENDS MonsterTurns, SequencesExt

CONSTANTS Groups,       \* the encounters, each a sequence of ids
          Called,       \* bound: the gremlins a leader's call can bring
          MaxRecords,   \* bound: no round begins with more records than this
          MaxPending    \* bound: the player strikes only while no more items wait

\* An encounter is the list of its ids, each in the slot of its place.
ASSUME GroupsAssumption == \A g \in Groups : g \in Seq(STRING)

\* Those whose minions leave the fight with them; and the minions.
Leaders == {"GREMLIN_LEADER", "THE_COLLECTOR", "BRONZE_AUTOMATON", "REPTOMANCER"}
Minions == Gremlins \cup {"SNAKE_DAGGER", "TORCH_HEAD", "BRONZE_ORB"}

\* The encounter tables give a leader no company but minions, and a call brings gremlins.
ASSUME CastAssumption ==
  /\ \A g \in Groups : \A i \in DOMAIN g : g[i] \in Leaders => \A j \in DOMAIN g \ {i} : g[j] \in Minions
  /\ Called \subseteq Gremlins

VARIABLES field,        \* monsters[0 .. monster_count)
          items,        \* action_queue, the items that name a monster
          turns,        \* monster_queue
          cannotLose,   \* kCombatFlagCannotLose
          phase         \* "player", "monsters", or "over"
vars == <<field, items, turns, cannotLose, phase>>

\* All of it but the phase, as the operators below pass it on.
World == [f |-> field, q |-> items, t |-> turns, cl |-> cannotLose]

\* Nothing reads the history of a record that is dead for good.
Buried(m) == IF IsDying(m) THEN [m EXCEPT !.moves = <<"-", "-">>, !.on = {}, !.n = 0, !.k = 0] ELSE m
Become(w) == /\ field' = [i \in DOMAIN w.f |-> Buried(w.f[i])]
             /\ items' = w.q
             /\ turns' = w.t
             /\ cannotLose' = w.cl

NoKid == [id |-> "-", hp |-> None, x |-> 0, minion |-> "no"]
Item(op, at, who, v, kid) == [op |-> op, at |-> at, who |-> who, v |-> v, kid |-> kid]
For(w, op, i) == Item(op, i, w.f[i].who, "-", NoKid)
SetMove(w, i, v) == Item("set", i, w.f[i].who, v, NoKid)
Bottom(w, q) == [w EXCEPT !.q = @ \o q]
Top(w, q) == [w EXCEPT !.q = q \o @]
With(w, i, m) == [w EXCEPT !.f[i] = m]

(***************************************************************************)
(* Death: monster_die_fn, monster_die_after_fn, the sweeps of the dead.    *)
(***************************************************************************)
\* A set of slots or places, the lowest first.
InOrder(S) == [k \in 1..Cardinality(S) |-> CHOOSE i \in S : Cardinality({j \in S : j < i}) = k - 1]
Where(f, Test(_)) == InOrder({j \in DOMAIN f : Test(f[j])})
Those(n, Test(_)) == InOrder({k \in 1..n : Test(k)})
Each(w, op, slots) == [k \in DOMAIN slots |-> For(w, op, slots[k])]

\* dispatch_monster_die: half of a death is none while the fight cannot be won.
Vetoed(w, id) == id \in {"DARKLING", "AWAKENED_ONE"} /\ w.cl

\* mutant: the minions of a dead Collector fight on.
Died_TorchesStay(w, i) ==
  LET id == w.f[i].id
  IN  CASE Vetoed(w, id) -> w
        [] id = "GREMLIN_LEADER" -> Bottom(w, Each(w, "escape", Where(w.f, Up)))
        [] id \in {"BRONZE_AUTOMATON", "REPTOMANCER"} -> Top(w, Reverse(Each(w, "slay", Where(w.f, Up))))
        [] OTHER -> w
Died(w, i) ==
  LET id == w.f[i].id
  IN  CASE Vetoed(w, id) -> w
        [] id = "GREMLIN_LEADER" -> Bottom(w, Each(w, "escape", Where(w.f, Up)))
        [] id \in {"BRONZE_AUTOMATON", "THE_COLLECTOR", "REPTOMANCER"} ->
             Top(w, Reverse(Each(w, "slay", Where(w.f, Up))))
        [] id = "AWAKENED_ONE" /\ ~w.cl ->
             Bottom(w, Each(w, "escape", Where(w.f, LAMBDA m : m.id = "CULTIST" /\ Up(m))))
        [] OTHER -> w

(***************************************************************************)
(* on_monster_damaged, after every blow, the last one too.                 *)
(***************************************************************************)
\* mutant: the interrupt is set at once and not queued again.
Interrupt_NotQueued(w, i, v) == With(w, i, Move(w.f[i], v))
Interrupt(w, i, v) == Bottom(With(w, i, Move(w.f[i], v)), <<SetMove(w, i, v)>>)

DarklingDown(w, i) ==
  LET down == With(w, i, Raise(w.f[i], "half"))
  IN  IF \A j \in DOMAIN w.f : w.f[j].id # "DARKLING" \/ Half(down.f[j])
      THEN [down EXCEPT !.cl = FALSE,
                        !.f = [j \in DOMAIN @ |-> Lower([@[j] EXCEPT !.hp = None], "half")]]
      ELSE IF LastIs(w.f[i], "COUNT") THEN down ELSE Interrupt(down, i, "COUNT")

\* mutant: it lies down and goes on with the move it showed.
AwakenedDown_NoRebirth(w, i) ==
  LET m == IF w.cl THEN Raise(w.f[i], "half") ELSE w.f[i]
  IN  With(w, i, Lower(Raise(m, "first"), "form1"))
AwakenedDown(w, i) ==
  LET m == IF w.cl THEN Raise(w.f[i], "half") ELSE w.f[i]
  IN  Interrupt(With(w, i, Lower(Raise(m, "first"), "form1")), i, "REBIRTH")

DownByHalf(w, i) ==
  LET m == w.f[i]
  IN  CASE m.id = "DARKLING" /\ m.hp = None /\ ~Half(m) -> DarklingDown(w, i)
        [] m.id = "AWAKENED_ONE" /\ m.hp = None /\ ~Half(m) -> AwakenedDown(w, i)
        [] OTHER -> w

\* The set of worlds the hook may leave: whether a threshold of damage is
\* reached by this blow is free where the amounts are left out.
Damaged(w, i) ==
  LET m == w.f[i]
  IN  CASE m.id \in Large /\ m.hp = Low /\ ~LastIs(m, "SPLIT") /\ ~Has(m, "split") ->
             {Interrupt(With(w, i, Raise(m, "split")), i, "SPLIT")}
        [] m.id = "SLIME_BOSS" /\ m.hp = Low /\ ~LastIs(m, "SPLIT") -> {Interrupt(w, i, "SPLIT")}
        [] m.id = "LAGAVULIN" /\ ~Has(m, "roused") ->
             {With(w, i, LET open == Raise(Move(m, "OPEN"), "roused")
                         IN  IF Up(m) THEN Raise(open, "out") ELSE open)}
        [] m.id = "THE_GUARDIAN" /\ Up(m) /\ {"open", "shift"} \subseteq m.on /\ ~Has(m, "closing") ->
             {w, Bottom(With(w, i, Raise(m, "closing")), <<For(w, "mode", i)>>)}
        [] OTHER -> {DownByHalf(w, i)}

(***************************************************************************)
(* A blow at record i that leaves it h: the hooks of its powers, then the  *)
(* loss, death, and the hook above (op_damage).                            *)
(***************************************************************************)
Hooks(w, i, thorns) ==
  LET m == w.f[i]
  IN  CASE m.id = "BYRD" /\ Has(m, "flying") -> {<<>>, <<For(w, "land", i)>>}
        [] m.id = "SHELLED_PARASITE" /\ Has(m, "plated") /\ ~thorns -> {<<>>, <<For(w, "crack", i)>>}
        [] m.id = "WRITHING_MASS" -> {<<For(w, "roll", i)>>}
        [] OTHER -> {<<>>}

Struck(w, i, h, thorns) ==
  LET hurt(q) == With(Bottom(w, q), i, [w.f[i] EXCEPT !.hp = h])
      after(v) == IF h = None THEN Died(v, i) ELSE v
  IN  UNION {Damaged(after(hurt(q)), i) : q \in IF h = None THEN {<<>>} ELSE Hooks(w, i, thorns)}

\* Every blow the player may deal to record i.
Blows(w, i, thorns) == UNION {Struck(w, i, h, thorns) : h \in None .. w.f[i].hp}

(***************************************************************************)
(* Summons: where the code computes the slots of the new records while     *)
(* none of them is there yet.                                              *)
(***************************************************************************)
Kid(id, hp, x, minion) == [id |-> id, hp |-> hp, x |-> x, minion |-> minion]
GremlinX == <<-366, -170, -532>>
WizardOffset == 35
OrbX == <<-300, 200>>
DaggerX == <<210, -220, 180, -250>>

PlaceAmong(xs, x) == Cardinality({j \in DOMAIN xs : \A k \in 1..j : x > xs[k]}) + 1
PlaceAbove(xs, x) == Cardinality({j \in DOMAIN xs : x > xs[j]}) + 1
Place(rule, xs, x) == IF rule = "among" THEN PlaceAmong(xs, x) ELSE PlaceAbove(xs, x)

SpawnItem(w, i, at, kid) == Item("spawn", at, w.f[i].who, "-", kid)

\* A spawn, and its MINION where the summoner queues that itself.
Ordered(w, i, at, kid, name) ==
  <<SpawnItem(w, i, at, kid)>>
  \o IF kid.minion = "queued" THEN <<Item("minion", at, name, "-", NoKid)>> ELSE <<>>

\* mutant: the summoner does not follow its own record while it makes room.
Planned_BossStays(w, i, kids, rule) ==
  FoldLeft(LAMBDA plan, kid :
             LET pos == Place(rule, plan.xs, kid.x)
             IN  [xs |-> InsertAt(plan.xs, pos, kid.x), boss |-> plan.boss,
                  q |-> plan.q \o Ordered(w, i, pos, kid, Len(plan.xs) + 1)],
           [xs |-> [j \in DOMAIN w.f |-> w.f[j].x], boss |-> i, q |-> <<>>], kids)
\* The spawns of `kids', one after the other, and where they leave record i.
Planned(w, i, kids, rule) ==
  FoldLeft(LAMBDA plan, kid :
             LET pos == Place(rule, plan.xs, kid.x)
             IN  [xs |-> InsertAt(plan.xs, pos, kid.x),
                  boss |-> IF pos <= plan.boss THEN plan.boss + 1 ELSE plan.boss,
                  q |-> plan.q \o Ordered(w, i, pos, kid, Len(plan.xs) + 1)],
           [xs |-> [j \in DOMAIN w.f |-> w.f[j].x], boss |-> i, q |-> <<>>], kids)

\* The items of a summons by record i: the spawns, and the summoner's own
\* roll, at its slot to be.
Summons(w, i, kids, rule) ==
  LET plan == Planned(w, i, kids, rule)
  IN  plan.q \o <<Item("roll", plan.boss, w.f[i].who, "-", NoKid)>>

\* mutant: a gremlin's place is looked up without the wizard's offset.
Rallied_WizardMissed(w, i) ==
  LET held(k) == \E j \in DOMAIN w.f : Up(w.f[j]) /\ w.f[j].x = GremlinX[k]
      free == Those(3, LAMBDA k : ~held(k))
      come(id, k) == Kid(id, Low, GremlinX[k] - (IF id = "GREMLIN_WIZARD" THEN WizardOffset ELSE 0), "bottom")
  IN  {Summons(w, i, <<come(a, free[1]), come(b, free[2])>>, "among") : a, b \in Called}
\* Two gremlins in the first of the three places that no living one holds.
Rallied(w, i) ==
  LET held(k) == \E j \in DOMAIN w.f : Up(w.f[j]) /\ w.f[j].x \in {GremlinX[k], GremlinX[k] - WizardOffset}
      free == Those(3, LAMBDA k : ~held(k))
      come(id, k) == Kid(id, Low, GremlinX[k] - (IF id = "GREMLIN_WIZARD" THEN WizardOffset ELSE 0), "bottom")
  IN  {Summons(w, i, <<come(a, free[1]), come(b, free[2])>>, "among") : a, b \in Called}

\* Daggers to the places that no living record holds, two at most.
Drawn(w, i) ==
  LET held(k) == \E j \in DOMAIN w.f : ~DeadOrEscaped(w.f[j]) /\ w.f[j].x = DaggerX[k]
      free == Those(4, LAMBDA k : ~held(k))
      now == SubSeq(free, 1, IF Len(free) < 2 THEN Len(free) ELSE 2)
  IN  Summons(w, i, [n \in DOMAIN now |-> Kid("SNAKE_DAGGER", Low, DaggerX[now[n]], "top")], "above")

\* The places the Collector fills: both, or those of its dead.
Torches(w, i, wanted) ==
  LET come == Those(2, LAMBDA k : k \in wanted)
  IN  Summons(w, i, [n \in DOMAIN come |-> Kid("TORCH_HEAD", Low, TorchX[come[n]], "queued")], "among")

Orbs(w, i) == Summons(w, i, [k \in 1..2 |-> Kid("BRONZE_ORB", Low, OrbX[k], "queued")], "among")

\* A split: the parent dies without a death, and leaves two records at its hp.
Split(w, i) ==
  LET m == w.f[i]
      boss == {j \in 1 .. (i - 1) : w.f[j].id = "SLIME_BOSS"}
      far == m.id = "ACID_SLIME_LARGE" /\ boss # {}
      left == IF far THEN CHOOSE j \in boss : \A k \in boss : j <= k ELSE i
      right == IF far THEN Len(w.f) + 1 ELSE i + 2
      kid(id) == Kid(id, IF id \in Large THEN Well ELSE Low, 0, "no")
      kinds == CASE m.id = "SLIME_BOSS" -> <<"SPIKE_SLIME_LARGE", "ACID_SLIME_LARGE">>
                 [] m.id = "SPIKE_SLIME_LARGE" -> <<"SPIKE_SLIME_MEDIUM", "SPIKE_SLIME_MEDIUM">>
                 [] OTHER -> <<"ACID_SLIME_MEDIUM", "ACID_SLIME_MEDIUM">>
  IN  <<For(w, "cannot", i), For(w, "vanish", i), SpawnItem(w, i, left, kid(kinds[1])),
        SpawnItem(w, i, right, kid(kinds[2])), For(w, "can", i)>>
      \o IF m.id = "SPIKE_SLIME_LARGE" THEN <<Item("roll", i + 1, m.who, "-", NoKid)>> ELSE <<>>

(***************************************************************************)
(* dispatch_monster_turn: the turn of record i.                            *)
(***************************************************************************)
Items(w, i, q) == [k \in DOMAIN q |-> Item(q[k].op, i, w.f[i].who, q[k].v, NoKid)]

\* The items of a turn; a split or a summons lays out its own.
Laid(w, i, q) ==
  CASE q = <<Do("split")>> -> {Split(w, i)}
    [] q = <<Do("rally")>> -> Rallied(w, i)
    [] q = <<Do("daggers")>> -> {Drawn(w, i)}
    [] q = <<Do("torches")>> -> {Torches(w, i, 1..2)}
    [] q = <<Do("relight")>> -> {Torches(w, i, {k \in 1..2 : TorchDead(w.f, TorchX[k])})}
    [] q = <<Do("orbs")>> -> {Orbs(w, i)}
    [] OTHER -> {Items(w, i, q \o Burning(w.f[i]))}

TakeTurn(w, i) == UNION {{Bottom(With(w, i, t.m), q) : q \in Laid(w, i, t.q)} : t \in Turned(w.f, i)}

(***************************************************************************)
(* execute_opcode: one item.                                               *)
(***************************************************************************)
\* spawn_monster_at_slot: the turns that wait move with the records; a MINION
\* queued at the bottom goes where the spawns that wait will leave the record.
Settled(slot, q) ==
  FoldLeft(LAMBDA s, p : IF p.op = "spawn" /\ p.at <= s THEN s + 1 ELSE s, slot, q)
Pushed(t, slot) == [k \in DOMAIN t |-> [t[k] EXCEPT !.at = IF @ >= slot THEN @ + 1 ELSE @]]
Born(w, slot, m) == [w EXCEPT !.f = InsertAt(@, slot, m), !.t = Pushed(@, slot)]

Spawned(w, it) ==
  LET slot == IF it.at > Len(w.f) THEN Len(w.f) + 1 ELSE it.at
      name == Len(w.f) + 1
      minion(at) == Item("minion", at, name, "-", NoKid)
      born == Born(w, slot, Made(name, it.kid.id, it.kid.x))
      ready == CASE it.kid.minion = "top" -> Top(born, <<minion(slot)>>)
                 [] it.kid.minion = "bottom" -> Bottom(born, <<minion(Settled(slot, w.q))>>)
                 [] OTHER -> born
  IN  {With(ready, slot, [m EXCEPT !.hp = it.kid.hp]) : m \in Opened(born.f, slot, it.kid.id)}

\* op_heal: the dead stay dead, half of one does not.
Healed(w, i) ==
  IF IsDying(w.f[i]) THEN w
  ELSE With(w, i, [Lower(w.f[i], "half") EXCEPT !.hp = IF w.f[i].id = "TIME_EATER" THEN Well ELSE Low])

Stunned(w, i, flag) ==
  IF ~Has(w.f[i], flag) THEN w
  ELSE Bottom(With(w, i, Lower(w.f[i], flag)), <<SetMove(w, i, "STUNNED")>>)

Executed(w, it) ==
  LET i == it.at
      m == w.f[i]
      gone == With(w, i, [m EXCEPT !.hp = None])
  IN  CASE it.op = "hit" -> {w} \cup (IF DeadOrEscaped(m) THEN {} ELSE Blows(w, i, TRUE))
        [] it.op = "roll" -> {With(w, i, c) : c \in Chosen(w.f, i)}
        [] it.op = "set" -> {With(w, i, Move(m, it.v))}
        [] it.op = "mode" -> {Bottom(With(w, i, Lower(Move(m, "CLOSE_UP"), "open")), <<For(w, "unshift", i)>>)}
        [] it.op = "unshift" -> {With(w, i, Lower(m, "shift"))}
        [] it.op = "shift" -> {With(w, i, Raise(m, "shift"))}
        [] it.op = "land" -> {Stunned(w, i, "flying")}
        [] it.op = "crack" -> {Stunned(w, i, "plated")}
        [] it.op = "spawn" -> Spawned(w, it)
        [] it.op = "minion" -> {With(w, i, Raise(m, "minion"))}
        [] it.op = "vanish" -> {gone}
        [] it.op = "slay" -> {IF Up(m) THEN Died(gone, i) ELSE gone}
        [] it.op = "burn" -> {With(w, i, [m EXCEPT !.k = IF @ > 1 THEN @ - 1 ELSE @])}
        [] it.op = "spend" -> IF Up(m) THEN Damaged(Died(gone, i), i) ELSE {w}
        [] it.op = "escape" -> {With(w, i, Raise(m, "escaped"))}
        [] it.op = "cannot" -> {[w EXCEPT !.cl = TRUE]}
        [] it.op = "can" -> {[w EXCEPT !.cl = FALSE]}
        [] it.op = "heal" -> {Healed(w, i)}

(***************************************************************************)
(* The fight.                                                              *)
(***************************************************************************)
\* spawn_group makes every record before the first of them chooses; then
\* use_pre_battle_actions gives the summoned their places and leaders.
PlaceOf(g, i) ==
  LET boss == {j \in DOMAIN g : g[j] \in {"GREMLIN_LEADER", "REPTOMANCER"}}
  IN  CASE g[i] = "GREMLIN_LEADER" -> 35
        [] g[i] = "THE_COLLECTOR" -> 60
        [] g[i] = "BRONZE_AUTOMATON" -> -50
        [] g[i] = "REPTOMANCER" -> -20
        [] g[i] = "SNAKE_DAGGER" -> IF \E j \in boss : i > j THEN DaggerX[1] ELSE DaggerX[2]
        [] g[i] \in Gremlins /\ boss # {} ->
             GremlinX[i] - (IF g[i] = "GREMLIN_WIZARD" THEN WizardOffset ELSE 0)
        [] OTHER -> 0

Fields(g) ==
  LET made == [i \in DOMAIN g |-> Made(i, g[i], PlaceOf(g, i))]
      led == \E j \in DOMAIN g : g[j] \in {"GREMLIN_LEADER", "REPTOMANCER"}
      minion(i) == led /\ g[i] \notin {"GREMLIN_LEADER", "REPTOMANCER"}
      ready(i) == {IF minion(i) THEN Raise(PreBattle(m), "minion") ELSE PreBattle(m) : m \in Opened(made, i, g[i])}
  IN  {f \in [DOMAIN g -> UNION {ready(i) : i \in DOMAIN g}] : \A i \in DOMAIN g : f[i] \in ready(i)}

Init ==
  /\ \E g \in Groups : /\ field \in Fields(g)
                       /\ cannotLose = (\E i \in DOMAIN g : g[i] \in {"DARKLING", "AWAKENED_ONE"})
  /\ items = <<>>
  /\ turns = <<>>
  /\ phase = "player"

AllDown == \A i \in DOMAIN field : BasicallyDead(field[i])
Decided == AllDown /\ ~cannotLose

\* A blow of the player's turn, between any two items of an attack.
Strike(i) ==
  /\ phase = "player"
  /\ Len(items) <= MaxPending
  /\ ~DeadOrEscaped(field[i])
  /\ \E w \in Blows(World, i, FALSE) : Become(w)
  /\ UNCHANGED phase

RunItem ==
  /\ phase # "over"
  /\ items # <<>>
  /\ \E w \in Executed([World EXCEPT !.q = Tail(@)], Head(items)) : Become(w)
  /\ UNCHANGED phase

\* queue_monsters: a turn to each record that is not down, in slot order.
EndTurn ==
  /\ phase = "player"
  /\ items = <<>>
  /\ ~Decided
  /\ Len(field) <= MaxRecords
  /\ LET up == Where(field, LAMBDA m : ~BasicallyDead(m))
     IN  turns' = [k \in DOMAIN up |-> [at |-> up[k], who |-> field[up[k]].who]]
  /\ phase' = "monsters"
  /\ UNCHANGED <<field, items, cannotLose>>

NextTurn ==
  /\ phase = "monsters"
  /\ items = <<>>
  /\ turns # <<>>
  /\ LET i == Head(turns).at
         w == [World EXCEPT !.t = Tail(@)]
     IN  \E v \in IF BasicallyDead(field[i]) THEN {w} ELSE TakeTurn(w, i) : Become(v)
  /\ UNCHANGED phase

EndRound ==
  /\ phase = "monsters"
  /\ items = <<>>
  /\ turns = <<>>
  /\ phase' = "player"
  /\ UNCHANGED <<field, items, turns, cannotLose>>

\* The terminal check, between two items or two turns.
Over ==
  /\ phase # "over"
  /\ Decided
  /\ phase' = "over"
  /\ items' = <<>>
  /\ turns' = <<>>
  /\ UNCHANGED <<field, cannotLose>>

Next ==
  \/ \E i \in DOMAIN field : Strike(i)
  \/ RunItem
  \/ EndTurn
  \/ NextTurn
  \/ EndRound
  \/ Over

(***************************************************************************)
(* The pump runs what is queued; the player's cards run out, so that he    *)
(* ends a turn that he can end again and again.  PumpRuns is WF_vars(Pump) *)
(* with its ENABLED written out, which TLC is slow to find by itself.      *)
(***************************************************************************)
Pump == RunItem \/ NextTurn \/ EndRound \/ Over
PumpReady == phase # "over" /\ (items # <<>> \/ phase = "monsters" \/ Decided)
PumpRuns == []<>~PumpReady \/ []<><<Pump>>_vars

Spec == /\ Init /\ [][Next]_vars
        /\ PumpRuns
        /\ SF_vars(EndTurn)

(***************************************************************************)
(* Properties.                                                             *)
(***************************************************************************)
Quiet == items = <<>> /\ phase # "over"

\* Slots move while items and turns wait: the next item and the next turn
\* still name the record they were meant for (spawn_monster_at_slot).
AimIsTrue ==
  /\ items # <<>> /\ Head(items).op \notin {"spawn", "cannot", "can"} =>
       Head(items).at \in DOMAIN field /\ field[Head(items).at].who = Head(items).who
  /\ Quiet /\ turns # <<>> => field[Head(turns).at].who = Head(turns).who

\* However often the leaders call, the queue of turns holds its five
\* (queue_monsters asserts it), and no two of the living share a place.
FieldFits ==
  /\ Len(turns) <= 5
  /\ \A i, j \in DOMAIN field :
       i # j /\ "minion" \in field[i].on \cap field[j].on /\ ~DeadOrEscaped(field[i]) /\ ~DeadOrEscaped(field[j])
         => field[i].x # field[j].x

\* Minions do not outlive their leader, in whichever way it died.
NoOrphans ==
  Quiet => \A i, j \in DOMAIN field :
             field[i].id \in Leaders /\ BasicallyDead(field[i]) /\ Has(field[j], "minion")
               => BasicallyDead(field[j])

\* What a monster shows to do next fits the state it is in, however blows and
\* its own turn fell together: interrupts are set at once and queued again,
\* because the roll of the same turn may still be waiting.
PostureMatchesMove ==
  Quiet => \A i \in DOMAIN field :
    LET m == field[i]
        v == Intent(m)
    IN  ~IsDying(m) =>
          CASE m.id = "THE_GUARDIAN" ->
                 (~Has(m, "open")) <=> v \in {"CLOSE_UP", "ROLL_ATTACK", "TWIN_SLAM"}
            [] m.id = "LAGAVULIN" -> (v = "IDLE") <=> ~Has(m, "out")
            [] m.id = "BYRD" -> Has(m, "flying") \/ v \in {"STUNNED", "HEADBUTT", "GO_AIRBORNE"}
            [] m.id = "DARKLING" -> Half(m) <=> v \in {"COUNT", "REINCARNATE"}
            [] m.id = "AWAKENED_ONE" -> Half(m) <=> v = "REBIRTH"
            [] m.id \in Large \cup {"SLIME_BOSS"} -> (v = "SPLIT") <=> (m.hp = Low)
            [] OTHER -> TRUE

Named(n, P(_)) == \E i \in DOMAIN field : field[i].who = n /\ P(field[i])

\* What lies half dead comes to: it rises, or the whole fight is over.
HalfDeadRises ==
  \A n \in 1 .. MaxRecords : Named(n, Half) ~> (phase = "over" \/ Named(n, Up))
=============================================================================
