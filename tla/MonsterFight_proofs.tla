------------------------ MODULE MonsterFight_proofs ------------------------
(***************************************************************************)
(* AimIsTrue of MonsterFight, for every set of encounters: records keep    *)
(* their names, items that move no slot keep every aim, and a queue that   *)
(* will make records names each slot as it will be when the item runs.     *)
(***************************************************************************)
EXTENDS MonsterFight, FiniteSetTheorems, TLAPS

(***************************************************************************)
(* Whatever a routine does to a record, it keeps its name.                 *)
(***************************************************************************)
\* A record with a name; and one that bears the name of another, and is of its kind.
HasName(m) == /\ "who" \in DOMAIN m /\ "id" \in DOMAIN m /\ "hp" \in DOMAIN m /\ "on" \in DOMAIN m
              /\ m.who \in Nat
Same(m, c) == HasName(c) /\ c.who = m.who /\ c.id = m.id

\* The choices of one routine.
AllSame(m, S) == \A c \in S : Same(m, c)

\* A record bears its own name.
LEMMA SameAsItself == ASSUME NEW m, HasName(m) PROVE Same(m, m)
  BY DEF Same

\* And a record that bears the name of one that bears it, too.
LEMMA SameTwice == ASSUME NEW m, NEW c, NEW d, Same(m, c), Same(c, d) PROVE Same(m, d)
  BY DEF Same

\* Every field but the name may change.
LEMMA FieldKeeps ==
  ASSUME NEW m, HasName(m), NEW v
  PROVE  /\ Same(m, [m EXCEPT !.hp = v])
         /\ Same(m, [m EXCEPT !.n = v])
         /\ Same(m, [m EXCEPT !.k = v])
         /\ Same(m, [m EXCEPT !.on = v])
         /\ Same(m, [m EXCEPT !.moves = v])
  BY DEF Same, HasName

\* A new move, a flag raised or lowered: the name stays.
LEMMA MoveKeeps ==
  ASSUME NEW m, HasName(m), NEW v
  PROVE  Same(m, Move(m, v)) /\ Same(m, Raise(m, v)) /\ Same(m, Lower(m, v))
  BY DEF Same, HasName, Move, Raise, Lower

\* A choice between moves.
LEMMA AnyOfKeeps ==
  ASSUME NEW m, HasName(m), NEW S
  PROVE  AllSame(m, AnyOf(m, S))
  BY MoveKeeps DEF AllSame, AnyOf

\* A routine that chooses for a record of the same name.
LEMMA AnyOfSame ==
  ASSUME NEW m, NEW c, Same(m, c), NEW S
  PROVE  AllSame(m, AnyOf(c, S))
  BY AnyOfKeeps, SameTwice DEF AllSame, Same

\* The choices of two routines together.
LEMMA ChoicesUnion ==
  ASSUME NEW m, NEW S, NEW T, AllSame(m, S), AllSame(m, T)
  PROVE  AllSame(m, S \cup T)
  BY DEF AllSame

\* No choice at all.
LEMMA ChoicesNone == ASSUME NEW m PROVE AllSame(m, {})
  BY DEF AllSame

\* Routines that only pick a move.
LEMMA PlainRoutines ==
  ASSUME NEW m, HasName(m), NEW a, NEW b
  PROVE  /\ AllSame(m, JawWormNext(m)) /\ AllSame(m, CultistNext(m))
         /\ AllSame(m, LouseNext(m, a)) /\ AllSame(m, SpikeSlimeNext(m))
         /\ AllSame(m, AcidSlimeNext(m)) /\ AllSame(m, SmallAcidSlimeNext(m))
         /\ AllSame(m, FungiBeastNext(m)) /\ AllSame(m, SlaverBlueNext(m))
         /\ AllSame(m, SlaverRedNext(m)) /\ AllSame(m, TsundereNext(m, a))
         /\ AllSame(m, SentryNext(m, a)) /\ AllSame(m, LagavulinNext(m))
         /\ AllSame(m, CenturionNext(m, a)) /\ AllSame(m, HealerNext(m, a))
         /\ AllSame(m, ChosenNext(m)) /\ AllSame(m, ShelledParasiteNext(m))
         /\ AllSame(m, SnakePlantNext(m)) /\ AllSame(m, SneckoNext(m))
         /\ AllSame(m, TaskmasterNext(m)) /\ AllSame(m, BookOfStabbingNext(m))
         /\ AllSame(m, GremlinLeaderNext(m, a)) /\ AllSame(m, CollectorNext(m, a))
         /\ AllSame(m, ExploderNext(m)) /\ AllSame(m, RepulsorNext(m))
         /\ AllSame(m, SpikerNext(m)) /\ AllSame(m, OrbWalkerNext(m))
         /\ AllSame(m, TransientNext(m)) /\ AllSame(m, SpireGrowthNext(m, a))
         /\ AllSame(m, MawNext(m)) /\ AllSame(m, WrithingMassNext(m))
         /\ AllSame(m, DonuNext(m)) /\ AllSame(m, DecaNext(m))
         /\ AllSame(m, ReptomancerNext(m, a)) /\ AllSame(m, SnakeDaggerNext(m))
  BY AnyOfKeeps, Zenon
     DEF JawWormNext, CultistNext, LouseNext, SpikeSlimeNext, AcidSlimeNext, SmallAcidSlimeNext,
         FungiBeastNext, SlaverBlueNext, SlaverRedNext, TsundereNext, SentryNext, LagavulinNext,
         CenturionNext, HealerNext, ChosenNext, ShelledParasiteNext, SnakePlantNext, SneckoNext,
         TaskmasterNext, BookOfStabbingNext, GremlinLeaderNext, CollectorNext, ExploderNext,
         RepulsorNext, SpikerNext, OrbWalkerNext, TransientNext, SpireGrowthNext, MawNext,
         WrithingMassNext, DonuNext, DecaNext, ReptomancerNext, SnakeDaggerNext

\* Routines that lift or set flags and counters besides.
LEMMA GremlinNobKeeps == ASSUME NEW m, HasName(m) PROVE AllSame(m, GremlinNobNext(m))
  BY AnyOfKeeps DEF GremlinNobNext

\* Hexaghost counts its fires.
LEMMA HexaghostKeeps == ASSUME NEW m, HasName(m) PROVE AllSame(m, HexaghostNext(m))
<1>1. Same(m, Relit(m))
  <2> DEFINE v == IF m.n < 6 THEN m.n + 1 ELSE m.n
             lit == [m EXCEPT !.n = v]
  <2>1. Same(m, lit)
    BY FieldKeeps
  <2>2. Same(m, Move(lit, "INFERNO"))
    <3> HIDE DEF lit
    <3> QED BY <2>1, MoveKeeps, SameTwice DEF Same
  <2>3. Relit(m) \in {m, lit, Move(lit, "INFERNO"), [m EXCEPT !.n = 0]}
    BY DEF Relit
  <2>4. Same(m, m) /\ Same(m, [m EXCEPT !.n = 0])
    BY SameAsItself, FieldKeeps
  <2> HIDE DEF lit
  <2> QED BY <2>1, <2>2, <2>3, <2>4
<1> QED BY <1>1, AnyOfSame DEF HexaghostNext

\* A byrd on the wing or on the ground.
LEMMA ByrdKeeps == ASSUME NEW m, HasName(m) PROVE AllSame(m, ByrdNext(m))
  BY AnyOfKeeps DEF ByrdNext

\* The sphere's first moves.
LEMMA SphericGuardianKeeps == ASSUME NEW m, HasName(m) PROVE AllSame(m, SphericGuardianNext(m))
<1>1. \A v : Same(m, Raise(m, v)) /\ Same(m, Lower(m, v)) /\ Same(m, m)
  BY MoveKeeps, SameAsItself
<1> QED BY <1>1, AnyOfSame DEF SphericGuardianNext

\* The Champ counts its turns and its stances.
LEMMA ChampKeeps == ASSUME NEW m, HasName(m) PROVE AllSame(m, ChampNext(m))
<1> DEFINE v == IF m.n < 15 THEN m.n + 1 ELSE m.n
           later == [m EXCEPT !.n = v]
           reset == [later EXCEPT !.n = 0]
           stood == [later EXCEPT !.k = later.k + 1]
<1>1. Same(m, later)
  BY FieldKeeps
<1>2. Same(m, reset) /\ Same(m, stood) /\ Same(m, Raise(later, "threshold"))
  <2>1. HasName(later)
    BY <1>1 DEF Same
  <2> HIDE DEF later
  <2>2. Same(later, reset)
    BY <2>1, FieldKeeps
  <2>3. Same(later, stood)
    BY <2>1, FieldKeeps
  <2>4. Same(later, Raise(later, "threshold"))
    BY <2>1, MoveKeeps
  <2> HIDE DEF reset, stood
  <2> QED BY <1>1, <2>2, <2>3, <2>4, SameTwice
<1>3. \A S : /\ AllSame(m, AnyOf(later, S)) /\ AllSame(m, AnyOf(reset, S))
             /\ AllSame(m, AnyOf(stood, S)) /\ AllSame(m, AnyOf(Raise(later, "threshold"), S))
  <2> HIDE DEF later, reset, stood
  <2> QED BY <1>1, <1>2, AnyOfSame
<1>4. \A S, T : AllSame(m, AnyOf(later, S) \cup AnyOf(stood, T)) /\ AllSame(m, AnyOf(later, S) \cup {})
  <2> HIDE DEF later, reset, stood
  <2> QED BY <1>3, ChoicesUnion, ChoicesNone
<1>5. PICK S, T :
        ChampNext(m) \in {AnyOf(Raise(later, "threshold"), {"ANGER"}), AnyOf(later, {"EXECUTE"}),
                          AnyOf(reset, {"TAUNT"}), AnyOf(later, S) \cup AnyOf(stood, T),
                          AnyOf(later, S) \cup {}}
  BY Zenon DEF ChampNext
<1> HIDE DEF later, reset, stood
<1> QED BY <1>3, <1>4, <1>5

\* The automaton counts up to its beam.
LEMMA BronzeAutomatonKeeps == ASSUME NEW m, HasName(m) PROVE AllSame(m, BronzeAutomatonNext(m))
<1>1. \A v : Same(m, [m EXCEPT !.n = v])
  BY FieldKeeps
<1>2. \A v, S : AllSame(m, AnyOf([m EXCEPT !.n = v], S)) /\ AllSame(m, AnyOf(m, S))
  BY <1>1, AnyOfSame, AnyOfKeeps
<1> QED BY <1>2 DEF BronzeAutomatonNext

\* An orb takes its card once.
LEMMA BronzeOrbKeeps == ASSUME NEW m, HasName(m) PROVE AllSame(m, BronzeOrbNext(m))
<1>1. \A S : AllSame(m, AnyOf(m, S)) /\ AllSame(m, AnyOf(Raise(m, "stasis"), S))
  BY AnyOfKeeps, AnyOfSame, MoveKeeps
<1> QED BY <1>1, ChoicesUnion, ChoicesNone, Zenon DEF BronzeOrbNext

\* The head counts down.
LEMMA GiantHeadKeeps == ASSUME NEW m, HasName(m) PROVE AllSame(m, GiantHeadNext(m))
<1>1. \A v : Same(m, [m EXCEPT !.n = v])
  BY FieldKeeps
<1>2. \A v, S : AllSame(m, AnyOf([m EXCEPT !.n = v], S)) /\ AllSame(m, AnyOf(m, S))
  BY <1>1, AnyOfSame, AnyOfKeeps
<1> QED BY <1>2 DEF GiantHeadNext

\* Nemesis counts between scythes.
LEMMA NemesisKeeps == ASSUME NEW m, HasName(m) PROVE AllSame(m, NemesisNext(m))
<1> DEFINE v == IF m.n > 0 THEN m.n - 1 ELSE 0
           less == [m EXCEPT !.n = v]
           armed == [less EXCEPT !.n = 2]
<1>1. Same(m, less)
  BY FieldKeeps
<1>2. Same(m, armed)
  <2> HIDE DEF less
  <2> QED BY <1>1, FieldKeeps, SameTwice DEF Same
<1>3. \A S : AllSame(m, AnyOf(less, S)) /\ AllSame(m, AnyOf(armed, S))
  <2> HIDE DEF less, armed
  <2> QED BY <1>1, <1>2, AnyOfSame
<1>4. \A S, T : AllSame(m, AnyOf(less, S) \cup AnyOf(armed, T)) /\ AllSame(m, AnyOf(less, S) \cup {})
  <2> HIDE DEF less, armed
  <2> QED BY <1>3, ChoicesUnion, ChoicesNone
<1>5. PICK S, T :
        NemesisNext(m) \in {AnyOf(less, S), AnyOf(less, S) \cup AnyOf(armed, T), AnyOf(less, S) \cup {}}
  BY Zenon DEF NemesisNext
<1> HIDE DEF less, armed
<1> QED BY <1>3, <1>4, <1>5

\* A darkling that rises is whole again.
LEMMA DarklingKeeps == ASSUME NEW m, HasName(m), NEW a PROVE AllSame(m, DarklingNext(m, a))
<1> DEFINE whole == IF LastIs(m, "REINCARNATE") THEN Lower(m, "half") ELSE m
<1>1. Same(m, whole)
  BY MoveKeeps, SameAsItself
<1>2. \A S : AllSame(m, AnyOf(whole, S))
  <2> HIDE DEF whole
  <2> QED BY <1>1, AnyOfSame
<1>3. PICK S : DarklingNext(m, a) = AnyOf(whole, S)
  BY Zenon DEF DarklingNext
<1> HIDE DEF whole
<1> QED BY <1>2, <1>3

\* The Awakened One's first move of a form.
LEMMA AwakenedOneKeeps == ASSUME NEW m, HasName(m) PROVE AllSame(m, AwakenedOneNext(m))
<1>1. \A S : AllSame(m, AnyOf(m, S)) /\ AllSame(m, AnyOf(Lower(m, "first"), S))
  BY AnyOfKeeps, AnyOfSame, MoveKeeps
<1> QED BY <1>1 DEF AwakenedOneNext

\* The Time Eater hastes once.
LEMMA TimeEaterKeeps == ASSUME NEW m, HasName(m) PROVE AllSame(m, TimeEaterNext(m))
<1>1. \A S : AllSame(m, AnyOf(m, S)) /\ AllSame(m, AnyOf(Raise(m, "hasted"), S))
  BY AnyOfKeeps, AnyOfSame, MoveKeeps
<1> QED BY <1>1 DEF TimeEaterNext

\* The guards and the Heart go round in cycles.
LEMMA CyclesKeep ==
  ASSUME NEW m, HasName(m)
  PROVE  /\ AllSame(m, SpireShieldNext(m)) /\ AllSame(m, SpireSpearNext(m))
         /\ AllSame(m, CorruptHeartNext(m))
<1>1. Same(m, Bump(m))
  BY FieldKeeps DEF Bump
<1>2. \A S : AllSame(m, AnyOf(m, S)) /\ AllSame(m, AnyOf(Bump(m), S))
  BY <1>1, AnyOfKeeps, AnyOfSame
<1> QED BY <1>2, Zenon DEF SpireShieldNext, SpireSpearNext, CorruptHeartNext

-----------------------------------------------------------------------------
\* The dispatch of the routines.
LEMMA BeyondChosenKeeps ==
  ASSUME NEW f, NEW i, HasName(f[i]) PROVE AllSame(f[i], BeyondChosen(f, i))
<1> DEFINE m == f[i]
<1>1. AllSame(m, {m})
  BY SameAsItself DEF AllSame
<1>2. AllSame(m, SpireGrowthNext(m, TRUE) \cup SpireGrowthNext(m, FALSE))
  BY PlainRoutines, ChoicesUnion, Zenon
<1>3. PICK a, b :
        BeyondChosen(f, i) \in
          {DarklingNext(m, b), OrbWalkerNext(m), RepulsorNext(m), ExploderNext(m), SpikerNext(m),
           SpireGrowthNext(m, TRUE) \cup SpireGrowthNext(m, FALSE), TransientNext(m), MawNext(m),
           WrithingMassNext(m), GiantHeadNext(m), NemesisNext(m), ReptomancerNext(m, a),
           SnakeDaggerNext(m), AwakenedOneNext(m), TimeEaterNext(m), DonuNext(m), DecaNext(m),
           SpireShieldNext(m), SpireSpearNext(m), CorruptHeartNext(m), {m}}
  BY Zenon DEF BeyondChosen
<1> HIDE DEF m
<1> QED BY <1>1, <1>2, <1>3, DarklingKeeps, PlainRoutines, GiantHeadKeeps, NemesisKeeps,
           AwakenedOneKeeps, TimeEaterKeeps, CyclesKeep DEF m

\* The routines of the second act.
LEMMA CityChosenKeeps ==
  ASSUME NEW f, NEW i, HasName(f[i]) PROVE AllSame(f[i], CityChosen(f, i))
<1> DEFINE m == f[i]
<1>1. AllSame(m, HealerNext(m, TRUE) \cup HealerNext(m, FALSE))
  BY PlainRoutines, ChoicesUnion, Zenon
<1>2. AllSame(m, BeyondChosen(f, i))
  BY BeyondChosenKeeps
<1>3. PICK a, b, c :
        CityChosen(f, i) \in
          {CenturionNext(m, a), HealerNext(m, TRUE) \cup HealerNext(m, FALSE), ChosenNext(m),
           ByrdNext(m), ShelledParasiteNext(m), SphericGuardianNext(m), SnakePlantNext(m),
           SneckoNext(m), TaskmasterNext(m), BookOfStabbingNext(m), GremlinLeaderNext(m, b),
           ChampNext(m), BronzeAutomatonNext(m), BronzeOrbNext(m), CollectorNext(m, c),
           BeyondChosen(f, i)}
  BY Zenon DEF CityChosen
<1> HIDE DEF m
<1> QED BY <1>1, <1>2, <1>3, PlainRoutines, ByrdKeeps, SphericGuardianKeeps, ChampKeeps,
           BronzeAutomatonKeeps, BronzeOrbKeeps DEF m

\* Whatever record i chooses, it keeps its name.
LEMMA ChosenKeeps ==
  ASSUME NEW f, NEW i, HasName(f[i]) PROVE AllSame(f[i], Chosen(f, i))
<1> DEFINE m == f[i]
<1>1. AllSame(m, CityChosen(f, i))
  BY CityChosenKeeps
<1>2. PICK a, b, c, S :
        Chosen(f, i) \in
          {JawWormNext(m), CultistNext(m), LouseNext(m, a), SpikeSlimeNext(m), AcidSlimeNext(m),
           SmallAcidSlimeNext(m), AnyOf(m, S), FungiBeastNext(m), GremlinNobNext(m), SlaverBlueNext(m),
           SlaverRedNext(m), SentryNext(m, b), LagavulinNext(m), HexaghostNext(m), CityChosen(f, i)}
  BY Zenon DEF Chosen
<1> HIDE DEF m
<1> QED BY <1>1, <1>2, PlainRoutines, AnyOfKeeps, GremlinNobKeeps, HexaghostKeeps DEF m

\* So does the first choice.
LEMMA OpenedKeeps ==
  ASSUME NEW f, NEW i, HasName(f[i]), NEW id PROVE AllSame(f[i], Opened(f, i, id))
  BY AnyOfKeeps, ChosenKeeps DEF Opened

\* A record is made with the name it is given.
LEMMA MadeNamed ==
  ASSUME NEW who \in Nat, NEW id, NEW x PROVE HasName(Made(who, id, x)) /\ Made(who, id, x).who = who
<1>1. \A b, h : HasName(Record(who, b, h, x)) /\ Record(who, b, h, x).who = who
  BY DEF Record, HasName
<1>2. PICK b, h, v :
        Made(who, id, x) \in {[Record(who, b, h, x) EXCEPT !.on = v], [Record(who, b, h, x) EXCEPT !.n = v],
                              Record(who, b, h, x)}
  BY Zenon DEF Made
<1> DEFINE r == Record(who, b, h, x)
<1>3. HasName(r) /\ r.who = who
  BY <1>1
<1>4. Same(r, r) /\ Same(r, [r EXCEPT !.on = v]) /\ Same(r, [r EXCEPT !.n = v])
  <2> HIDE DEF r
  <2> QED BY <1>3, FieldKeeps, SameAsItself
<1>5. Made(who, id, x) \in {[r EXCEPT !.on = v], [r EXCEPT !.n = v], r}
  BY <1>2
<1> HIDE DEF r
<1> QED BY <1>3, <1>4, <1>5 DEF Same

\* And so do the actions before the battle.
LEMMA PreBattleKeeps == ASSUME NEW m, HasName(m) PROVE Same(m, PreBattle(m))
<1>1. \A v : /\ Same(m, [m EXCEPT !.k = v]) /\ Same(m, [m EXCEPT !.n = v])
             /\ Same(m, Move(m, v)) /\ Same(m, Raise(m, v)) /\ Same(m, m)
  BY FieldKeeps, MoveKeeps, SameAsItself
<1>2. Same(m, ExordiumPreBattle(m))
  BY <1>1 DEF ExordiumPreBattle
<1> QED BY <1>1, <1>2 DEF PreBattle

-----------------------------------------------------------------------------
(***************************************************************************)
(* What a turn leaves to the queue: a layout of its own, or plain items.   *)
(***************************************************************************)
PlainOps == {"hit", "roll", "set", "mode", "unshift", "shift", "land", "crack", "minion", "vanish",
             "slay", "burn", "spend", "escape", "cannot", "can", "heal"}
Layouts == {"split", "rally", "daggers", "torches", "relight", "orbs"}

Steps(q) == (\E X : q \in Seq(X)) /\ \A k \in 1..Len(q) : q[k].op \in PlainOps
Owes(q) == Steps(q) \/ \E l \in Layouts : q = <<Do(l)>>

\* The turns of a record.
TurnOf(m, t) == Same(m, t.m) /\ Owes(t.q)
TurnsOf(m, T) == \A t \in T : TurnOf(m, t)

\* An item that any queue can hold.
Plain(d) == d.op \in PlainOps

\* Short sequences of plain items.
LEMMA StepsOf ==
  ASSUME NEW a, NEW b, NEW c, Plain(a), Plain(b), Plain(c)
  PROVE  Steps(<<>>) /\ Steps(<<a>>) /\ Steps(<<a, b>>) /\ Steps(<<a, b, c>>)
<1>1. <<>> \in Seq({a}) /\ <<a>> \in Seq({a}) /\ <<a, b>> \in Seq({a, b}) /\ <<a, b, c>> \in Seq({a, b, c})
  OBVIOUS
<1>2. /\ Len(<<>>) = 0
      /\ Len(<<a>>) = 1 /\ <<a>>[1] = a
      /\ Len(<<a, b>>) = 2 /\ <<a, b>>[1] = a /\ <<a, b>>[2] = b
      /\ Len(<<a, b, c>>) = 3 /\ <<a, b, c>>[1] = a /\ <<a, b, c>>[2] = b /\ <<a, b, c>>[3] = c
  OBVIOUS
<1>3. 1..0 = {} /\ 1..1 = {1} /\ 1..2 = {1, 2} /\ 1..3 = {1, 2, 3}
  OBVIOUS
<1>4. \A q : (\E X : q \in Seq(X)) /\ (\A k \in 1..Len(q) : Plain(q[k])) => Steps(q)
  BY DEF Steps, Plain
<1>5. \A k \in 1..Len(<<a>>) : Plain(<<a>>[k])
  BY <1>2, <1>3
<1>6. \A k \in 1..Len(<<a, b>>) : Plain(<<a, b>>[k])
  BY <1>2, <1>3
<1>7. \A k \in 1..Len(<<a, b, c>>) : Plain(<<a, b, c>>[k])
  BY <1>2, <1>3
<1>8. \A k \in 1..Len(<<>>) : Plain(<<>>[k])
  BY <1>2, <1>3
<1>9. (\E X : <<>> \in Seq(X)) /\ (\E X : <<a>> \in Seq(X)) /\ (\E X : <<a, b>> \in Seq(X)) /\ (\E X : <<a, b, c>> \in Seq(X))
  BY <1>1
<1> QED BY <1>4, <1>5, <1>6, <1>7, <1>8, <1>9, Zenon

\* The items of the turns are plain.
LEMMA PlainItems ==
  /\ Plain(Hit) /\ Plain(Roll) /\ Plain(Do("shift")) /\ Plain(Do("escape")) /\ Plain(Do("heal"))
  /\ Plain(Do("can")) /\ Plain(Do("spend")) /\ Plain(Do("slay")) /\ Plain(Do("burn"))
  /\ \A v : Plain(Set(v))
  BY DEF Plain, Hit, Roll, Do, Set, PlainOps

\* Two such sequences are one.
LEMMA StepsTwice ==
  ASSUME NEW p, NEW q, Steps(p), Steps(q) PROVE Steps(p \o q)
<1>1. PICK X : p \in Seq(X)
  BY DEF Steps
<1>2. PICK Y : q \in Seq(Y)
  BY DEF Steps
<1>3. p \in Seq(X \cup Y) /\ q \in Seq(X \cup Y)
  BY <1>1, <1>2
<1>4. /\ p \o q \in Seq(X \cup Y) /\ Len(p \o q) = Len(p) + Len(q)
      /\ Len(p) \in Nat /\ Len(q) \in Nat
      /\ \A k \in 1..(Len(p) + Len(q)) : (p \o q)[k] = IF k <= Len(p) THEN p[k] ELSE q[k - Len(p)]
  BY <1>3
<1>5. ASSUME NEW k \in 1..(Len(p) + Len(q)) PROVE (p \o q)[k].op \in PlainOps
  <2>1. CASE k <= Len(p)
    <3>1. k \in 1..Len(p)
      BY <1>4, <2>1
    <3> QED BY <3>1, <2>1, <1>4 DEF Steps
  <2>2. CASE ~(k <= Len(p))
    <3>1. k - Len(p) \in 1..Len(q)
      BY <1>4, <2>2
    <3> QED BY <3>1, <2>2, <1>4 DEF Steps
  <2> QED BY <2>1, <2>2
<1> QED BY <1>4, <1>5 DEF Steps

\* What the effects of a move queue.
LEMMA EffectsPlain ==
  ASSUME NEW m
  PROVE  Steps(MoveEffects(m)) /\ \A v : Steps(MoveEffects(m) \o <<Set(v)>>) /\ Steps(MoveEffects(m) \o <<Roll>>)
<1>1. Steps(<<>>) /\ Steps(<<Hit>>) /\ Steps(<<Roll>>) /\ \A v : Steps(<<Set(v)>>)
  BY PlainItems, StepsOf
<1>2. Steps(MoveEffects(m))
  BY <1>1 DEF MoveEffects
<1> QED BY <1>1, <1>2, StepsTwice

\* A turn that leaves the record c.
LEMMA TurnIs ==
  ASSUME NEW m, NEW c, NEW q, Same(m, c), Owes(q) PROVE TurnsOf(m, Turn(c, q))
  BY DEF TurnsOf, TurnOf, Turn

\* Turns that choose.
LEMMA TurnsChosen ==
  ASSUME NEW m, NEW S, AllSame(m, S), NEW q, Owes(q)
  PROVE  TurnsOf(m, {[m |-> c, q |-> q] : c \in S})
  BY DEF TurnsOf, TurnOf, AllSame

\* The turns of two routines together.
LEMMA TurnsUnion ==
  ASSUME NEW m, NEW S, NEW T, TurnsOf(m, S), TurnsOf(m, T) PROVE TurnsOf(m, S \cup T)
  BY DEF TurnsOf

\* The sequences of the turns, one by one.
LEMMA Owings ==
  /\ Owes(<<>>) /\ Owes(<<Hit>>) /\ Owes(<<Roll>>) /\ Owes(<<Hit, Roll>>)
  /\ Owes(<<Hit, Do("shift")>>) /\ Owes(<<Do("heal"), Roll>>) /\ Owes(<<Roll, Do("heal"), Do("can")>>)
  /\ Owes(<<Hit, Do("spend"), Roll>>)
  /\ \A v : Owes(<<Set(v)>>) /\ Owes(<<Hit, Set(v)>>) /\ Owes(<<Do("escape"), Set(v)>>)
  /\ \A l \in Layouts : Owes(<<Do(l)>>)
  BY PlainItems, StepsOf DEF Owes

\* The effects of a move, and what a turn adds to them.
LEMMA EffectsOwed ==
  ASSUME NEW m
  PROVE  Owes(MoveEffects(m)) /\ \A v : Owes(MoveEffects(m) \o <<Set(v)>>) /\ Owes(MoveEffects(m) \o <<Roll>>)
  BY EffectsPlain DEF Owes

\* The effects of a move, with a roll or with the move again.
LEMMA PlainTurnIs ==
  ASSUME NEW m, NEW c, Same(m, c)
  PROVE  TurnsOf(m, PlainTurn(c)) /\ TurnsOf(m, RepeatingTurn(c))
  BY EffectsOwed, TurnIs DEF PlainTurn, RepeatingTurn

\* Turns that choose at once.
LEMMA RollingTurnIs ==
  ASSUME NEW f, NEW i, HasName(f[i]) PROVE TurnsOf(f[i], RollingTurn(f, i))
  BY ChosenKeeps, EffectsOwed, TurnsChosen DEF RollingTurn

\* Records of the same name, in the shapes the turns use.
LEMMA SameShapes ==
  ASSUME NEW m, HasName(m), NEW c, Same(m, c), NEW v
  PROVE  /\ Same(m, m) /\ HasName(c)
         /\ Same(m, Move(c, v)) /\ Same(m, Raise(c, v)) /\ Same(m, Lower(c, v))
         /\ Same(m, [c EXCEPT !.n = v]) /\ Same(m, [c EXCEPT !.k = v]) /\ Same(m, [c EXCEPT !.on = v])
<1>1. HasName(c)
  BY DEF Same
<1>2. /\ Same(c, Move(c, v)) /\ Same(c, Raise(c, v)) /\ Same(c, Lower(c, v))
      /\ Same(c, [c EXCEPT !.n = v]) /\ Same(c, [c EXCEPT !.k = v]) /\ Same(c, [c EXCEPT !.on = v])
  BY <1>1, MoveKeeps, FieldKeeps
<1> QED BY <1>1, <1>2, SameTwice, SameAsItself

\* The Guardian's modes.
LEMMA GuardianTurnIs == ASSUME NEW m, HasName(m) PROVE TurnsOf(m, GuardianTurn(m))
<1>1. \A v : Same(m, Move(m, v))
  BY MoveKeeps
<1>2. \A v : Same(m, Move(Lower(Raise(m, "open"), "closing"), v))
  <2>1. Same(m, Raise(m, "open"))
    BY MoveKeeps
  <2>2. Same(m, Lower(Raise(m, "open"), "closing"))
    BY <2>1, SameShapes
  <2> QED BY <2>2, SameShapes
<1> QED BY <1>1, <1>2, Owings, EffectsOwed, TurnIs DEF GuardianTurn

\* Slimes that may split.
LEMMA SlimeTurnsAre ==
  ASSUME NEW m, HasName(m) PROVE TurnsOf(m, SlimeBossTurn(m)) /\ TurnsOf(m, LargeSlimeTurn(m))
<1>1. \A v : Same(m, Move(m, v)) /\ Same(m, m)
  BY MoveKeeps, SameAsItself
<1>2. Owes(<<Do("split")>>)
  BY Owings DEF Layouts
<1> QED BY <1>1, <1>2, EffectsOwed, TurnIs, PlainTurnIs DEF SlimeBossTurn, LargeSlimeTurn

\* Lagavulin asleep and awake.
LEMMA LagavulinTurnIs == ASSUME NEW m, HasName(m) PROVE TurnsOf(m, LagavulinTurn(m))
<1>1. \A c, q : Same(m, c) /\ Owes(q) => TurnsOf(m, LagavulinChooses(c, q))
  <2> TAKE c, q
  <2> HAVE Same(m, c) /\ Owes(q)
  <2>1. HasName(c)
    BY DEF Same
  <2>2. AllSame(c, LagavulinNext(c))
    BY <2>1, PlainRoutines
  <2>3. AllSame(m, LagavulinNext(c))
    BY <2>2, SameTwice DEF AllSame
  <2> QED BY <2>3, TurnsChosen DEF LagavulinChooses
<1>2. \A v : Same(m, [m EXCEPT !.n = v]) /\ Same(m, m)
  BY FieldKeeps, SameAsItself
<1>3. \A v : Same(m, Move([m EXCEPT !.k = v], "IDLE"))
  BY FieldKeeps, SameShapes
<1>4. TurnsOf(m, LagavulinOpens(m))
  <2> DEFINE slept == [m EXCEPT !.k = 3]
             v == m.on \cup {"out", "roused"}
             open == [slept EXCEPT !.on = slept.on \cup {"out", "roused"}]
  <2>1. Same(m, slept)
    BY FieldKeeps
  <2>2. Same(m, open)
    <3> HIDE DEF slept
    <3> QED BY <2>1, SameShapes
  <2>3. [m EXCEPT !.k = 3, !.on = @ \cup {"out", "roused"}] = open
    OBVIOUS
  <2> HIDE DEF open, slept
  <2> QED BY <2>2, <2>3, Owings, TurnIs DEF LagavulinOpens
<1> QED BY <1>1, <1>2, <1>3, <1>4, Owings DEF LagavulinTurn

\* Hexaghost.
LEMMA HexaghostTurnIs == ASSUME NEW m, HasName(m) PROVE TurnsOf(m, HexaghostTurn(m))
<1>1. Same(m, m) /\ Same(m, Move([m EXCEPT !.n = 6], "DIVIDER"))
  BY FieldKeeps, SameShapes, SameAsItself
<1> QED BY <1>1, Owings, TurnIs, PlainTurnIs DEF HexaghostTurn

\* The shield gremlin.
LEMMA TsundereTurnIs == ASSUME NEW m, HasName(m), NEW a PROVE TurnsOf(m, TsundereTurn(m, a))
<1>1. TurnsOf(m, RepeatingTurn(m))
  BY SameAsItself, PlainTurnIs
<1>2. TurnsOf(m, {[m |-> c, q |-> <<>>] : c \in TsundereNext(m, a)})
  <2>1. AllSame(m, TsundereNext(m, a)) /\ Owes(<<>>)
    BY PlainRoutines, Owings
  <2> DEFINE S == TsundereNext(m, a)
             none == <<>>
  <2>2. TurnsOf(m, {[m |-> c, q |-> none] : c \in S})
    <3> HIDE DEF S, none
    <3> QED BY <2>1, TurnsChosen DEF S, none
  <2> QED BY <2>2
<1> QED BY <1>1, <1>2, Zenon DEF TsundereTurn

\* The wizard that charges.
LEMMA WizardTurnIs == ASSUME NEW m, HasName(m) PROVE TurnsOf(m, WizardTurn(m))
<1>1. \A v, u : Same(m, [m EXCEPT !.n = v]) /\ Same(m, Move([m EXCEPT !.n = v], u))
  BY FieldKeeps, SameShapes
<1> QED BY <1>1, Owings, TurnIs DEF WizardTurn

\* Thieves, up to their escape.
LEMMA ThiefTurnIs == ASSUME NEW m, HasName(m), NEW lunge PROVE TurnsOf(m, ThiefTurn(m, lunge))
<1>1. \A v, u : /\ Same(m, [m EXCEPT !.n = v]) /\ Same(m, Move([m EXCEPT !.n = v], u))
                /\ Same(m, Move(m, u)) /\ Same(m, m)
  BY FieldKeeps, SameShapes, SameAsItself, MoveKeeps
<1>2. \A v, u, q, r : Owes(q) /\ Owes(r) =>
        TurnsOf(m, Turn(Move([m EXCEPT !.n = v], u), q) \cup Turn([m EXCEPT !.n = v], r))
  BY <1>1, TurnIs, TurnsUnion
<1> QED BY <1>1, <1>2, Owings, TurnIs DEF ThiefTurn

\* Turns with a sequence of their own.
LEMMA PlainTurnsAre ==
  ASSUME NEW m, HasName(m)
  PROVE  /\ TurnsOf(m, SlaverRedTurn(m)) /\ TurnsOf(m, MawTurn(m)) /\ TurnsOf(m, SpikerTurn(m))
         /\ TurnsOf(m, WrithingMassTurn(m)) /\ TurnsOf(m, DonuTurn(m)) /\ TurnsOf(m, DecaTurn(m))
<1>1. \A v : /\ Same(m, m) /\ Same(m, [m EXCEPT !.n = v]) /\ Same(m, Raise(m, v)) /\ Same(m, Lower(m, v))
  BY FieldKeeps, MoveKeeps, SameAsItself
<1> QED BY <1>1, PlainTurnIs
        DEF SlaverRedTurn, MawTurn, SpikerTurn, WrithingMassTurn, DonuTurn, DecaTurn

\* The bandits.
LEMMA BanditTurnsAre ==
  ASSUME NEW m, HasName(m) PROVE TurnsOf(m, BanditLeaderTurn(m)) /\ TurnsOf(m, BanditBearTurn(m))
  BY SameAsItself, EffectsOwed, TurnIs DEF BanditLeaderTurn, BanditBearTurn

\* More turns of the second act.
LEMMA CityTurnsAre ==
  ASSUME NEW m, HasName(m)
  PROVE  /\ TurnsOf(m, ByrdTurn(m)) /\ TurnsOf(m, ShelledParasiteTurn(m))
         /\ TurnsOf(m, GremlinLeaderTurn(m)) /\ TurnsOf(m, BronzeAutomatonTurn(m))
<1>1. \A v : Same(m, m) /\ Same(m, Move(m, v)) /\ Same(m, Raise(m, v))
  BY MoveKeeps, SameAsItself
<1>2. Owes(<<Do("rally")>>) /\ Owes(<<Do("orbs")>>)
  BY Owings DEF Layouts
<1> QED BY <1>1, <1>2, Owings, TurnIs, PlainTurnIs
        DEF ByrdTurn, ShelledParasiteTurn, GremlinLeaderTurn, BronzeAutomatonTurn

\* The Collector.
LEMMA CollectorTurnIs == ASSUME NEW m, HasName(m) PROVE TurnsOf(m, CollectorTurn(m))
<1> DEFINE v == IF m.n < 3 THEN m.n + 1 ELSE m.n
           later == [m EXCEPT !.n = v]
<1>1. Same(m, later)
  BY FieldKeeps
<1>2. \A u : Same(m, Raise(later, u))
  <2> HIDE DEF later
  <2> QED BY <1>1, SameShapes
<1>3. Owes(<<Do("torches")>>) /\ Owes(<<Do("relight")>>)
  BY Owings DEF Layouts
<1>4. CollectorTurn(m) \in
        {Turn(Raise(later, "spawned"), <<Do("torches")>>), Turn(later, <<Do("relight")>>),
         Turn(Raise(later, "ult"), <<Roll>>), Turn(later, MoveEffects(m) \o <<Roll>>)}
  BY Zenon DEF CollectorTurn
<1>5. /\ TurnsOf(m, Turn(Raise(later, "spawned"), <<Do("torches")>>))
      /\ TurnsOf(m, Turn(later, <<Do("relight")>>))
      /\ TurnsOf(m, Turn(Raise(later, "ult"), <<Roll>>))
      /\ TurnsOf(m, Turn(later, MoveEffects(m) \o <<Roll>>))
  <2> HIDE DEF later
  <2> QED BY <1>1, <1>2, <1>3, Owings, EffectsOwed, TurnIs
<1> HIDE DEF later
<1> QED BY <1>4, <1>5

\* Turns of the third act.
LEMMA BeyondTurnsAre ==
  ASSUME NEW m, HasName(m)
  PROVE  /\ TurnsOf(m, DarklingTurn(m)) /\ TurnsOf(m, TimeEaterTurn(m))
         /\ TurnsOf(m, ReptomancerTurn(m)) /\ TurnsOf(m, SnakeDaggerTurn(m))
         /\ TurnsOf(m, AwakenedOneTurn(m))
<1>1. Same(m, m) /\ Same(m, Lower(m, "first"))
  BY MoveKeeps, SameAsItself
<1>2. Owes(<<Do("daggers")>>)
  BY Owings DEF Layouts
<1> QED BY <1>1, <1>2, Owings, TurnIs, PlainTurnIs
        DEF DarklingTurn, TimeEaterTurn, ReptomancerTurn, SnakeDaggerTurn, AwakenedOneTurn

\* The Transient.
LEMMA TransientTurnIs == ASSUME NEW m, HasName(m) PROVE TurnsOf(m, TransientTurn(m))
<1>1. AllSame(m, TransientNext(m)) /\ Owes(<<Hit>>)
  BY PlainRoutines, Owings
<1> DEFINE S == TransientNext(m)
           one == <<Hit>>
<1>2. TurnsOf(m, {[m |-> c, q |-> one] : c \in S})
  <2> HIDE DEF S, one
  <2> QED BY <1>1, TurnsChosen DEF S, one
<1> QED BY <1>2 DEF TransientTurn

\* Every turn a record may take leaves it its name, and owes what a queue can hold.
LEMMA TurnedIs == ASSUME NEW f, NEW i, HasName(f[i]) PROVE TurnsOf(f[i], Turned(f, i))
<1> DEFINE m == f[i]
<1>1. TurnsOf(m, RollingTurn(f, i))
  BY RollingTurnIs
<1>2. Same(m, m)
  BY SameAsItself
<1>3. PICK a :
        Turned(f, i) \in
          {RollingTurn(f, i), RepeatingTurn(m), TsundereTurn(m, a), WizardTurn(m), LooterTurn(m),
           MuggerTurn(m), SlaverRedTurn(m), LagavulinTurn(m), GuardianTurn(m), HexaghostTurn(m),
           SlimeBossTurn(m), LargeSlimeTurn(m), BanditLeaderTurn(m), BanditBearTurn(m), ByrdTurn(m),
           ShelledParasiteTurn(m), GremlinLeaderTurn(m), BronzeAutomatonTurn(m), CollectorTurn(m),
           MawTurn(m), SpikerTurn(m), WrithingMassTurn(m), TransientTurn(m), DonuTurn(m), DecaTurn(m),
           DarklingTurn(m), TimeEaterTurn(m), ReptomancerTurn(m), SnakeDaggerTurn(m),
           AwakenedOneTurn(m), PlainTurn(m)}
  BY Zenon DEF Turned
<1>4. TurnsOf(m, LooterTurn(m)) /\ TurnsOf(m, MuggerTurn(m))
  BY ThiefTurnIs DEF LooterTurn, MuggerTurn
<1> HIDE DEF m
<1> QED BY <1>1, <1>2, <1>3, <1>4, PlainTurnIs, TsundereTurnIs, WizardTurnIs, PlainTurnsAre,
           LagavulinTurnIs, GuardianTurnIs, HexaghostTurnIs, SlimeTurnsAre, BanditTurnsAre,
           CityTurnsAre, CollectorTurnIs, TransientTurnIs, BeyondTurnsAre DEF m

(***************************************************************************)
(* Worlds: the field with its names, and the items that aim in it.         *)
(***************************************************************************)
IsList(q) == \E X : q \in Seq(X)

Field(f) == IsList(f) /\ \A j \in 1..Len(f) : HasName(f[j])
Names(f) == [j \in 1..Len(f) |-> f[j].who]
Kinds(f) == [j \in 1..Len(f) |-> f[j].id]

\* An item or a turn names the record it was meant for.
Aims(g, it) == it.at \in DOMAIN g /\ g[it.at] = it.who
Straight(g, it) == it.op \in PlainOps /\ (it.op \in {"cannot", "can"} \/ Aims(g, it))
AllStraight(g, q) == IsList(q) /\ \A k \in 1..Len(q) : Straight(g, q[k])

\* A world whose records bear the names g, with the turns t still due; and one
\* where nothing that waits will move a slot.
Shape(w) == w = [f |-> w.f, q |-> w.q, t |-> w.t, cl |-> w.cl]
Manned(ids, g, t, w) == Shape(w) /\ Field(w.f) /\ Names(w.f) = g /\ Kinds(w.f) = ids /\ w.t = t
Calm(ids, g, t, w) == Manned(ids, g, t, w) /\ AllStraight(g, w.q)

\* A list has a length and its places.
LEMMA ListFacts ==
  ASSUME NEW q, IsList(q)
  PROVE  Len(q) \in Nat /\ DOMAIN q = 1..Len(q)
  BY DEF IsList

\* Two lists joined.
LEMMA Joined ==
  ASSUME NEW p, NEW q, IsList(p), IsList(q)
  PROVE  /\ IsList(p \o q) /\ Len(p \o q) = Len(p) + Len(q)
         /\ \A k \in 1..Len(p) : (p \o q)[k] = p[k]
         /\ \A k \in 1..Len(q) : (p \o q)[Len(p) + k] = q[k]
<1>1. PICK X : p \in Seq(X)
  BY DEF IsList
<1>2. PICK Y : q \in Seq(Y)
  BY DEF IsList
<1>3. p \in Seq(X \cup Y) /\ q \in Seq(X \cup Y)
  BY <1>1, <1>2
<1>4. p \o q \in Seq(X \cup Y)
  BY <1>3
<1>5. /\ Len(p \o q) = Len(p) + Len(q)
      /\ \A k \in 1..Len(p) : (p \o q)[k] = p[k]
      /\ \A k \in 1..Len(q) : (p \o q)[Len(p) + k] = q[k]
  BY <1>3
<1> QED BY <1>4, <1>5 DEF IsList

\* The empty list and that of one.
LEMMA OneList ==
  ASSUME NEW a
  PROVE  /\ IsList(<<>>) /\ Len(<<>>) = 0
         /\ IsList(<<a>>) /\ Len(<<a>>) = 1 /\ <<a>>[1] = a
<1>1. <<>> \in Seq({a}) /\ <<a>> \in Seq({a})
  OBVIOUS
<1> QED BY <1>1 DEF IsList

\* A list is a function from its places.
LEMMA FunctionList ==
  ASSUME NEW n \in Nat, NEW S, NEW q \in [1..n -> S]
  PROVE  IsList(q) /\ Len(q) = n /\ DOMAIN q = 1..n
<1>1. q \in Seq(S) /\ Len(q) = n
  OBVIOUS
<1> QED BY <1>1 DEF IsList

\* A list without its head.
LEMMA TailList ==
  ASSUME NEW q, IsList(q), q # <<>>
  PROVE  /\ IsList(Tail(q)) /\ Len(Tail(q)) = Len(q) - 1 /\ Len(q) > 0
         /\ \A k \in 1..Len(Tail(q)) : Tail(q)[k] = q[k + 1]
         /\ Head(q) = q[1]
<1>1. PICK X : q \in Seq(X)
  BY DEF IsList
<1>2. Tail(q) \in Seq(X)
  BY <1>1
<1>3. /\ Len(Tail(q)) = Len(q) - 1 /\ Len(q) > 0
      /\ \A k \in 1..Len(Tail(q)) : Tail(q)[k] = q[k + 1]
      /\ Head(q) = q[1]
  BY <1>1
<1> QED BY <1>2, <1>3 DEF IsList

\* Where no item waits, none aims wrong.
LEMMA StraightNone == ASSUME NEW g PROVE AllStraight(g, <<>>)
<1>1. <<>> \in Seq({}) /\ 1..Len(<<>>) = {}
  OBVIOUS
<1> QED BY <1>1 DEF AllStraight, IsList

\* One item.
LEMMA StraightOne == ASSUME NEW g, NEW a, Straight(g, a) PROVE AllStraight(g, <<a>>)
  BY OneList DEF AllStraight

\* Two queues that aim true are one.
LEMMA StraightJoined ==
  ASSUME NEW g, NEW p, NEW q, AllStraight(g, p), AllStraight(g, q)
  PROVE  AllStraight(g, p \o q)
<1>1. IsList(p) /\ IsList(q) /\ Len(p) \in Nat /\ Len(q) \in Nat
  BY ListFacts DEF AllStraight
<1>2. ASSUME NEW k \in 1..Len(p \o q) PROVE Straight(g, (p \o q)[k])
  <2>1. k \in 1..(Len(p) + Len(q))
    BY <1>1, Joined
  <2>2. CASE k \in 1..Len(p)
    BY <2>2, <1>1, Joined DEF AllStraight
  <2>3. CASE k \notin 1..Len(p)
    <3>1. k - Len(p) \in 1..Len(q) /\ k = Len(p) + (k - Len(p))
      BY <2>1, <2>3, <1>1
    <3>2. (p \o q)[Len(p) + (k - Len(p))] = q[k - Len(p)]
      BY <3>1, <1>1, Joined
    <3> QED BY <3>1, <3>2 DEF AllStraight
  <2> QED BY <2>2, <2>3
<1> QED BY <1>1, <1>2, Joined DEF AllStraight

\* Nor does taking the head of a queue change an aim.
LEMMA StraightTail ==
  ASSUME NEW g, NEW q, AllStraight(g, q), q # <<>>
  PROVE  AllStraight(g, Tail(q)) /\ Straight(g, Head(q))
<1>1. IsList(q) /\ Len(q) \in Nat
  BY ListFacts DEF AllStraight
<1>2. /\ IsList(Tail(q)) /\ Len(Tail(q)) = Len(q) - 1 /\ Len(q) > 0 /\ Head(q) = q[1]
      /\ \A k \in 1..Len(Tail(q)) : Tail(q)[k] = q[k + 1]
  BY <1>1, TailList
<1>3. \A k \in 1..Len(Tail(q)) : k + 1 \in 1..Len(q)
  BY <1>1, <1>2
<1> QED BY <1>1, <1>2, <1>3 DEF AllStraight

\* The names of a field.
LEMMA NamesFacts ==
  ASSUME NEW f, Field(f)
  PROVE  /\ Len(f) \in Nat /\ DOMAIN f = 1..Len(f) /\ DOMAIN Names(f) = 1..Len(f)
         /\ Names(f) \in Seq(Nat) /\ Len(Names(f)) = Len(f)
         /\ \A j \in 1..Len(f) : HasName(f[j]) /\ Names(f)[j] = f[j].who
<1>1. Len(f) \in Nat /\ DOMAIN f = 1..Len(f)
  BY ListFacts DEF Field
<1>2. \A j \in 1..Len(f) : f[j].who \in Nat
  BY DEF Field, HasName
<1>3. Names(f) \in [1..Len(f) -> Nat]
  BY <1>1, <1>2 DEF Names
<1>4. Names(f) \in Seq(Nat) /\ Len(Names(f)) = Len(f)
  BY <1>1, <1>3
<1> QED BY <1>1, <1>4 DEF Field, Names

\* One record changed, its name kept.
LEMMA FieldWith ==
  ASSUME NEW f, Field(f), NEW i \in 1..Len(f), NEW m, Same(f[i], m)
  PROVE  /\ Field([f EXCEPT ![i] = m]) /\ Names([f EXCEPT ![i] = m]) = Names(f)
         /\ Kinds([f EXCEPT ![i] = m]) = Kinds(f)
<1> DEFINE h == [f EXCEPT ![i] = m]
           n == Len(f)
<1>1. n \in Nat /\ DOMAIN f = 1..n
  BY NamesFacts
<1>2. PICK X : f \in Seq(X)
  BY DEF Field, IsList
<1>3. h \in Seq(X \cup {m}) /\ Len(h) = n
  <2>1. \A j \in 1..n : h[j] \in X \cup {m}
    BY <1>1, <1>2
  <2>2. h = [j \in 1..n |-> h[j]]
    BY <1>1
  <2> HIDE DEF h, n
  <2>3. h \in [1..n -> X \cup {m}]
    BY <2>1, <2>2
  <2> QED BY <2>3, <1>1
<1>4. \A j \in 1..n : h[j] = IF j = i THEN m ELSE f[j]
  BY <1>1
<1> HIDE DEF h
<1>5. \A j \in 1..n : HasName(h[j]) /\ h[j].who = f[j].who /\ h[j].id = f[j].id
  BY <1>4 DEF Field, Same
<1>6. Field(h)
  BY <1>3, <1>5 DEF Field, IsList
<1>7. Names(h) = Names(f) /\ Kinds(h) = Kinds(f)
  BY <1>3, <1>5 DEF Names, Kinds
<1> QED BY <1>6, <1>7 DEF h

\* A world with one record changed.
LEMMA WithManned ==
  ASSUME NEW ids, NEW g, NEW t, NEW w, Manned(ids, g, t, w), NEW i \in DOMAIN g, NEW m, Same(w.f[i], m)
  PROVE  /\ Manned(ids, g, t, With(w, i, m))
         /\ With(w, i, m).q = w.q /\ With(w, i, m).cl = w.cl
<1> DEFINE h == [w.f EXCEPT ![i] = m]
<1>1. i \in 1..Len(w.f) /\ Field(w.f)
  BY NamesFacts DEF Manned
<1>2. Field(h) /\ Names(h) = Names(w.f) /\ Kinds(h) = Kinds(w.f)
  BY <1>1, FieldWith
<1>3. With(w, i, m) = [w EXCEPT !.f = h]
  BY DEF With
<1> HIDE DEF h
<1>4. With(w, i, m) = [f |-> h, q |-> w.q, t |-> w.t, cl |-> w.cl]
  BY <1>3 DEF Manned, Shape
<1> QED BY <1>2, <1>4 DEF Manned, Shape, h

\* It stays calm.
LEMMA WithCalm ==
  ASSUME NEW ids, NEW g, NEW t, NEW w, Calm(ids, g, t, w), NEW i \in DOMAIN g, NEW m, Same(w.f[i], m)
  PROVE  Calm(ids, g, t, With(w, i, m))
<1>1. Manned(ids, g, t, w) /\ AllStraight(g, w.q)
  BY DEF Calm
<1>2. Manned(ids, g, t, With(w, i, m)) /\ With(w, i, m).q = w.q
  BY <1>1, WithManned
<1> QED BY <1>1, <1>2 DEF Calm

\* The records of a world answer to the names.
LEMMA MannedFacts ==
  ASSUME NEW ids, NEW g, NEW t, NEW w, Manned(ids, g, t, w)
  PROVE  /\ DOMAIN g = 1..Len(w.f) /\ DOMAIN w.f = 1..Len(w.f) /\ Len(w.f) \in Nat /\ Len(g) = Len(w.f)
         /\ g \in Seq(Nat)
         /\ \A i \in DOMAIN g : HasName(w.f[i]) /\ w.f[i].who = g[i]
  BY NamesFacts DEF Manned

\* Items queued at either end, field by field.
LEMMA QueueParts ==
  ASSUME NEW w, Shape(w), NEW q
  PROVE  /\ Bottom(w, q) = [f |-> w.f, q |-> w.q \o q, t |-> w.t, cl |-> w.cl]
         /\ Top(w, q) = [f |-> w.f, q |-> q \o w.q, t |-> w.t, cl |-> w.cl]
<1>1. \A v : [w EXCEPT !.q = v] = [f |-> w.f, q |-> v, t |-> w.t, cl |-> w.cl]
  BY DEF Shape
<1>2. Bottom(w, q) = [w EXCEPT !.q = w.q \o q] /\ Top(w, q) = [w EXCEPT !.q = q \o w.q]
  BY DEF Bottom, Top
<1> QED BY <1>1, <1>2

\* The queue and the field they leave.
LEMMA QueueFields ==
  ASSUME NEW w, Shape(w), NEW q
  PROVE  /\ Bottom(w, q).q = w.q \o q /\ Bottom(w, q).f = w.f
         /\ Top(w, q).q = q \o w.q /\ Top(w, q).f = w.f
<1>1. /\ Bottom(w, q) = [f |-> w.f, q |-> w.q \o q, t |-> w.t, cl |-> w.cl]
      /\ Top(w, q) = [f |-> w.f, q |-> q \o w.q, t |-> w.t, cl |-> w.cl]
  BY QueueParts
<1> QED BY <1>1

\* They leave the field as it is.
LEMMA QueueManned ==
  ASSUME NEW ids, NEW g, NEW t, NEW w, Manned(ids, g, t, w), NEW q
  PROVE  Manned(ids, g, t, Bottom(w, q)) /\ Manned(ids, g, t, Top(w, q))
<1>1. Shape(w)
  BY DEF Manned
<1>2. /\ Bottom(w, q) = [f |-> w.f, q |-> w.q \o q, t |-> w.t, cl |-> w.cl]
      /\ Top(w, q) = [f |-> w.f, q |-> q \o w.q, t |-> w.t, cl |-> w.cl]
  BY <1>1, QueueParts
<1> QED BY <1>2 DEF Manned, Shape

\* Where they aim true, they leave the world calm.
LEMMA QueueCalm ==
  ASSUME NEW ids, NEW g, NEW t, NEW w, Calm(ids, g, t, w), NEW q, AllStraight(g, q)
  PROVE  Calm(ids, g, t, Bottom(w, q)) /\ Calm(ids, g, t, Top(w, q))
<1>1. Manned(ids, g, t, w) /\ AllStraight(g, w.q)
  BY DEF Calm
<1>2. AllStraight(g, w.q \o q) /\ AllStraight(g, q \o w.q)
  BY <1>1, StraightJoined
<1>3. Manned(ids, g, t, Bottom(w, q)) /\ Manned(ids, g, t, Top(w, q))
  BY <1>1, QueueManned
<1>4. Shape(w)
  BY <1>1 DEF Manned
<1>5. /\ Bottom(w, q) = [f |-> w.f, q |-> w.q \o q, t |-> w.t, cl |-> w.cl]
      /\ Top(w, q) = [f |-> w.f, q |-> q \o w.q, t |-> w.t, cl |-> w.cl]
  BY <1>4, QueueParts
<1>6. Bottom(w, q).q = w.q \o q /\ Top(w, q).q = q \o w.q
  BY <1>5
<1> QED BY <1>2, <1>3, <1>6 DEF Calm

\* So does the flag that the fight cannot be lost.
LEMMA WinnableCalm ==
  ASSUME NEW ids, NEW g, NEW t, NEW w, NEW b
  PROVE  /\ Manned(ids, g, t, w) => /\ Manned(ids, g, t, [w EXCEPT !.cl = b])
                               /\ [w EXCEPT !.cl = b].q = w.q /\ [w EXCEPT !.cl = b].f = w.f
         /\ Calm(ids, g, t, w) => Calm(ids, g, t, [w EXCEPT !.cl = b])
<1>1. Shape(w) => [w EXCEPT !.cl = b] = [f |-> w.f, q |-> w.q, t |-> w.t, cl |-> b]
  BY DEF Shape
<1> QED BY <1>1 DEF Calm, Manned, Shape

-----------------------------------------------------------------------------
\* Items made for a record of the field aim at it.
LEMMA ItemFields ==
  ASSUME NEW op, NEW at, NEW who, NEW v, NEW kid
  PROVE  /\ Item(op, at, who, v, kid).op = op /\ Item(op, at, who, v, kid).at = at
         /\ Item(op, at, who, v, kid).who = who /\ Item(op, at, who, v, kid).kid = kid
  BY DEF Item

\* An item made for a record names it.
LEMMA MadeStraight ==
  ASSUME NEW ids, NEW g, NEW t, NEW w, Manned(ids, g, t, w), NEW i \in DOMAIN g, NEW op \in PlainOps, NEW v
  PROVE  Straight(g, For(w, op, i)) /\ Straight(g, SetMove(w, i, v)) /\ Straight(g, Item(op, i, w.f[i].who, v, NoKid))
<1>1. w.f[i].who = g[i]
  BY MannedFacts
<1>2. "set" \in PlainOps
  BY DEF PlainOps
<1> QED BY <1>1, <1>2, ItemFields DEF Straight, Aims, For, SetMove

\* Where the spawns that wait leave the record in slot s.
SettleOp(p, s, x) == IF x.op = "spawn" /\ x.at <= s THEN s + 1 ELSE s
SettleGood(p, n, s) == s \in DOMAIN p.names[n] /\ p.names[n] \in Seq(Nat) /\ p.names[n][s] = p.who

SettleFold == INSTANCE FoldFacts WITH Op <- SettleOp, Good <- SettleGood

\* A set of slots is listed lowest first, every one of them.
Below(T, i) == {j \in T : j < i}
Ranked(T) == \A k \in 1..Cardinality(T) : \E i \in T : Cardinality(Below(T, i)) = k - 1
Counted(T, m) == IsFiniteSet(T) /\ Cardinality(T) \in Nat /\ Cardinality(T) <= m /\ Ranked(T)

\* No slot: nothing to list.
LEMMA RankedNone == Counted({}, 0)
<1>1. IsFiniteSet({}) /\ Cardinality({}) = 0 /\ 1..0 = {}
  BY FS_EmptySet
<1> QED BY <1>1 DEF Counted, Ranked

\* One more slot.
LEMMA RankedMore ==
  ASSUME NEW m \in Nat, NEW R \in SUBSET (1..m), Counted(R, m)
  PROVE  Counted(R, m + 1) /\ Counted(R \cup {m + 1}, m + 1)
<1> DEFINE T == R \cup {m + 1}
<1>1. IsFiniteSet(R) /\ Cardinality(R) \in Nat /\ Cardinality(R) <= m
  BY DEF Counted
<1>2. m + 1 \notin R
  OBVIOUS
<1>3. IsFiniteSet(T) /\ Cardinality(T) = Cardinality(R) + 1
  BY <1>1, <1>2, FS_AddElement
<1>4. Below(T, m + 1) = R
  <2>1. \A j \in R : j < m + 1
    OBVIOUS
  <2>2. ~(m + 1 < m + 1)
    OBVIOUS
  <2> QED BY <2>1, <2>2, <1>2 DEF Below
<1>5. \A i \in R : Below(T, i) = Below(R, i)
  <2>1. \A i \in R : ~(m + 1 < i)
    OBVIOUS
  <2> QED BY <2>1 DEF Below
<1>6. \A k \in 1..Cardinality(R) : \E i \in R : Cardinality(Below(R, i)) = k - 1
  BY DEF Counted, Ranked
<1>7. m + 1 \in T /\ \A i \in R : i \in T
  OBVIOUS
<1> HIDE DEF T
<1>8. ASSUME NEW k \in 1..Cardinality(T)
      PROVE  \E i \in T : Cardinality(Below(T, i)) = k - 1
  <2>1. CASE k = Cardinality(R) + 1
    <3>1. Cardinality(Below(T, m + 1)) = k - 1
      BY <2>1, <1>4, <1>1
    <3> QED BY <3>1, <1>7
  <2>2. CASE k # Cardinality(R) + 1
    <3>1. k \in 1..Cardinality(R)
      BY <2>2, <1>1, <1>3
    <3>2. PICK i \in R : Cardinality(Below(R, i)) = k - 1
      BY <3>1, <1>6
    <3>3. Cardinality(Below(T, i)) = k - 1 /\ i \in T
      BY <3>2, <1>5, <1>7
    <3> QED BY <3>3
  <2> QED BY <2>1, <2>2
<1>9. Counted(T, m + 1)
  BY <1>1, <1>3, <1>8 DEF Counted, Ranked
<1>10. Counted(R, m + 1)
  BY <1>1 DEF Counted
<1> QED BY <1>9, <1>10 DEF T

\* Every set of slots can be listed.
LEMMA AllRanked ==
  ASSUME NEW n \in Nat, NEW S \in SUBSET (1..n)
  PROVE  Counted(S, n)
<1> DEFINE N == {m \in Nat : \A T \in SUBSET (1..m) : Counted(T, m)}
<1>1. 0 \in N
  <2>1. \A T \in SUBSET (1..0) : T = {}
    OBVIOUS
  <2> QED BY <2>1, RankedNone
<1>2. ASSUME NEW m \in Nat, m \in N PROVE m + 1 \in N
  <2> SUFFICES ASSUME NEW T \in SUBSET (1..(m + 1)) PROVE Counted(T, m + 1)
    OBVIOUS
  <2> DEFINE R == T \ {m + 1}
  <2>1. R \in SUBSET (1..m)
    OBVIOUS
  <2>2. Counted(R, m)
    BY <1>2, <2>1
  <2>3. T = R \/ T = R \cup {m + 1}
    OBVIOUS
  <2> HIDE DEF R
  <2> QED BY <2>1, <2>2, <2>3, RankedMore
<1> HIDE DEF N
<1>3. n \in N
  BY <1>1, <1>2, SettleFold!SetInduction
<1> QED BY <1>3 DEF N

\* InOrder lists members, and no more than there are.
LEMMA InOrderFacts ==
  ASSUME NEW n \in Nat, NEW S \in SUBSET (1..n)
  PROVE  /\ InOrder(S) \in Seq(S) /\ IsList(InOrder(S))
         /\ Len(InOrder(S)) \in Nat /\ Len(InOrder(S)) <= n
         /\ \A k \in 1..Len(InOrder(S)) : InOrder(S)[k] \in S
<1> DEFINE c == Cardinality(S)
           q == InOrder(S)
           at(k) == CHOOSE i \in S : Cardinality({j \in S : j < i}) = k - 1
<1>1. c \in Nat /\ c <= n /\ \A k \in 1..c : at(k) \in S
  <2>1. Counted(S, n)
    BY AllRanked
  <2> QED BY <2>1 DEF Counted, Ranked, Below
<1>2. q = [k \in 1..c |-> at(k)]
  BY DEF InOrder
<1> HIDE DEF at, q, c
<1>3. q \in [1..c -> S]
  BY <1>1, <1>2
<1>4. q \in Seq(S) /\ Len(q) = c
  BY <1>1, <1>3
<1> QED BY <1>1, <1>3, <1>4 DEF q, IsList

\* The slots of a field.
LEMMA WhereFacts ==
  ASSUME NEW f, Field(f), NEW S \in SUBSET DOMAIN f
  PROVE  /\ InOrder(S) \in Seq(S) /\ IsList(InOrder(S)) /\ Len(InOrder(S)) \in Nat
         /\ \A k \in 1..Len(InOrder(S)) : InOrder(S)[k] \in S
  BY NamesFacts, InOrderFacts

\* The same item for every record of a list.
LEMMA EachStraight ==
  ASSUME NEW ids, NEW g, NEW t, NEW w, Manned(ids, g, t, w), NEW op \in PlainOps,
         NEW slots \in Seq(DOMAIN g)
  PROVE  AllStraight(g, Each(w, op, slots)) /\ AllStraight(g, Reverse(Each(w, op, slots)))
<1> DEFINE n == Len(slots)
           q == Each(w, op, slots)
<1>1. n \in Nat /\ DOMAIN slots = 1..n /\ \A k \in 1..n : slots[k] \in DOMAIN g
  OBVIOUS
<1>2. q = [k \in 1..n |-> For(w, op, slots[k])]
  BY <1>1 DEF Each
<1>3. \A k \in 1..n : Straight(g, For(w, op, slots[k]))
  BY <1>1, MadeStraight
<1> HIDE DEF q, n
<1>4. \A k \in 1..n : Straight(g, q[k])
  BY <1>2, <1>3
<1>5. q \in [1..n -> {q[k] : k \in 1..n}]
  BY <1>2
<1>6. IsList(q) /\ Len(q) = n
  BY <1>1, <1>5, FunctionList
<1>7. AllStraight(g, q)
  BY <1>4, <1>6 DEF AllStraight
<1> DEFINE r == Reverse(q)
<1>8. r = [k \in 1..n |-> q[(n - k) + 1]]
  BY <1>6 DEF Reverse
<1>9. \A k \in 1..n : (n - k) + 1 \in 1..n
  BY <1>1
<1> HIDE DEF r
<1>10. r \in [1..n -> {q[k] : k \in 1..n}] /\ \A k \in 1..n : Straight(g, r[k])
  BY <1>8, <1>9, <1>4
<1>11. IsList(r) /\ Len(r) = n
  BY <1>1, <1>10, FunctionList
<1>12. AllStraight(g, r)
  BY <1>10, <1>11 DEF AllStraight
<1> QED BY <1>7, <1>12 DEF q, r

\* A death, with what it does to minions.
LEMMA DiedCalm ==
  ASSUME NEW ids, NEW g, NEW t, NEW w, Calm(ids, g, t, w), NEW i \in DOMAIN g
  PROVE  Calm(ids, g, t, Died(w, i))
<1>1. Manned(ids, g, t, w) /\ Field(w.f) /\ DOMAIN w.f = DOMAIN g
  BY MannedFacts DEF Calm, Manned
<1>2. \A S \in SUBSET DOMAIN w.f : InOrder(S) \in Seq(DOMAIN g)
  <2> TAKE S \in SUBSET DOMAIN w.f
  <2>1. InOrder(S) \in Seq(S)
    BY <1>1, WhereFacts
  <2> QED BY <2>1, <1>1
<1>3. \A S \in SUBSET DOMAIN w.f :
        /\ Calm(ids, g, t, Bottom(w, Each(w, "escape", InOrder(S))))
        /\ Calm(ids, g, t, Top(w, Reverse(Each(w, "slay", InOrder(S)))))
  <2> TAKE S \in SUBSET DOMAIN w.f
  <2>1. InOrder(S) \in Seq(DOMAIN g)
    BY <1>2
  <2>2. "escape" \in PlainOps /\ "slay" \in PlainOps
    BY DEF PlainOps
  <2>3. AllStraight(g, Each(w, "escape", InOrder(S))) /\ AllStraight(g, Reverse(Each(w, "slay", InOrder(S))))
    BY <2>1, <2>2, <1>1, EachStraight
  <2> QED BY <2>3, QueueCalm
<1>4. PICK R \in SUBSET DOMAIN w.f, S \in SUBSET DOMAIN w.f :
        Died(w, i) \in {w, Bottom(w, Each(w, "escape", InOrder(R))),
                        Top(w, Reverse(Each(w, "slay", InOrder(R)))),
                        Bottom(w, Each(w, "escape", InOrder(S)))}
  <2> DEFINE R == {j \in DOMAIN w.f : Up(w.f[j])}
             S == {j \in DOMAIN w.f : w.f[j].id = "CULTIST" /\ Up(w.f[j])}
  <2>1. R \in SUBSET DOMAIN w.f /\ S \in SUBSET DOMAIN w.f
    OBVIOUS
  <2>2. Died(w, i) \in {w, Bottom(w, Each(w, "escape", InOrder(R))),
                        Top(w, Reverse(Each(w, "slay", InOrder(R)))),
                        Bottom(w, Each(w, "escape", InOrder(S)))}
    BY Zenon DEF Died, Where
  <2> HIDE DEF R, S
  <2> QED BY <2>1, <2>2
<1> QED BY <1>3, <1>4

\* An interrupt sets the move of its own record.
LEMMA InterruptCalm ==
  ASSUME NEW ids, NEW g, NEW t, NEW w, Calm(ids, g, t, w), NEW i \in DOMAIN g, NEW v
  PROVE  Calm(ids, g, t, Interrupt(w, i, v))
<1>1. Manned(ids, g, t, w) /\ HasName(w.f[i])
  BY MannedFacts DEF Calm
<1>2. Same(w.f[i], Move(w.f[i], v))
  BY <1>1, MoveKeeps
<1>3. Calm(ids, g, t, With(w, i, Move(w.f[i], v)))
  BY <1>2, WithCalm
<1>4. "set" \in PlainOps
  BY DEF PlainOps
<1>5. AllStraight(g, <<SetMove(w, i, v)>>)
  BY <1>1, <1>4, MadeStraight, StraightOne
<1> QED BY <1>3, <1>5, QueueCalm DEF Interrupt

\* Every record changed, its name kept.
LEMMA FieldAll ==
  ASSUME NEW f, Field(f), NEW h, DOMAIN h = DOMAIN f, h = [j \in DOMAIN f |-> h[j]],
         \A j \in DOMAIN f : Same(f[j], h[j])
  PROVE  Field(h) /\ Names(h) = Names(f) /\ Kinds(h) = Kinds(f)
<1> DEFINE n == Len(f)
<1>1. n \in Nat /\ DOMAIN f = 1..n
  BY NamesFacts
<1> DEFINE X == {h[j] : j \in 1..n}
<1>2. h \in [1..n -> X]
  BY <1>1
<1>3. IsList(h) /\ Len(h) = n
  <2> HIDE DEF X, n
  <2> QED BY <1>1, <1>2, FunctionList
<1>4. Field(h)
  BY <1>1, <1>3 DEF Field, Same
<1>5. Names(h) = Names(f) /\ Kinds(h) = Kinds(f)
  BY <1>1, <1>3 DEF Names, Kinds, Same
<1> QED BY <1>4, <1>5

\* A darkling lies down, or all of them die.
LEMMA DarklingDownCalm ==
  ASSUME NEW ids, NEW g, NEW t, NEW w, Calm(ids, g, t, w), NEW i \in DOMAIN g
  PROVE  Calm(ids, g, t, DarklingDown(w, i))
<1> DEFINE down == With(w, i, Raise(w.f[i], "half"))
           h == [j \in DOMAIN down.f |-> Lower([down.f[j] EXCEPT !.hp = None], "half")]
           risen == [down EXCEPT !.cl = FALSE, !.f = h]
<1>1. HasName(w.f[i])
  BY MannedFacts DEF Calm
<1>2. Calm(ids, g, t, down)
  BY <1>1, MoveKeeps, WithCalm
<1>3. Calm(ids, g, t, risen)
  <2> HIDE DEF down
  <2>1. Manned(ids, g, t, down) /\ Field(down.f) /\ Shape(down)
    BY <1>2 DEF Calm, Manned
  <2>2. \A j \in DOMAIN down.f : HasName(down.f[j])
    BY <2>1, NamesFacts
  <2>3. \A m : HasName(m) => Same(m, Lower([m EXCEPT !.hp = None], "half"))
    BY FieldKeeps, SameShapes
  <2>4. DOMAIN h = DOMAIN down.f /\ h = [j \in DOMAIN down.f |-> h[j]]
        /\ \A j \in DOMAIN down.f : Same(down.f[j], h[j])
    BY <2>2, <2>3
  <2>5. Field(h) /\ Names(h) = Names(down.f) /\ Kinds(h) = Kinds(down.f)
    <3> HIDE DEF h
    <3> QED BY <2>1, <2>4, FieldAll
  <2> HIDE DEF h
  <2> DEFINE won == [down EXCEPT !.cl = FALSE]
  <2>6. won = [f |-> down.f, q |-> down.q, t |-> down.t, cl |-> FALSE]
    <3>1. \A b : [down EXCEPT !.cl = b] = [f |-> down.f, q |-> down.q, t |-> down.t, cl |-> b]
      BY <2>1 DEF Shape
    <3> QED BY <3>1, Zenon
  <2>7. risen = [won EXCEPT !.f = h]
    BY Zenon
  <2>8. risen = [f |-> h, q |-> down.q, t |-> down.t, cl |-> FALSE]
    <3> HIDE DEF won, risen
    <3> QED BY <2>6, <2>7
  <2> QED BY <1>2, <2>5, <2>8 DEF Calm, Manned, Shape
<1>4. Calm(ids, g, t, Interrupt(down, i, "COUNT"))
  <2> HIDE DEF down
  <2> QED BY <1>2, InterruptCalm
<1>5. DarklingDown(w, i) \in {risen, down, Interrupt(down, i, "COUNT")}
  BY Zenon DEF DarklingDown
<1> HIDE DEF down, risen
<1> QED BY <1>2, <1>3, <1>4, <1>5

\* The Awakened One lies down.
LEMMA AwakenedDownCalm ==
  ASSUME NEW ids, NEW g, NEW t, NEW w, Calm(ids, g, t, w), NEW i \in DOMAIN g
  PROVE  Calm(ids, g, t, AwakenedDown(w, i))
<1> DEFINE m == IF w.cl THEN Raise(w.f[i], "half") ELSE w.f[i]
<1>1. HasName(w.f[i])
  BY MannedFacts DEF Calm
<1>2. Same(w.f[i], m)
  BY <1>1, MoveKeeps, SameAsItself
<1> HIDE DEF m
<1>3. Same(w.f[i], Raise(m, "first"))
  BY <1>1, <1>2, SameShapes
<1>4. Same(w.f[i], Lower(Raise(m, "first"), "form1"))
  BY <1>1, <1>3, SameShapes
<1>5. Calm(ids, g, t, With(w, i, Lower(Raise(m, "first"), "form1")))
  BY <1>4, WithCalm
<1>6. Calm(ids, g, t, Interrupt(With(w, i, Lower(Raise(m, "first"), "form1")), i, "REBIRTH"))
  BY <1>5, InterruptCalm
<1> QED BY <1>6 DEF AwakenedDown, m

\* Half a death.
LEMMA DownByHalfCalm ==
  ASSUME NEW ids, NEW g, NEW t, NEW w, Calm(ids, g, t, w), NEW i \in DOMAIN g
  PROVE  Calm(ids, g, t, DownByHalf(w, i))
  BY DarklingDownCalm, AwakenedDownCalm DEF DownByHalf

\* The hook behind a blow.
LEMMA DamagedCalm ==
  ASSUME NEW ids, NEW g, NEW t, NEW w, Calm(ids, g, t, w), NEW i \in DOMAIN g
  PROVE  \A v \in Damaged(w, i) : Calm(ids, g, t, v)
<1> DEFINE m == w.f[i]
           open == Raise(Move(m, "OPEN"), "roused")
           woken == IF Up(m) THEN Raise(open, "out") ELSE open
<1>1. Manned(ids, g, t, w) /\ HasName(m)
  BY MannedFacts DEF Calm
<1>2. Same(m, open)
  BY <1>1, MoveKeeps, SameShapes
<1>3. Same(m, woken)
  <2> HIDE DEF open
  <2> QED BY <1>1, <1>2, SameShapes
<1>4. Calm(ids, g, t, With(w, i, woken))
  <2> HIDE DEF woken
  <2> QED BY <1>3, WithCalm
<1>5. \A u : Calm(ids, g, t, With(w, i, Raise(m, u)))
  BY <1>1, MoveKeeps, WithCalm
<1>6. Calm(ids, g, t, Interrupt(With(w, i, Raise(m, "split")), i, "SPLIT")) /\ Calm(ids, g, t, Interrupt(w, i, "SPLIT"))
  BY <1>5, InterruptCalm
<1>7. Calm(ids, g, t, Bottom(With(w, i, Raise(m, "closing")), <<For(w, "mode", i)>>))
  <2>1. "mode" \in PlainOps
    BY DEF PlainOps
  <2>2. AllStraight(g, <<For(w, "mode", i)>>)
    BY <1>1, <2>1, MadeStraight, StraightOne
  <2> QED BY <1>5, <2>2, QueueCalm
<1>8. Calm(ids, g, t, DownByHalf(w, i))
  BY DownByHalfCalm
<1>9. Damaged(w, i) \in {{Interrupt(With(w, i, Raise(m, "split")), i, "SPLIT")}, {Interrupt(w, i, "SPLIT")},
                         {With(w, i, woken)},
                         {w, Bottom(With(w, i, Raise(m, "closing")), <<For(w, "mode", i)>>)},
                         {DownByHalf(w, i)}}
  BY Zenon DEF Damaged
<1> HIDE DEF m, woken
<1> QED BY <1>4, <1>6, <1>7, <1>8, <1>9

\* The hooks of a blow queue items for the record that is hit.
LEMMA HooksStraight ==
  ASSUME NEW ids, NEW g, NEW t, NEW w, Manned(ids, g, t, w), NEW i \in DOMAIN g, NEW thorns
  PROVE  \A q \in Hooks(w, i, thorns) : AllStraight(g, q)
<1>1. AllStraight(g, <<>>)
  BY StraightNone
<1>2. "land" \in PlainOps /\ "crack" \in PlainOps /\ "roll" \in PlainOps
  BY DEF PlainOps
<1>3. /\ AllStraight(g, <<For(w, "land", i)>>) /\ AllStraight(g, <<For(w, "crack", i)>>)
      /\ AllStraight(g, <<For(w, "roll", i)>>)
  BY <1>2, MadeStraight, StraightOne
<1> QED BY <1>1, <1>3 DEF Hooks

\* A blow.
LEMMA StruckCalm ==
  ASSUME NEW ids, NEW g, NEW t, NEW w, Calm(ids, g, t, w), NEW i \in DOMAIN g, NEW h, NEW thorns
  PROVE  \A v \in Struck(w, i, h, thorns) : Calm(ids, g, t, v)
<1> DEFINE hurt(q) == With(Bottom(w, q), i, [w.f[i] EXCEPT !.hp = h])
           after(v) == IF h = None THEN Died(v, i) ELSE v
           Q == IF h = None THEN {<<>>} ELSE Hooks(w, i, thorns)
<1>1. Manned(ids, g, t, w) /\ HasName(w.f[i]) /\ Shape(w)
  BY MannedFacts DEF Calm, Manned
<1>2. \A q \in Q : AllStraight(g, q)
  BY <1>1, HooksStraight, StraightNone
<1>3. ASSUME NEW q \in Q PROVE Calm(ids, g, t, hurt(q))
  <2>1. Calm(ids, g, t, Bottom(w, q))
    BY <1>2, QueueCalm
  <2>2. Bottom(w, q) = [f |-> w.f, q |-> w.q \o q, t |-> w.t, cl |-> w.cl]
    BY <1>1, QueueParts
  <2>3. Bottom(w, q).f = w.f
    BY <2>2
  <2>4. Same(w.f[i], [w.f[i] EXCEPT !.hp = h])
    BY <1>1, FieldKeeps
  <2> DEFINE m == [w.f[i] EXCEPT !.hp = h]
             b == Bottom(w, q)
  <2>5. Same(b.f[i], m)
    BY <2>3, <2>4
  <2> HIDE DEF m, b
  <2>6. Calm(ids, g, t, With(b, i, m))
    BY <2>1, <2>5, WithCalm DEF b
  <2> QED BY <2>6 DEF m, b
<1>4. ASSUME NEW q \in Q PROVE \A v \in Damaged(after(hurt(q)), i) : Calm(ids, g, t, v)
  <2> DEFINE u == hurt(q)
  <2>1. Calm(ids, g, t, u)
    BY <1>3
  <2> HIDE DEF u
  <2>2. Calm(ids, g, t, after(u))
    BY <2>1, DiedCalm
  <2> HIDE DEF after
  <2>3. \A v \in Damaged(after(u), i) : Calm(ids, g, t, v)
    BY <2>2, DamagedCalm
  <2> QED BY <2>3 DEF u, after
<1>5. Struck(w, i, h, thorns) = UNION {Damaged(after(hurt(q)), i) : q \in Q}
  BY Zenon DEF Struck
<1> HIDE DEF hurt, after, Q
<1> QED BY <1>4, <1>5

\* Every blow the player may deal.
LEMMA BlowsCalm ==
  ASSUME NEW ids, NEW g, NEW t, NEW w, Calm(ids, g, t, w), NEW i \in DOMAIN g, NEW thorns
  PROVE  \A v \in Blows(w, i, thorns) : Calm(ids, g, t, v)
<1> DEFINE H == None .. w.f[i].hp
<1>1. \A h \in H : \A v \in Struck(w, i, h, thorns) : Calm(ids, g, t, v)
  BY StruckCalm
<1>2. Blows(w, i, thorns) = UNION {Struck(w, i, h, thorns) : h \in H}
  BY Zenon DEF Blows
<1> HIDE DEF H
<1> QED BY <1>1, <1>2

\* A record that is healed.
LEMMA HealedSame ==
  ASSUME NEW m, HasName(m), NEW v
  PROVE  Same(m, [Lower(m, "half") EXCEPT !.hp = v])
<1> DEFINE c == Lower(m, "half")
<1>1. Same(m, c) /\ HasName(c)
  BY MoveKeeps DEF Same
<1> HIDE DEF c
<1>2. Same(c, [c EXCEPT !.hp = v])
  BY <1>1, FieldKeeps
<1>3. Same(m, [c EXCEPT !.hp = v])
  BY <1>1, <1>2, SameTwice
<1> QED BY <1>3 DEF c

\* A heal.
LEMMA HealedCalm ==
  ASSUME NEW ids, NEW g, NEW t, NEW w, Calm(ids, g, t, w), NEW i \in DOMAIN g
  PROVE  Calm(ids, g, t, Healed(w, i))
<1> DEFINE v == IF w.f[i].id = "TIME_EATER" THEN Well ELSE Low
<1>1. HasName(w.f[i])
  BY MannedFacts DEF Calm
<1>2. Same(w.f[i], [Lower(w.f[i], "half") EXCEPT !.hp = v])
  BY <1>1, HealedSame
<1> DEFINE m == [Lower(w.f[i], "half") EXCEPT !.hp = v]
<1>3. Calm(ids, g, t, With(w, i, m))
  <2> HIDE DEF m
  <2> QED BY <1>2, WithCalm DEF m
<1>4. Healed(w, i) \in {w, With(w, i, m)}
  BY Zenon DEF Healed
<1> HIDE DEF m
<1> QED BY <1>3, <1>4

\* A stun.
LEMMA StunnedCalm ==
  ASSUME NEW ids, NEW g, NEW t, NEW w, Calm(ids, g, t, w), NEW i \in DOMAIN g, NEW flag
  PROVE  Calm(ids, g, t, Stunned(w, i, flag))
<1>1. Manned(ids, g, t, w) /\ HasName(w.f[i])
  BY MannedFacts DEF Calm
<1>2. Calm(ids, g, t, With(w, i, Lower(w.f[i], flag)))
  BY <1>1, MoveKeeps, WithCalm
<1>3. "set" \in PlainOps
  BY DEF PlainOps
<1>4. AllStraight(g, <<SetMove(w, i, "STUNNED")>>)
  BY <1>1, <1>3, MadeStraight, StraightOne
<1> QED BY <1>2, <1>4, QueueCalm DEF Stunned

\* An item that aims true leaves a calm world calm.
LEMMA ExecutedCalm ==
  ASSUME NEW ids, NEW g, NEW t, NEW w, Calm(ids, g, t, w), NEW it, Straight(g, it)
  PROVE  \A v \in Executed(w, it) : Calm(ids, g, t, v)
<1> DEFINE i == it.at
           m == w.f[i]
           gone == With(w, i, [m EXCEPT !.hp = None])
<1>1. CASE it.op = "cannot" \/ it.op = "can"
  <2>1. Executed(w, it) \in {{[w EXCEPT !.cl = TRUE]}, {[w EXCEPT !.cl = FALSE]}}
    BY <1>1, Zenon DEF Executed
  <2>2. \A b : Calm(ids, g, t, [w EXCEPT !.cl = b])
    BY WinnableCalm
  <2>3. Calm(ids, g, t, [w EXCEPT !.cl = TRUE]) /\ Calm(ids, g, t, [w EXCEPT !.cl = FALSE])
    BY <2>2, Zenon
  <2> QED BY <2>1, <2>3, Zenon
<1>2. CASE it.op \notin {"cannot", "can"}
  <2>1. i \in DOMAIN g /\ it.op \in PlainOps
    BY <1>2 DEF Straight, Aims
  <2>2. Manned(ids, g, t, w) /\ HasName(m)
    BY <2>1, MannedFacts DEF Calm
  <2>3. \A u : /\ Calm(ids, g, t, With(w, i, Move(m, u))) /\ Calm(ids, g, t, With(w, i, Raise(m, u)))
               /\ Calm(ids, g, t, With(w, i, Lower(m, u)))
    BY <2>1, <2>2, MoveKeeps, WithCalm
  <2>4. Calm(ids, g, t, gone)
    <3> DEFINE c == [m EXCEPT !.hp = None]
    <3>1. Same(m, c)
      BY <2>2, FieldKeeps
    <3> HIDE DEF c
    <3>2. Calm(ids, g, t, With(w, i, c))
      BY <3>1, <2>1, WithCalm
    <3> QED BY <3>2 DEF c
  <2> DEFINE k == IF m.k > 1 THEN m.k - 1 ELSE m.k
             burnt == With(w, i, [m EXCEPT !.k = k])
             shut == With(w, i, Lower(Move(m, "CLOSE_UP"), "open"))
             closed == Bottom(shut, <<For(w, "unshift", i)>>)
  <2>5. Calm(ids, g, t, burnt)
    <3> DEFINE c == [m EXCEPT !.k = k]
    <3>1. Same(m, c)
      BY <2>2, FieldKeeps
    <3> HIDE DEF c
    <3>2. Calm(ids, g, t, With(w, i, c))
      BY <3>1, <2>1, WithCalm
    <3> QED BY <3>2 DEF c
  <2>6. Calm(ids, g, t, closed)
    <3>1. Same(m, Lower(Move(m, "CLOSE_UP"), "open"))
      BY <2>2, MoveKeeps, SameShapes
    <3>2. Calm(ids, g, t, shut)
      BY <3>1, <2>1, WithCalm
    <3>3. "unshift" \in PlainOps
      BY DEF PlainOps
    <3>4. AllStraight(g, <<For(w, "unshift", i)>>)
      BY <3>3, <2>1, <2>2, MadeStraight, StraightOne
    <3> HIDE DEF shut
    <3> QED BY <3>2, <3>4, QueueCalm
  <2>7. \A c \in Chosen(w.f, i) : Calm(ids, g, t, With(w, i, c))
    <3>1. AllSame(w.f[i], Chosen(w.f, i))
      BY <2>2, ChosenKeeps
    <3> QED BY <3>1, <2>1, WithCalm DEF AllSame
  <2>8. \A v \in Blows(w, i, TRUE) : Calm(ids, g, t, v)
    <3>1. \A b : \A v \in Blows(w, i, b) : Calm(ids, g, t, v)
      BY <2>1, BlowsCalm
    <3> QED BY <3>1, Zenon
  <2>9. Calm(ids, g, t, Died(gone, i)) /\ \A v \in Damaged(Died(gone, i), i) : Calm(ids, g, t, v)
    <3> HIDE DEF gone
    <3>1. Calm(ids, g, t, Died(gone, i))
      BY <2>4, <2>1, DiedCalm
    <3> QED BY <3>1, <2>1, DamagedCalm
  <2>10. Calm(ids, g, t, Healed(w, i)) /\ \A u : Calm(ids, g, t, Stunned(w, i, u))
    BY <2>1, HealedCalm, StunnedCalm
  <2>11. CASE it.op = "hit"
    <3>1. Executed(w, it) = {w} \cup (IF DeadOrEscaped(m) THEN {} ELSE Blows(w, i, TRUE))
      BY <2>11, Zenon DEF Executed
    <3> QED BY <3>1, <2>8
  <2>12. CASE it.op = "roll"
    <3>1. Executed(w, it) = {With(w, i, c) : c \in Chosen(w.f, i)}
      BY <2>12, Zenon DEF Executed
    <3> QED BY <3>1, <2>7
  <2>13. CASE it.op \in {"set", "mode", "unshift", "shift", "minion", "escape"}
    <3>1. Executed(w, it) \in {{With(w, i, Move(m, it.v))}, {closed}, {With(w, i, Lower(m, "shift"))},
                 {With(w, i, Raise(m, "shift"))}, {With(w, i, Raise(m, "minion"))},
                 {With(w, i, Raise(m, "escaped"))}}
      BY <2>13, Zenon DEF Executed
    <3> HIDE DEF closed
    <3> QED BY <3>1, <2>3, <2>6
  <2>14. CASE it.op \in {"land", "crack", "vanish", "burn", "heal"}
    <3>1. Executed(w, it) \in {{Stunned(w, i, "flying")}, {Stunned(w, i, "plated")}, {gone}, {burnt}, {Healed(w, i)}}
      BY <2>14, Zenon DEF Executed
    <3> HIDE DEF gone, burnt
    <3> QED BY <3>1, <2>4, <2>5, <2>10
  <2>15. CASE it.op \in {"slay", "spend"}
    <3>1. Executed(w, it) \in {{IF Up(m) THEN Died(gone, i) ELSE gone}, IF Up(m) THEN Damaged(Died(gone, i), i) ELSE {w}}
      BY <2>15, Zenon DEF Executed
    <3> HIDE DEF gone
    <3> QED BY <3>1, <2>4, <2>9
  <2>16. it.op \in {"hit", "roll", "set", "mode", "unshift", "shift", "land", "crack", "minion", "vanish",
                    "slay", "burn", "spend", "escape", "heal"}
    BY <2>1, <1>2 DEF PlainOps
  <2> QED BY <2>11, <2>12, <2>13, <2>14, <2>15, <2>16
<1> QED BY <1>1, <1>2

(***************************************************************************)
(* While records are still to be made, an item names the slot its record   *)
(* will have when the item runs.                                           *)
(***************************************************************************)
\* Where slot j is once slot p is taken by another.
Shifted(j, p) == IF j >= p THEN j + 1 ELSE j

\* h is s with e at its place p.
Inserts(s, p, e, h) ==
  /\ Len(h) = Len(s) + 1
  /\ h[p] = e
  /\ \A j \in 1..Len(s) : h[Shifted(j, p)] = s[j]

\* InsertAt inserts.
LEMMA InsertFacts ==
  ASSUME NEW S, NEW s \in Seq(S), NEW p \in 1..(Len(s) + 1), NEW e \in S
  PROVE  InsertAt(s, p, e) \in Seq(S) /\ Inserts(s, p, e, InsertAt(s, p, e))
<1> DEFINE a == SubSeq(s, 1, p - 1)
           b == SubSeq(s, p, Len(s))
           T == S
<1>1. a \in Seq(S) /\ Len(a) = p - 1 /\ \A j \in 1..(p - 1) : a[j] = s[j]
  OBVIOUS
<1>2. b \in Seq(S) /\ Len(b) = Len(s) - p + 1 /\ \A j \in 1..(Len(s) - p + 1) : b[j] = s[p + j - 1]
  OBVIOUS
<1>3. a \in Seq(T) /\ b \in Seq(T) /\ <<e>> \in Seq(T) /\ Len(<<e>>) = 1 /\ <<e>>[1] = e /\ Len(s) \in Nat
  BY <1>1, <1>2
<1>4. InsertAt(s, p, e) = (a \o <<e>>) \o b
  BY DEF InsertAt
<1> HIDE DEF a, b, T
<1> DEFINE c == a \o <<e>>
<1>5. c \in Seq(T) /\ Len(c) = p /\ c[p] = e /\ \A j \in 1..(p - 1) : c[j] = a[j]
  BY <1>1, <1>3
<1> HIDE DEF c
<1>6. /\ c \o b \in Seq(T) /\ Len(c \o b) = p + Len(b)
      /\ \A j \in 1..p : (c \o b)[j] = c[j]
      /\ \A j \in 1..Len(b) : (c \o b)[p + j] = b[j]
  <2>1. IsList(c) /\ IsList(b)
    BY <1>3, <1>5 DEF IsList
  <2>2. c \o b \in Seq(T)
    BY <1>3, <1>5
  <2>3. /\ Len(c \o b) = Len(c) + Len(b)
        /\ \A j \in 1..Len(c) : (c \o b)[j] = c[j]
        /\ \A j \in 1..Len(b) : (c \o b)[Len(c) + j] = b[j]
    BY <2>1, Joined
  <2> QED BY <1>5, <2>2, <2>3
<1>7. Len(c \o b) = Len(s) + 1 /\ (c \o b)[p] = e
  BY <1>2, <1>3, <1>5, <1>6
<1>8. ASSUME NEW j \in 1..Len(s) PROVE (c \o b)[Shifted(j, p)] = s[j]
  <2>1. CASE j >= p
    <3>1. j - p + 1 \in 1..Len(b) /\ p + (j - p + 1) = j + 1 /\ p + (j - p + 1) - 1 = j
      BY <2>1, <1>2, <1>3
    <3>2. (c \o b)[p + (j - p + 1)] = b[j - p + 1]
      BY <3>1, <1>6
    <3>3. b[j - p + 1] = s[p + (j - p + 1) - 1]
      BY <3>1, <1>2
    <3> QED BY <3>1, <3>2, <3>3, <2>1 DEF Shifted
  <2>2. CASE ~(j >= p)
    <3>1. j \in 1..(p - 1) /\ j \in 1..p
      BY <2>2, <1>3
    <3>2. (c \o b)[j] = s[j]
      BY <3>1, <1>1, <1>5, <1>6
    <3> QED BY <3>2, <2>2 DEF Shifted
  <2> QED BY <2>1, <2>2
<1>9. Inserts(s, p, e, c \o b)
  BY <1>7, <1>8 DEF Inserts
<1> QED BY <1>4, <1>6, <1>9 DEF c, T

\* The names after one more record is made, the next in number.
SlotOf(g, at) == IF at > Len(g) THEN Len(g) + 1 ELSE at
Grown(g, at) == InsertAt(g, SlotOf(g, at), Len(g) + 1)

\* The names with one more among them.
LEMMA GrownFacts ==
  ASSUME NEW g \in Seq(Nat), NEW at \in Nat \ {0}
  PROVE  /\ SlotOf(g, at) \in 1..(Len(g) + 1)
         /\ Grown(g, at) \in Seq(Nat) /\ Len(Grown(g, at)) = Len(g) + 1
         /\ DOMAIN Grown(g, at) = 1..(Len(g) + 1)
         /\ Inserts(g, SlotOf(g, at), Len(g) + 1, Grown(g, at))
         /\ \A j \in DOMAIN g : (j >= SlotOf(g, at)) <=> (j >= at)
<1>1. Len(g) \in Nat /\ DOMAIN g = 1..Len(g)
  OBVIOUS
<1>2. SlotOf(g, at) \in 1..(Len(g) + 1)
  BY <1>1 DEF SlotOf
<1> DEFINE p == SlotOf(g, at)
           n == Len(g) + 1
           h == InsertAt(g, p, n)
<1>3. h \in Seq(Nat) /\ Inserts(g, p, n, h)
  <2>1. p \in 1..(Len(g) + 1) /\ n \in Nat
    BY <1>1, <1>2
  <2> HIDE DEF n, p
  <2> QED BY <2>1, InsertFacts
<1>4. \A j \in DOMAIN g : (j >= p) <=> (j >= at)
  BY <1>1 DEF SlotOf
<1> HIDE DEF h
<1>6. DOMAIN h = 1..(Len(g) + 1)
  BY <1>3 DEF Inserts
<1> QED BY <1>1, <1>2, <1>3, <1>4, <1>6 DEF h, Grown

-----------------------------------------------------------------------------
\* The items that wait while a summons or a split is carried out; what one of
\* them makes of the names; and a queue of them that leads from g to h.
SlowOps == {"spawn", "minion", "roll", "vanish", "cannot", "can"}
After(g, it) == IF it.op = "spawn" THEN Grown(g, it.at) ELSE g
Fits(g, it) ==
  /\ it.op \in SlowOps
  /\ IF it.op = "spawn" THEN it.at \in Nat \ {0} ELSE Straight(g, it)

Paves(G, q) ==
  \A k \in 1..Len(q) : Fits(G[k - 1], q[k]) /\ G[k] = After(G[k - 1], q[k])
Leads(g, q, h) ==
  IsList(q) /\ \E G : G[0] = g /\ G[Len(q)] = h /\ Paves(G, q)
Owed(g, q) == \E h : Leads(g, q, h)

\* No item leads nowhere.
LEMMA LeadsNone == ASSUME NEW g PROVE Leads(g, <<>>, g)
<1> DEFINE G == [k \in {0} |-> g]
<1>1. IsList(<<>>) /\ Len(<<>>) = 0 /\ 1..Len(<<>>) = {}
  <2>1. <<>> \in Seq({})
    OBVIOUS
  <2> QED BY <2>1 DEF IsList
<1>2. G[0] = g /\ Paves(G, <<>>)
  BY <1>1 DEF Paves
<1> HIDE DEF G
<1> QED BY <1>1, <1>2 DEF Leads

\* One item.
LEMMA LeadsOne ==
  ASSUME NEW g, NEW it, Fits(g, it) PROVE Leads(g, <<it>>, After(g, it))
<1> DEFINE G == [k \in {0, 1} |-> IF k = 0 THEN g ELSE After(g, it)]
<1>1. IsList(<<it>>) /\ Len(<<it>>) = 1 /\ <<it>>[1] = it
  BY OneList
<1>2. G[0] = g /\ G[1] = After(g, it)
  OBVIOUS
<1> HIDE DEF G
<1>3. Paves(G, <<it>>)
  <2>1. \A k \in 1..1 : k = 1 /\ k - 1 = 0
    OBVIOUS
  <2> QED BY <1>1, <1>2, <2>1 DEF Paves
<1> QED BY <1>1, <1>2, <1>3 DEF Leads

\* One queue behind the other.
LEMMA LeadsJoined ==
  ASSUME NEW g, NEW p, NEW h, NEW q, NEW k, Leads(g, p, h), Leads(h, q, k)
  PROVE  Leads(g, p \o q, k)
<1>1. PICK G : G[0] = g /\ G[Len(p)] = h /\ Paves(G, p)
  BY DEF Leads
<1>2. PICK H : H[0] = h /\ H[Len(q)] = k /\ Paves(H, q)
  BY DEF Leads
<1>3. IsList(p) /\ IsList(q) /\ Len(p) \in Nat /\ Len(q) \in Nat
  BY ListFacts DEF Leads
<1>4. /\ IsList(p \o q) /\ Len(p \o q) = Len(p) + Len(q)
      /\ \A j \in 1..Len(p) : (p \o q)[j] = p[j]
      /\ \A j \in 1..Len(q) : (p \o q)[Len(p) + j] = q[j]
  BY <1>3, Joined
<1> DEFINE n == Len(p)
           m == Len(q)
           J == [j \in 0..(n + m) |-> IF j <= n THEN G[j] ELSE H[j - n]]
<1>5. /\ \A j \in 0..n : J[j] = G[j]
      /\ \A j \in 0..m : J[n + j] = H[j]
  <2>1. \A j \in 0..n : J[j] = G[j]
    BY <1>3
  <2>2. ASSUME NEW j \in 0..m PROVE J[n + j] = H[j]
    <3>1. n + j \in 0..(n + m) /\ (n + j) - n = j
      BY <1>3
    <3>2. CASE j = 0
      BY <3>1, <3>2, <1>1, <1>2, <1>3
    <3>3. CASE j # 0
      <4>1. ~(n + j <= n)
        BY <3>3, <1>3
      <4> QED BY <3>1, <4>1
    <3> QED BY <3>2, <3>3
  <2> QED BY <2>1, <2>2
<1> HIDE DEF J
<1>6. ASSUME NEW j \in 1..Len(p \o q)
      PROVE  Fits(J[j - 1], (p \o q)[j]) /\ J[j] = After(J[j - 1], (p \o q)[j])
  <2>1. CASE j <= n
    <3>1. j \in 1..n /\ j \in 0..n /\ j - 1 \in 0..n
      BY <2>1, <1>3, <1>4
    <3>2. J[j] = G[j] /\ J[j - 1] = G[j - 1] /\ (p \o q)[j] = p[j]
      BY <3>1, <1>4, <1>5
    <3> QED BY <3>1, <3>2, <1>1 DEF Paves
  <2>2. CASE ~(j <= n)
    <3> DEFINE i == j - n
    <3>1. i \in 1..m /\ i \in 0..m /\ i - 1 \in 0..m /\ n + i = j /\ n + (i - 1) = j - 1
      BY <2>2, <1>3, <1>4
    <3>2. J[j] = H[i] /\ J[j - 1] = H[i - 1] /\ (p \o q)[j] = q[i]
      <4> HIDE DEF i
      <4>1. J[n + i] = H[i] /\ J[n + (i - 1)] = H[i - 1] /\ (p \o q)[n + i] = q[i]
        BY <3>1, <1>4, <1>5
      <4> QED BY <4>1, <3>1
    <3> HIDE DEF i
    <3> QED BY <3>1, <3>2, <1>2 DEF Paves
  <2> QED BY <2>1, <2>2
<1>7. Paves(J, p \o q)
  BY <1>6 DEF Paves
<1>8. J[0] = g /\ J[Len(p \o q)] = k
  <2>1. 0 \in 0..n /\ m \in 0..m
    BY <1>3
  <2>2. J[0] = G[0] /\ J[n + m] = H[m]
    BY <2>1, <1>5
  <2> QED BY <2>2, <1>1, <1>2, <1>4
<1> QED BY <1>4, <1>7, <1>8 DEF Leads

\* Every place is the new one or that of an old one.
LEMMA InsertCovers ==
  ASSUME NEW n \in Nat, NEW p \in 1..(n + 1), NEW j \in 1..(n + 1)
  PROVE  j = p \/ \E i \in 1..n : j = Shifted(i, p)
<1>1. CASE j < p
  <2>1. j \in 1..n /\ j = Shifted(j, p)
    BY <1>1 DEF Shifted
  <2> QED BY <2>1
<1>2. CASE j > p
  <2>1. j - 1 \in 1..n /\ j = Shifted(j - 1, p)
    BY <1>2 DEF Shifted
  <2> QED BY <2>1
<1> QED BY <1>1, <1>2

\* A slot that moves stays in the field.
LEMMA ShiftedIn ==
  ASSUME NEW n \in Nat, NEW p \in 1..(n + 1), NEW i \in 1..n
  PROVE  Shifted(i, p) \in 1..(n + 1)
  BY DEF Shifted

\* There is one way to insert.
LEMMA InsertsUnique ==
  ASSUME NEW s \in Seq(Nat), NEW p \in 1..(Len(s) + 1), NEW e,
         NEW h \in Seq(Nat), NEW k \in Seq(Nat), Inserts(s, p, e, h), Inserts(s, p, e, k)
  PROVE  h = k
<1> DEFINE n == Len(s)
<1>1. n \in Nat /\ p \in 1..(n + 1) /\ Len(h) = n + 1 /\ Len(k) = n + 1
  BY DEF Inserts
<1>2. ASSUME NEW j \in 1..(n + 1) PROVE h[j] = k[j]
  <2>1. j = p \/ \E i \in 1..n : j = Shifted(i, p)
    <3> HIDE DEF n
    <3> QED BY <1>1, InsertCovers
  <2> QED BY <2>1 DEF Inserts
<1>3. DOMAIN h = 1..(n + 1) /\ DOMAIN k = 1..(n + 1)
  BY <1>1
<1> HIDE DEF n
<1> QED BY <1>1, <1>2, <1>3

\* One more record: the names are those of the field, with its own at its slot.
LEMMA FieldGrown ==
  ASSUME NEW f, Field(f), NEW p \in 1..(Len(f) + 1), NEW m, HasName(m)
  PROVE  Field(InsertAt(f, p, m)) /\ Names(InsertAt(f, p, m)) = InsertAt(Names(f), p, m.who)
<1> DEFINE n == Len(f)
           h == InsertAt(f, p, m)
           g == Names(f)
<1>1. n \in Nat /\ g \in Seq(Nat) /\ Len(g) = n /\ \A j \in 1..n : HasName(f[j]) /\ g[j] = f[j].who
  BY NamesFacts
<1>2. PICK X : f \in Seq(X)
  BY DEF Field, IsList
<1>3. f \in Seq(X \cup {m}) /\ m \in X \cup {m}
  BY <1>2
<1>4. h \in Seq(X \cup {m}) /\ Inserts(f, p, m, h)
  BY <1>3, InsertFacts
<1> HIDE DEF h
<1>5. Len(h) = n + 1 /\ h[p] = m /\ \A j \in 1..n : h[Shifted(j, p)] = f[j]
  BY <1>4 DEF Inserts
<1>6. IsList(h)
  BY <1>4 DEF IsList
<1>7. ASSUME NEW j \in 1..(n + 1) PROVE HasName(h[j])
  <2>1. j = p \/ \E i \in 1..n : j = Shifted(i, p)
    <3> HIDE DEF n
    <3> QED BY <1>1, InsertCovers DEF n
  <2> QED BY <2>1, <1>1, <1>5
<1>8. Field(h)
  BY <1>5, <1>6, <1>7 DEF Field
<1> DEFINE k == Names(h)
<1>9. k \in Seq(Nat) /\ Len(k) = n + 1 /\ \A j \in 1..(n + 1) : k[j] = h[j].who
  BY <1>5, <1>8, NamesFacts
<1> HIDE DEF k, g
<1>10. Inserts(g, p, m.who, k)
  <2>1. \A j \in 1..n : Shifted(j, p) \in 1..(n + 1)
    <3> HIDE DEF n
    <3> QED BY <1>1, ShiftedIn DEF n
  <2>2. Len(k) = Len(g) + 1
    BY <1>1, <1>9
  <2>3. k[p] = m.who
    BY <1>5, <1>9
  <2>4. \A j \in 1..Len(g) : k[Shifted(j, p)] = g[j]
    BY <1>1, <1>5, <1>9, <2>1
  <2> QED BY <2>2, <2>3, <2>4 DEF Inserts
<1>11. m.who \in Nat /\ p \in 1..(Len(g) + 1)
  BY <1>1 DEF HasName
<1>12. InsertAt(g, p, m.who) \in Seq(Nat) /\ Inserts(g, p, m.who, InsertAt(g, p, m.who))
  BY <1>1, <1>11, InsertFacts
<1>13. k = InsertAt(g, p, m.who)
  BY <1>1, <1>9, <1>10, <1>11, <1>12, InsertsUnique
<1> QED BY <1>8, <1>13 DEF h, k, g

-----------------------------------------------------------------------------
\* Turns that wait: each aims at the record it is due to.
Due(d) == d = [at |-> d.at, who |-> d.who]
TurnsAim(g, t) == IsList(t) /\ \A k \in 1..Len(t) : Due(t[k]) /\ Aims(g, t[k])

\* Turns that wait follow their records.
LEMMA TurnsPushed ==
  ASSUME NEW g \in Seq(Nat), NEW t, TurnsAim(g, t), NEW at \in Nat \ {0}
  PROVE  TurnsAim(Grown(g, at), Pushed(t, SlotOf(g, at)))
<1> DEFINE p == SlotOf(g, at)
           h == Grown(g, at)
           u == Pushed(t, p)
           n == Len(t)
<1>1. n \in Nat /\ DOMAIN t = 1..n
  BY ListFacts DEF TurnsAim
<1>2. u = [k \in 1..n |-> [t[k] EXCEPT !.at = IF t[k].at >= p THEN t[k].at + 1 ELSE t[k].at]]
  BY <1>1 DEF Pushed
<1>3. /\ p \in 1..(Len(g) + 1) /\ DOMAIN h = 1..(Len(g) + 1) /\ Inserts(g, p, Len(g) + 1, h)
      /\ DOMAIN g = 1..Len(g) /\ Len(g) \in Nat
  <2>1. DOMAIN g = 1..Len(g) /\ Len(g) \in Nat
    OBVIOUS
  <2>2. p \in 1..(Len(g) + 1) /\ Inserts(g, p, Len(g) + 1, h)
    BY GrownFacts
  <2>3. DOMAIN h = 1..(Len(g) + 1)
    BY GrownFacts
  <2> QED BY <2>1, <2>2, <2>3
<1> HIDE DEF p, h, u, n
<1>4. ASSUME NEW k \in 1..n PROVE Due(u[k]) /\ Aims(h, u[k])
  <2>1. t[k] = [at |-> t[k].at, who |-> t[k].who] /\ t[k].at \in 1..Len(g) /\ g[t[k].at] = t[k].who
    BY <1>3 DEF TurnsAim, Due, Aims, n
  <2>2. \A v : [t[k] EXCEPT !.at = v] = [at |-> v, who |-> t[k].who]
    BY <2>1
  <2>3. u[k] = [at |-> Shifted(t[k].at, p), who |-> t[k].who]
    <3>1. u[k] = [t[k] EXCEPT !.at = Shifted(t[k].at, p)]
      BY <1>2, Zenon DEF Shifted
    <3> QED BY <3>1, <2>2
  <2>4. Shifted(t[k].at, p) \in 1..(Len(g) + 1)
    BY <2>1, <1>3, ShiftedIn
  <2>5. h[Shifted(t[k].at, p)] = t[k].who
    BY <2>1, <1>3 DEF Inserts
  <2> QED BY <2>3, <2>4, <2>5, <1>3 DEF Due, Aims
<1> DEFINE X == {u[k] : k \in 1..n}
<1>5. u \in [1..n -> X]
  BY <1>2
<1>6. IsList(u) /\ Len(u) = n
  <2> HIDE DEF X
  <2> QED BY <1>1, <1>5, FunctionList
<1> QED BY <1>4, <1>6 DEF TurnsAim, h, u, p

\* The search for that slot is a fold.
LEMMA SettledIsFold ==
  ASSUME NEW p, NEW s, NEW q PROVE Settled(s, q) = SettleFold!Folded(p, s, q)
  BY Zenon DEF SettleFold!Folded, Settled, SettleOp, SettleFold!MapThenFoldSet, FoldLeft,
               MapThenFoldSet, SettleFold!Greatest, Max

\* One of the items that wait.
LEMMA SettleStep ==
  ASSUME NEW g \in Seq(Nat), NEW it, Fits(g, it), NEW s \in DOMAIN g, NEW p
  PROVE  /\ After(g, it) \in Seq(Nat) /\ SettleOp(p, s, it) \in DOMAIN After(g, it)
         /\ After(g, it)[SettleOp(p, s, it)] = g[s]
<1>1. CASE it.op = "spawn"
  <2>1. it.at \in Nat \ {0}
    BY <1>1 DEF Fits
  <2> DEFINE h == Grown(g, it.at)
             c == SlotOf(g, it.at)
  <2>2. c \in 1..(Len(g) + 1) /\ Inserts(g, c, Len(g) + 1, h) /\ h \in Seq(Nat)
    BY <2>1, GrownFacts
  <2>3. DOMAIN h = 1..(Len(g) + 1)
    BY <2>1, GrownFacts
  <2>4. (s >= c) <=> (s >= it.at)
    BY <2>1, GrownFacts
  <2>5. Len(g) \in Nat /\ s \in 1..Len(g)
    OBVIOUS
  <2>6. After(g, it) = h
    BY <1>1 DEF After
  <2> HIDE DEF h, c
  <2>7. SettleOp(p, s, it) = Shifted(s, c)
    BY <1>1, <2>1, <2>2, <2>4, <2>5 DEF SettleOp, Shifted
  <2>8. Shifted(s, c) \in 1..(Len(g) + 1) /\ h[Shifted(s, c)] = g[s]
    BY <2>2, <2>5, ShiftedIn DEF Inserts
  <2> QED BY <2>2, <2>3, <2>6, <2>7, <2>8
<1>2. CASE it.op # "spawn"
  BY <1>2 DEF After, SettleOp
<1> QED BY <1>1, <1>2

\* A record is found where the spawns that wait will leave it.
LEMMA SettledFacts ==
  ASSUME NEW g \in Seq(Nat), NEW q, NEW h, Leads(g, q, h), NEW s \in DOMAIN g
  PROVE  h \in Seq(Nat) /\ Settled(s, q) \in DOMAIN h /\ h[Settled(s, q)] = g[s]
<1>1. PICK G : G[0] = g /\ G[Len(q)] = h /\ Paves(G, q)
  BY DEF Leads
<1>2. PICK X : q \in Seq(X)
  BY DEF Leads, IsList
<1> DEFINE p == [names |-> G, who |-> g[s]]
<1>3. p.names = G /\ p.who = g[s]
  OBVIOUS
<1> HIDE DEF p
<1>4. SettleGood(p, 0, s)
  BY <1>1, <1>3 DEF SettleGood
<1>5. ASSUME NEW i \in 1..Len(q), NEW a, SettleGood(p, i - 1, a)
      PROVE  SettleGood(p, i, SettleOp(p, a, q[i]))
  <2>1. Fits(G[i - 1], q[i]) /\ G[i] = After(G[i - 1], q[i])
    BY <1>1 DEF Paves
  <2>2. a \in DOMAIN G[i - 1] /\ G[i - 1] \in Seq(Nat) /\ G[i - 1][a] = g[s]
    BY <1>3, <1>5 DEF SettleGood
  <2>3. /\ G[i] \in Seq(Nat) /\ SettleOp(p, a, q[i]) \in DOMAIN G[i]
        /\ G[i][SettleOp(p, a, q[i])] = G[i - 1][a]
    BY <2>1, <2>2, SettleStep
  <2> QED BY <1>3, <2>2, <2>3 DEF SettleGood
<1>6. SettleGood(p, Len(q), SettleFold!Folded(p, s, q))
  BY <1>2, <1>4, <1>5, SettleFold!FoldKeeps
<1>7. Settled(s, q) = SettleFold!Folded(p, s, q)
  BY SettledIsFold
<1> QED BY <1>1, <1>3, <1>6, <1>7 DEF SettleGood

\* Items that wait and make no record leave the queue as it is.
LEMMA SlowExecuted ==
  ASSUME NEW ids, NEW g, NEW t, NEW w, Manned(ids, g, t, w), NEW it, Fits(g, it), it.op # "spawn"
  PROVE  \A v \in Executed(w, it) : Manned(ids, g, t, v) /\ v.q = w.q
<1> DEFINE i == it.at
           m == w.f[i]
           gone == With(w, i, [m EXCEPT !.hp = None])
<1>1. CASE it.op = "cannot" \/ it.op = "can"
  <2>1. Executed(w, it) \in {{[w EXCEPT !.cl = TRUE]}, {[w EXCEPT !.cl = FALSE]}}
    BY <1>1, Zenon DEF Executed
  <2>2. \A b : Manned(ids, g, t, [w EXCEPT !.cl = b]) /\ [w EXCEPT !.cl = b].q = w.q
    <3>1. \A b : [w EXCEPT !.cl = b] = [f |-> w.f, q |-> w.q, t |-> w.t, cl |-> b]
      BY DEF Manned, Shape
    <3>2. \A b : [f |-> w.f, q |-> w.q, t |-> w.t, cl |-> b].q = w.q
      OBVIOUS
    <3>3. \A b : Manned(ids, g, t, [w EXCEPT !.cl = b])
      BY WinnableCalm, Zenon
    <3> QED BY <3>1, <3>2, <3>3, Zenon
  <2>3. /\ Manned(ids, g, t, [w EXCEPT !.cl = TRUE]) /\ [w EXCEPT !.cl = TRUE].q = w.q
        /\ Manned(ids, g, t, [w EXCEPT !.cl = FALSE]) /\ [w EXCEPT !.cl = FALSE].q = w.q
    BY <2>2, Zenon
  <2> QED BY <2>1, <2>3, Zenon
<1>2. CASE it.op \notin {"cannot", "can"}
  <2>1. i \in DOMAIN g /\ it.op \in {"minion", "roll", "vanish"}
    BY <1>2 DEF Fits, SlowOps, Straight, Aims
  <2>2. HasName(m)
    BY <2>1, MannedFacts
  <2>3. \A c : Same(m, c) => Manned(ids, g, t, With(w, i, c)) /\ With(w, i, c).q = w.q
    BY <2>1, WithManned
  <2>4. Same(m, Raise(m, "minion"))
    BY <2>2, MoveKeeps
  <2>5. Manned(ids, g, t, gone) /\ gone.q = w.q
    <3> DEFINE c == [m EXCEPT !.hp = None]
    <3>1. Same(m, c)
      BY <2>2, FieldKeeps
    <3> HIDE DEF c
    <3>2. Manned(ids, g, t, With(w, i, c)) /\ With(w, i, c).q = w.q
      BY <3>1, <2>3
    <3> QED BY <3>2 DEF c
  <2>6. AllSame(m, Chosen(w.f, i))
    BY <2>2, ChosenKeeps
  <2>7. Executed(w, it) \in {{With(w, i, Raise(m, "minion"))}, {With(w, i, c) : c \in Chosen(w.f, i)}, {gone}}
    BY <2>1, Zenon DEF Executed
  <2> HIDE DEF gone, m, i
  <2> QED BY <2>3, <2>4, <2>5, <2>6, <2>7 DEF AllSame
<1> QED BY <1>1, <1>2

\* The world with a new record, before it opens.
LEMMA BornParts ==
  ASSUME NEW w, Shape(w), NEW slot, NEW m
  PROVE  Born(w, slot, m) = [f |-> InsertAt(w.f, slot, m), q |-> w.q, t |-> Pushed(w.t, slot), cl |-> w.cl]
<1>1. \A a, b : [w EXCEPT !.f = a, !.t = b] = [f |-> a, q |-> w.q, t |-> b, cl |-> w.cl]
  <2> TAKE a, b
  <2> DEFINE c == [w EXCEPT !.f = a]
             d == [w EXCEPT !.f = a, !.t = b]
  <2>1. c = [f |-> a, q |-> w.q, t |-> w.t, cl |-> w.cl]
    <3>1. \A v : [w EXCEPT !.f = v] = [f |-> v, q |-> w.q, t |-> w.t, cl |-> w.cl]
      BY DEF Shape
    <3> QED BY <3>1, Zenon
  <2>2. d = [c EXCEPT !.t = b]
    BY Zenon
  <2> HIDE DEF c, d
  <2>3. d = [f |-> a, q |-> w.q, t |-> b, cl |-> w.cl]
    BY <2>1, <2>2
  <2> QED BY <2>3 DEF d
<1> QED BY <1>1, Zenon DEF Born

\* A new record has its name at its slot, and the turns still aim.
LEMMA BornManned ==
  ASSUME NEW ids, NEW g, NEW t, NEW w, Manned(ids, g, t, w), TurnsAim(g, t), NEW at \in Nat \ {0},
         NEW m, HasName(m), m.who = Len(g) + 1
  PROVE  LET slot == SlotOf(g, at)
             u == Pushed(t, slot)
             b == Born(w, slot, m)
         IN  /\ Manned(Kinds(b.f), Grown(g, at), u, b) /\ b.q = w.q
             /\ TurnsAim(Grown(g, at), u)
<1> DEFINE slot == SlotOf(g, at)
           u == Pushed(t, slot)
           b == Born(w, slot, m)
           h == InsertAt(w.f, slot, m)
<1>1. g \in Seq(Nat) /\ Len(g) = Len(w.f) /\ Field(w.f) /\ Names(w.f) = g /\ w.t = t /\ Shape(w)
  BY MannedFacts DEF Manned
<1>2. slot \in 1..(Len(g) + 1)
  BY <1>1, GrownFacts
<1>3. b = [f |-> h, q |-> w.q, t |-> u, cl |-> w.cl]
  BY <1>1, BornParts
<1>4. TurnsAim(Grown(g, at), u)
  BY <1>1, TurnsPushed
<1>5. Field(h) /\ Names(h) = InsertAt(g, slot, m.who)
  <2> HIDE DEF slot
  <2> QED BY <1>1, <1>2, FieldGrown
<1>6. Names(h) = Grown(g, at)
  BY <1>5 DEF Grown
<1> HIDE DEF b, h, u, slot
<1>7. Manned(Kinds(b.f), Grown(g, at), u, b) /\ b.q = w.q
  BY <1>3, <1>5, <1>6 DEF Manned, Shape
<1> QED BY <1>4, <1>7 DEF b, u, slot

\* An item that aims true may wait at either end of a queue.
LEMMA LeadsTop ==
  ASSUME NEW g, NEW q, NEW h, Leads(g, q, h), NEW it, Fits(g, it), it.op # "spawn"
  PROVE  Leads(g, <<it>> \o q, h)
<1>1. After(g, it) = g
  BY DEF After
<1>2. Leads(g, <<it>>, g)
  BY <1>1, LeadsOne
<1> QED BY <1>2, LeadsJoined

\* At the bottom.
LEMMA LeadsBottom ==
  ASSUME NEW g, NEW q, NEW h, Leads(g, q, h), NEW it, Fits(h, it), it.op # "spawn"
  PROVE  Leads(g, q \o <<it>>, h)
<1>1. After(h, it) = h
  BY DEF After
<1>2. Leads(h, <<it>>, h)
  BY <1>1, LeadsOne
<1> QED BY <1>2, LeadsJoined

\* The MINION of a record that is there.
LEMMA FitsMinion ==
  ASSUME NEW g, NEW s \in DOMAIN g, NEW kid
  PROVE  LET it == Item("minion", s, g[s], "-", kid) IN Fits(g, it) /\ it.op # "spawn"
<1> DEFINE it == Item("minion", s, g[s], "-", kid)
<1>1. it.op = "minion" /\ it.at = s /\ it.who = g[s]
  BY ItemFields
<1> HIDE DEF it
<1>2. Fits(g, it) /\ it.op # "spawn"
  BY <1>1 DEF Fits, SlowOps, Straight, Aims, PlainOps
<1> QED BY <1>2 DEF it

\* What a spawn does, in the words of its definition.
LEMMA SpawnedIs ==
  ASSUME NEW w, NEW it, NEW slot, slot = IF it.at > Len(w.f) THEN Len(w.f) + 1 ELSE it.at,
         NEW name, name = Len(w.f) + 1
  PROVE  LET minion(at) == Item("minion", at, name, "-", NoKid)
             born == Born(w, slot, Made(name, it.kid.id, it.kid.x))
             ready == CASE it.kid.minion = "top" -> Top(born, <<minion(slot)>>)
                        [] it.kid.minion = "bottom" -> Bottom(born, <<minion(Settled(slot, w.q))>>)
                        [] OTHER -> born
         IN  \A v \in Spawned(w, it) : \E c \in Opened(born.f, slot, it.kid.id) :
               v = With(ready, slot, [c EXCEPT !.hp = it.kid.hp])
  BY Zenon DEF Spawned

\* A spawn makes its record where the items and turns that wait expect it.
LEMMA SpawnedAims ==
  ASSUME NEW ids, NEW g, NEW t, NEW w, Manned(ids, g, t, w), TurnsAim(g, t), NEW it, it.at \in Nat \ {0},
         Owed(Grown(g, it.at), w.q)
  PROVE  \A v \in Spawned(w, it) :
           \E ks, u : /\ Manned(ks, Grown(g, it.at), u, v) /\ TurnsAim(Grown(g, it.at), u)
                      /\ Owed(Grown(g, it.at), v.q)
<1> DEFINE at == it.at
           slot == SlotOf(g, at)
           name == Len(g) + 1
           h == Grown(g, at)
           u == Pushed(t, slot)
           m == Made(name, it.kid.id, it.kid.x)
           born == Born(w, slot, m)
           ks == Kinds(born.f)
           minion(s) == Item("minion", s, name, "-", NoKid)
           settled == Settled(slot, w.q)
           ready == CASE it.kid.minion = "top" -> Top(born, <<minion(slot)>>)
                      [] it.kid.minion = "bottom" -> Bottom(born, <<minion(settled)>>)
                      [] OTHER -> born
<1>1. g \in Seq(Nat) /\ Len(g) = Len(w.f) /\ Len(g) \in Nat
  BY MannedFacts
<1>2. HasName(m) /\ m.who = name
  BY <1>1, MadeNamed
<1>3. Manned(ks, h, u, born) /\ born.q = w.q /\ TurnsAim(h, u)
  <2> HIDE DEF m
  <2> QED BY <1>2, BornManned
<1>4. h \in Seq(Nat) /\ slot \in DOMAIN h /\ h[slot] = name
  <2>1. slot \in 1..(Len(g) + 1) /\ h \in Seq(Nat) /\ Inserts(g, slot, name, h)
    BY <1>1, GrownFacts
  <2>2. DOMAIN h = 1..(Len(g) + 1)
    BY <1>1, GrownFacts
  <2> QED BY <2>1, <2>2 DEF Inserts
<1>5. PICK e : Leads(h, w.q, e)
  BY DEF Owed
<1>6. settled \in DOMAIN e /\ e[settled] = name
  <2> HIDE DEF h, slot, name
  <2> QED BY <1>4, <1>5, SettledFacts
<1>7. Leads(h, <<minion(slot)>> \o w.q, e)
  <2>1. Fits(h, minion(slot)) /\ minion(slot).op # "spawn"
    <3> HIDE DEF h, slot, name
    <3> QED BY <1>4, FitsMinion
  <2> HIDE DEF h, minion
  <2> QED BY <2>1, <1>5, LeadsTop
<1>8. Leads(h, w.q \o <<minion(settled)>>, e)
  <2>1. Fits(e, minion(settled)) /\ minion(settled).op # "spawn"
    <3> HIDE DEF settled, name
    <3> QED BY <1>6, FitsMinion
  <2> HIDE DEF h, minion, settled
  <2> QED BY <2>1, <1>5, LeadsBottom
<1> HIDE DEF h, u, m, slot, name, settled, born, ks, minion
<1>9. Manned(ks, h, u, ready) /\ Owed(h, ready.q) /\ ready.f = born.f
  <2>1. Shape(born)
    BY <1>3 DEF Manned
  <2>3. /\ Bottom(born, <<minion(settled)>>).q = w.q \o <<minion(settled)>>
        /\ Bottom(born, <<minion(settled)>>).f = born.f
        /\ Top(born, <<minion(slot)>>).q = <<minion(slot)>> \o w.q
        /\ Top(born, <<minion(slot)>>).f = born.f
    <3>1. born.q = w.q
      BY <1>3
    <3>2. \A x : /\ Bottom(born, <<x>>).q = born.q \o <<x>> /\ Bottom(born, <<x>>).f = born.f
                 /\ Top(born, <<x>>).q = <<x>> \o born.q /\ Top(born, <<x>>).f = born.f
      BY <2>1, QueueFields
    <3> QED BY <3>1, <3>2, Zenon
  <2>4. Manned(ks, h, u, Bottom(born, <<minion(settled)>>)) /\ Manned(ks, h, u, Top(born, <<minion(slot)>>))
    BY <1>3, QueueManned
  <2>5. ready \in {Top(born, <<minion(slot)>>), Bottom(born, <<minion(settled)>>), born}
    OBVIOUS
  <2> HIDE DEF ready
  <2> QED BY <2>3, <2>4, <2>5, <1>3, <1>5, <1>7, <1>8 DEF Owed
<1>10. \A v \in Spawned(w, it) : \E c \in Opened(born.f, slot, it.kid.id) :
         v = With(ready, slot, [c EXCEPT !.hp = it.kid.hp])
  <2>1. slot = IF it.at > Len(w.f) THEN Len(w.f) + 1 ELSE it.at
    BY <1>1 DEF slot, SlotOf
  <2>2. name = Len(w.f) + 1
    BY <1>1 DEF name
  <2> QED BY <2>1, <2>2, SpawnedIs DEF born, m, minion, settled
<1>11. ASSUME NEW v \in Spawned(w, it) PROVE Manned(ks, h, u, v) /\ v.q = ready.q
  <2>1. PICK c \in Opened(born.f, slot, it.kid.id) : v = With(ready, slot, [c EXCEPT !.hp = it.kid.hp])
    BY <1>10
  <2>2. HasName(born.f[slot])
    BY <1>3, <1>4, MannedFacts
  <2>3. Same(born.f[slot], c) /\ HasName(c)
    BY <2>2, OpenedKeeps DEF AllSame, Same
  <2> DEFINE d == [c EXCEPT !.hp = it.kid.hp]
  <2>4. Same(born.f[slot], d)
    BY <2>3, FieldKeeps, SameTwice
  <2> HIDE DEF d, ready
  <2>5. Same(ready.f[slot], d)
    BY <2>4, <1>9
  <2>6. Manned(ks, h, u, With(ready, slot, d)) /\ With(ready, slot, d).q = ready.q
    BY <2>5, <1>4, <1>9, WithManned
  <2> QED BY <2>1, <2>6 DEF d
<1> HIDE DEF ready
<1> QED BY <1>3, <1>9, <1>11 DEF h

(***************************************************************************)
(* Summons and splits lay out items that aim true one after the other.     *)
(***************************************************************************)
LEMMA InsertList ==
  ASSUME NEW s, IsList(s), NEW p \in 1..(Len(s) + 1), NEW e
  PROVE  IsList(InsertAt(s, p, e)) /\ Len(InsertAt(s, p, e)) = Len(s) + 1
<1>1. PICK X : s \in Seq(X)
  BY DEF IsList
<1>2. s \in Seq(X \cup {e}) /\ e \in X \cup {e}
  BY <1>1
<1>3. InsertAt(s, p, e) \in Seq(X \cup {e}) /\ Inserts(s, p, e, InsertAt(s, p, e))
  BY <1>2, InsertFacts
<1> QED BY <1>3 DEF IsList, Inserts

\* A place among the records is a slot.
LEMMA PlaceFits ==
  ASSUME NEW xs, IsList(xs), NEW rule, NEW x
  PROVE  Place(rule, xs, x) \in 1..(Len(xs) + 1)
<1>1. Len(xs) \in Nat /\ DOMAIN xs = 1..Len(xs)
  BY ListFacts
<1>2. \A S \in SUBSET DOMAIN xs : Cardinality(S) + 1 \in 1..(Len(xs) + 1)
  <2> TAKE S \in SUBSET DOMAIN xs
  <2>1. Counted(S, Len(xs))
    BY <1>1, AllRanked
  <2>2. Cardinality(S) \in Nat /\ Cardinality(S) <= Len(xs)
    BY <2>1 DEF Counted
  <2> QED BY <2>2, <1>1
<1> DEFINE A == {j \in DOMAIN xs : \A k \in 1..j : x > xs[k]}
           B == {j \in DOMAIN xs : x > xs[j]}
<1>3. A \in SUBSET DOMAIN xs /\ B \in SUBSET DOMAIN xs
  OBVIOUS
<1>4. Place(rule, xs, x) \in {Cardinality(A) + 1, Cardinality(B) + 1}
  BY Zenon DEF Place, PlaceAmong, PlaceAbove
<1> HIDE DEF A, B
<1> QED BY <1>2, <1>3, <1>4

\* One more record of a summons: where it goes, and where that leaves the rest.
PlanOp(p, plan, kid) ==
  LET pos == Place(p.rule, plan.xs, kid.x)
  IN  [xs |-> InsertAt(plan.xs, pos, kid.x),
       boss |-> IF pos <= plan.boss THEN plan.boss + 1 ELSE plan.boss,
       q |-> plan.q \o Ordered(p.w, p.i, pos, kid, Len(plan.xs) + 1)]
PlanStart(w, i) == [xs |-> [j \in DOMAIN w.f |-> w.f[j].x], boss |-> i, q |-> <<>>]

PlanFits(p, h, plan) ==
  /\ Leads(p.g, plan.q, h) /\ h \in Seq(Nat)
  /\ IsList(plan.xs) /\ Len(plan.xs) = Len(h)
  /\ plan.boss \in DOMAIN h /\ h[plan.boss] = p.g[p.i]
PlanGood(p, n, plan) == \E h : PlanFits(p, h, plan)

PlanFold == INSTANCE FoldFacts WITH Op <- PlanOp, Good <- PlanGood

\* A plan is a fold over the records to come.
LEMMA PlannedIsFold ==
  ASSUME NEW p, NEW kids
  PROVE  Planned(p.w, p.i, kids, p.rule) = PlanFold!Folded(p, PlanStart(p.w, p.i), kids)
  BY Zenon DEF PlanFold!Folded, Planned, PlanOp, PlanStart, PlanFold!MapThenFoldSet, FoldLeft,
               MapThenFoldSet, PlanFold!Greatest, Max

\* A spawn and its MINION lead to the field with the new record.
LEMMA OrderedLeads ==
  ASSUME NEW h \in Seq(Nat), NEW pos \in 1..(Len(h) + 1), NEW w, NEW i, NEW kid
  PROVE  Leads(h, Ordered(w, i, pos, kid, Len(h) + 1), Grown(h, pos))
<1> DEFINE k == Grown(h, pos)
           name == Len(h) + 1
           it == SpawnItem(w, i, pos, kid)
           min == Item("minion", pos, name, "-", NoKid)
<1>1. Len(h) \in Nat /\ pos \in Nat \ {0} /\ SlotOf(h, pos) = pos
  BY DEF SlotOf
<1>2. DOMAIN k = 1..(Len(h) + 1) /\ k[pos] = name
  <2>1. DOMAIN k = 1..(Len(h) + 1)
    BY <1>1, GrownFacts
  <2>2. Inserts(h, SlotOf(h, pos), name, k)
    BY <1>1, GrownFacts
  <2> QED BY <1>1, <2>1, <2>2 DEF Inserts
<1>3. it.op = "spawn" /\ it.at = pos
  BY ItemFields DEF SpawnItem
<1> HIDE DEF k, it
<1>4. Fits(h, it) /\ After(h, it) = k
  BY <1>1, <1>3 DEF Fits, After, SlowOps, k
<1>5. Leads(h, <<it>>, k)
  BY <1>4, LeadsOne
<1>6. Fits(k, min) /\ min.op # "spawn"
  <2> HIDE DEF name
  <2> QED BY <1>2, FitsMinion
<1>7. Leads(h, <<it>> \o <<min>>, k)
  <2> HIDE DEF min
  <2> QED BY <1>5, <1>6, LeadsBottom
<1>8. <<it>> \o <<>> = <<it>>
  OBVIOUS
<1>9. Ordered(w, i, pos, kid, name) \in {<<it>> \o <<min>>, <<it>> \o <<>>}
  BY Zenon DEF Ordered, it
<1> HIDE DEF min, name
<1>10. Leads(h, Ordered(w, i, pos, kid, name), k)
  BY <1>5, <1>7, <1>8, <1>9
<1> QED BY <1>10 DEF k, name

\* One more record to come: the plan still follows the summoner.
LEMMA PlanStep ==
  ASSUME NEW p, NEW h, NEW plan, PlanFits(p, h, plan), NEW kid
  PROVE  \E k : PlanFits(p, k, PlanOp(p, plan, kid))
<1> DEFINE pos == Place(p.rule, plan.xs, kid.x)
           k == Grown(h, pos)
           more == Ordered(p.w, p.i, pos, kid, Len(plan.xs) + 1)
           xs == InsertAt(plan.xs, pos, kid.x)
           next == PlanOp(p, plan, kid)
<1>1. h \in Seq(Nat) /\ Len(h) \in Nat /\ IsList(plan.xs) /\ Len(plan.xs) = Len(h)
  BY DEF PlanFits
<1>2. pos \in 1..(Len(h) + 1)
  BY <1>1, PlaceFits
<1>3. next.xs = xs /\ next.boss = Shifted(plan.boss, pos) /\ next.q = plan.q \o more
  <2>1. plan.boss \in Nat
    BY <1>1 DEF PlanFits
  <2>2. next.xs = xs /\ next.q = plan.q \o more /\ next.boss = IF pos <= plan.boss THEN plan.boss + 1 ELSE plan.boss
    BY DEF PlanOp
  <2> QED BY <1>2, <2>1, <2>2 DEF Shifted
<1> HIDE DEF pos, next
<1>4. Leads(h, more, k)
  BY <1>1, <1>2, OrderedLeads
<1> HIDE DEF more
<1>5. IsList(xs) /\ Len(xs) = Len(h) + 1
  BY <1>1, <1>2, InsertList
<1> HIDE DEF xs
<1>6. pos \in Nat \ {0} /\ SlotOf(h, pos) = pos
  BY <1>1, <1>2 DEF SlotOf
<1>7. k \in Seq(Nat) /\ Len(k) = Len(h) + 1 /\ DOMAIN k = 1..(Len(h) + 1)
  BY <1>1, <1>6, GrownFacts
<1>8. Inserts(h, pos, Len(h) + 1, k)
  <2>1. Inserts(h, SlotOf(h, pos), Len(h) + 1, k)
    BY <1>1, <1>6, GrownFacts
  <2> QED BY <2>1, <1>6
<1> HIDE DEF k
<1>9. plan.boss \in 1..Len(h) /\ h[plan.boss] = p.g[p.i]
  BY <1>1 DEF PlanFits
<1>10. Shifted(plan.boss, pos) \in 1..(Len(h) + 1)
  BY <1>1, <1>2, <1>9, ShiftedIn
<1>11. k[Shifted(plan.boss, pos)] = p.g[p.i]
  BY <1>8, <1>9 DEF Inserts
<1>12. Leads(p.g, plan.q \o more, k)
  BY <1>4, LeadsJoined DEF PlanFits
<1>13. PlanFits(p, k, next)
  BY <1>3, <1>5, <1>7, <1>10, <1>11, <1>12 DEF PlanFits
<1> QED BY <1>13 DEF next

\* The items of a summons are owed: each will aim when it runs.
LEMMA SummonsOwed ==
  ASSUME NEW ids, NEW g, NEW t, NEW w, Manned(ids, g, t, w), NEW i \in DOMAIN g, NEW kids, IsList(kids), NEW rule
  PROVE  Owed(g, Summons(w, i, kids, rule))
<1> DEFINE p == [w |-> w, i |-> i, rule |-> rule, g |-> g]
           start == PlanStart(w, i)
           plan == Planned(w, i, kids, rule)
           roll == Item("roll", plan.boss, w.f[i].who, "-", NoKid)
<1>1. p.w = w /\ p.i = i /\ p.rule = rule /\ p.g = g
  OBVIOUS
<1> HIDE DEF p
<1>2. PlanGood(p, 0, start)
  <2>1. /\ g \in Seq(Nat) /\ Len(g) = Len(w.f) /\ Len(w.f) \in Nat /\ DOMAIN w.f = 1..Len(w.f)
    BY MannedFacts
  <2> DEFINE n == Len(w.f)
             xs == [j \in 1..n |-> w.f[j].x]
             X == {w.f[j].x : j \in 1..n}
  <2>2. xs \in [1..n -> X]
    OBVIOUS
  <2>3. start.xs = xs /\ start.boss = i /\ start.q = <<>>
    BY <2>1 DEF PlanStart
  <2> HIDE DEF X, xs, n, start
  <2>4. n \in Nat
    BY <2>1 DEF n
  <2>5. IsList(xs) /\ Len(xs) = n
    BY <2>2, <2>4, FunctionList
  <2>6. Leads(g, <<>>, g)
    BY LeadsNone
  <2>7. PlanFits(p, g, start)
    BY <1>1, <2>1, <2>3, <2>5, <2>6 DEF PlanFits, n
  <2> QED BY <2>7 DEF PlanGood
<1>3. PICK X : kids \in Seq(X)
  BY DEF IsList
<1>4. ASSUME NEW k \in 1..Len(kids), NEW a, PlanGood(p, k - 1, a)
      PROVE  PlanGood(p, k, PlanOp(p, a, kids[k]))
  <2>1. PICK h : PlanFits(p, h, a)
    BY <1>4 DEF PlanGood
  <2> QED BY <2>1, PlanStep DEF PlanGood
<1>5. PlanGood(p, Len(kids), PlanFold!Folded(p, start, kids))
  <2> HIDE DEF start
  <2> QED BY <1>2, <1>3, <1>4, PlanFold!FoldKeeps
<1>6. plan = PlanFold!Folded(p, start, kids)
  <2>1. Planned(p.w, p.i, kids, p.rule) = PlanFold!Folded(p, PlanStart(p.w, p.i), kids)
    BY PlannedIsFold
  <2> QED BY <2>1, <1>1
<1>7. PICK h : PlanFits(p, h, plan)
  BY <1>5, <1>6 DEF PlanGood
<1> HIDE DEF plan
<1>8. /\ Leads(g, plan.q, h) /\ plan.boss \in DOMAIN h /\ h[plan.boss] = w.f[i].who
  <2>1. w.f[i].who = g[i]
    BY MannedFacts
  <2> QED BY <1>1, <1>7, <2>1 DEF PlanFits
<1>9. Fits(h, roll) /\ roll.op # "spawn"
  <2>1. roll.op = "roll" /\ roll.at = plan.boss /\ roll.who = w.f[i].who
    BY ItemFields
  <2> HIDE DEF roll
  <2> QED BY <2>1, <1>8 DEF Fits, SlowOps, Straight, Aims, PlainOps
<1>10. Summons(w, i, kids, rule) = plan.q \o <<roll>>
  BY DEF Summons, plan
<1> HIDE DEF roll
<1>11. Leads(g, plan.q \o <<roll>>, h)
  BY <1>8, <1>9, LeadsBottom
<1> QED BY <1>10, <1>11 DEF Owed

\* A split: two records to be made, then the roll of a spike slime.
LEMMA SplitSlots ==
  ASSUME NEW g \in Seq(Nat), NEW i \in DOMAIN g, NEW h, h = Grown(Grown(g, i), i + 2)
  PROVE  i + 1 \in DOMAIN h /\ h[i + 1] = g[i]
<1> DEFINE a == Grown(g, i)
<1>1. Len(g) \in Nat /\ i \in 1..Len(g) /\ i \in Nat \ {0} /\ i + 2 \in Nat \ {0}
  OBVIOUS
<1>2. SlotOf(g, i) = i
  BY <1>1 DEF SlotOf
<1>3. a \in Seq(Nat) /\ Len(a) = Len(g) + 1
  BY <1>1, GrownFacts
<1>4. a[i + 1] = g[i]
  <2>1. Inserts(g, SlotOf(g, i), Len(g) + 1, a)
    BY <1>1, GrownFacts
  <2>2. Shifted(i, i) = i + 1
    BY <1>1 DEF Shifted
  <2>3. a[Shifted(i, i)] = g[i]
    BY <1>1, <1>2, <2>1 DEF Inserts
  <2> QED BY <2>2, <2>3
<1> HIDE DEF a
<1>5. SlotOf(a, i + 2) = i + 2
  BY <1>1, <1>3 DEF SlotOf
<1> DEFINE b == Grown(a, i + 2)
<1>6. Inserts(a, SlotOf(a, i + 2), Len(a) + 1, b)
  BY <1>1, <1>3, GrownFacts
<1>7. DOMAIN b = 1..(Len(a) + 1)
  BY <1>1, <1>3, GrownFacts
<1> HIDE DEF b
<1>8. Shifted(i + 1, i + 2) = i + 1 /\ i + 1 \in 1..Len(a)
  BY <1>1, <1>3 DEF Shifted
<1>9. b[Shifted(i + 1, i + 2)] = a[i + 1]
  BY <1>5, <1>6, <1>8 DEF Inserts
<1> QED BY <1>3, <1>4, <1>7, <1>8, <1>9 DEF a, b

\* Five items, of which the third and the fourth make a record.
LEMMA LeadsFive ==
  ASSUME NEW g, NEW h, NEW k, NEW a, NEW b, NEW c, NEW d, NEW e,
         Fits(g, a), Fits(g, b), Fits(g, c), Fits(h, d), Fits(k, e),
         After(g, a) = g, After(g, b) = g, After(g, c) = h, After(h, d) = k, After(k, e) = k
  PROVE  Leads(g, <<a, b, c, d, e>>, k)
<1> DEFINE q == <<a, b, c, d, e>>
           G == [j \in 0..5 |-> IF j <= 2 THEN g ELSE IF j = 3 THEN h ELSE k]
<1>1. IsList(q) /\ Len(q) = 5 /\ q[1] = a /\ q[2] = b /\ q[3] = c /\ q[4] = d /\ q[5] = e
  <2>1. q \in Seq({a, b, c, d, e})
    OBVIOUS
  <2> QED BY <2>1 DEF IsList
<1>2. G[0] = g /\ G[1] = g /\ G[2] = g /\ G[3] = h /\ G[4] = k /\ G[5] = k
  OBVIOUS
<1> HIDE DEF q, G
<1>3. ASSUME NEW j \in 1..5 PROVE Fits(G[j - 1], q[j]) /\ G[j] = After(G[j - 1], q[j])
  <2>1. \/ j = 1 /\ j - 1 = 0
        \/ j = 2 /\ j - 1 = 1
        \/ j = 3 /\ j - 1 = 2
        \/ j = 4 /\ j - 1 = 3
        \/ j = 5 /\ j - 1 = 4
    OBVIOUS
  <2> QED BY <2>1, <1>1, <1>2
<1>4. Leads(g, q, k)
  BY <1>1, <1>2, <1>3 DEF Leads, Paves
<1> QED BY <1>4 DEF q

\* The items of a split are owed.
LEMMA SplitOwed ==
  ASSUME NEW ids, NEW g, NEW t, NEW w, Manned(ids, g, t, w), NEW i \in DOMAIN g
  PROVE  Owed(g, Split(w, i))
<1> DEFINE m == w.f[i]
           boss == {j \in 1 .. (i - 1) : w.f[j].id = "SLIME_BOSS"}
           far == m.id = "ACID_SLIME_LARGE" /\ boss # {}
           first == CHOOSE j \in boss : \A k \in boss : j <= k
           left == IF far THEN first ELSE i
           right == IF far THEN Len(w.f) + 1 ELSE i + 2
           roll == Item("roll", i + 1, m.who, "-", NoKid)
           cannot == For(w, "cannot", i)
           vanish == For(w, "vanish", i)
           can == For(w, "can", i)
<1>1. g \in Seq(Nat) /\ Len(w.f) \in Nat /\ i \in 1..Len(w.f) /\ m.who = g[i]
  BY MannedFacts
<1>2. left \in Nat \ {0} /\ right \in Nat \ {0}
  <2>1. boss # {} => first \in Nat \ {0}
    <3> HAVE boss # {}
    <3>1. boss \in SUBSET Nat /\ \A j \in boss : j \in Nat \ {0}
      BY <1>1
    <3> HIDE DEF boss
    <3>2. \E j \in boss : \A k \in boss : j <= k
      BY <3>1, SettleFold!LeastOf
    <3> QED BY <3>1, <3>2
  <2> HIDE DEF first, boss
  <2> QED BY <1>1, <2>1
<1>3. PICK a, b : Split(w, i) =
        <<cannot, vanish, SpawnItem(w, i, left, a), SpawnItem(w, i, right, b), can>>
        \o (IF m.id = "SPIKE_SLIME_LARGE" THEN <<roll>> ELSE <<>>)
  BY Zenon DEF Split
<1>4. m.id = "SPIKE_SLIME_LARGE" => left = i /\ right = i + 2
  OBVIOUS
<1> DEFINE one == SpawnItem(w, i, left, a)
           two == SpawnItem(w, i, right, b)
           h == Grown(g, left)
           k == Grown(h, right)
<1>5. one.op = "spawn" /\ one.at = left /\ two.op = "spawn" /\ two.at = right
  BY ItemFields DEF SpawnItem
<1>6. cannot.op = "cannot" /\ can.op = "can" /\ roll.op = "roll" /\ roll.at = i + 1 /\ roll.who = m.who
  BY ItemFields DEF For
<1>7. vanish.op = "vanish" /\ vanish.at = i /\ vanish.who = m.who
  BY ItemFields DEF For
<1> DEFINE spike == m.id = "SPIKE_SLIME_LARGE"
<1>8. Split(w, i) \in {<<cannot, vanish, one, two, can>> \o <<roll>>, <<cannot, vanish, one, two, can>> \o <<>>}
      /\ (spike \/ Split(w, i) = <<cannot, vanish, one, two, can>> \o <<>>)
  BY <1>3, Zenon
<1> HIDE DEF left, right, one, two, cannot, can, vanish, roll, m, spike
<1>9. Fits(g, cannot) /\ After(g, cannot) = g
  BY <1>6 DEF Fits, After, SlowOps, Straight, PlainOps
<1>10. Fits(g, vanish) /\ After(g, vanish) = g
  BY <1>1, <1>7 DEF Fits, After, SlowOps, Straight, Aims, PlainOps
<1>11. Fits(g, one) /\ After(g, one) = h
  BY <1>2, <1>5 DEF Fits, After, SlowOps
<1>12. Fits(h, two) /\ After(h, two) = k
  BY <1>2, <1>5 DEF Fits, After, SlowOps
<1>13. Fits(k, can) /\ After(k, can) = k
  BY <1>6 DEF Fits, After, SlowOps, Straight, PlainOps
<1>14. Leads(g, <<cannot, vanish, one, two, can>>, k)
  <2> HIDE DEF h, k
  <2> QED BY <1>9, <1>10, <1>11, <1>12, <1>13, LeadsFive
<1>15. <<cannot, vanish, one, two, can>> \o <<>> = <<cannot, vanish, one, two, can>>
  OBVIOUS
<1>16. spike => Leads(g, <<cannot, vanish, one, two, can>> \o <<roll>>, k)
  <2> HAVE spike
  <2>1. left = i /\ right = i + 2
    BY <1>4 DEF spike, m
  <2>2. i \in DOMAIN g
    OBVIOUS
  <2>3. i + 1 \in DOMAIN k /\ k[i + 1] = g[i]
    BY <1>1, <2>1, <2>2, SplitSlots
  <2>4. Fits(k, roll) /\ roll.op # "spawn"
    BY <1>1, <1>6, <2>3 DEF Fits, SlowOps, Straight, Aims, PlainOps
  <2> HIDE DEF h, k
  <2> QED BY <2>4, <1>14, LeadsBottom
<1> HIDE DEF h, k
<1> QED BY <1>8, <1>14, <1>15, <1>16 DEF Owed

\* What is made for each place of a list is a list.
LEMMA MappedList ==
  ASSUME NEW s, IsList(s), NEW f, DOMAIN f = DOMAIN s, f = [n \in DOMAIN s |-> f[n]]
  PROVE  IsList(f)
<1> DEFINE k == Len(s)
           X == {f[n] : n \in 1..k}
<1>1. k \in Nat /\ DOMAIN s = 1..k
  BY ListFacts
<1> HIDE DEF k
<1>2. f \in [1..k -> X]
  BY <1>1
<1> HIDE DEF X
<1> QED BY <1>1, <1>2, FunctionList

\* A rally.
LEMMA RalliedOwed ==
  ASSUME NEW ids, NEW g, NEW t, NEW w, Manned(ids, g, t, w), NEW i \in DOMAIN g
  PROVE  \A q \in Rallied(w, i) : Owed(g, q)
<1> DEFINE held(k) == \E j \in DOMAIN w.f : Up(w.f[j]) /\ w.f[j].x \in {GremlinX[k], GremlinX[k] - WizardOffset}
           free == InOrder({k \in 1..3 : ~held(k)})
           come(id, k) == Kid(id, Low, GremlinX[k] - (IF id = "GREMLIN_WIZARD" THEN WizardOffset ELSE 0), "bottom")
<1>1. \A q \in Rallied(w, i) : \E a, b : q = Summons(w, i, <<a, b>>, "among")
  <2>1. Rallied(w, i) = {Summons(w, i, <<come(a, free[1]), come(b, free[2])>>, "among") : a, b \in Called}
    BY SMT DEF Rallied, Those
  <2> HIDE DEF come, free
  <2> SUFFICES ASSUME NEW q \in Rallied(w, i) PROVE \E a, b : q = Summons(w, i, <<a, b>>, "among")
    OBVIOUS
  <2>2. PICK a \in Called, b \in Called : q = Summons(w, i, <<come(a, free[1]), come(b, free[2])>>, "among")
    BY <2>1, SMT
  <2> QED BY <2>2
<1>2. \A a, b : IsList(<<a, b>>)
  <2> TAKE a, b
  <2>1. <<a, b>> \in Seq({a, b})
    OBVIOUS
  <2> QED BY <2>1 DEF IsList
<1>3. \A a, b : Owed(g, Summons(w, i, <<a, b>>, "among"))
  BY <1>2, SummonsOwed
<1> QED BY <1>1, <1>3

\* The daggers of a Reptomancer.
LEMMA DrawnOwed ==
  ASSUME NEW ids, NEW g, NEW t, NEW w, Manned(ids, g, t, w), NEW i \in DOMAIN g
  PROVE  Owed(g, Drawn(w, i))
<1> DEFINE held(k) == \E j \in DOMAIN w.f : ~DeadOrEscaped(w.f[j]) /\ w.f[j].x = DaggerX[k]
           S == {k \in 1..4 : ~held(k)}
           free == InOrder(S)
           now == SubSeq(free, 1, IF Len(free) < 2 THEN Len(free) ELSE 2)
           kids == [n \in DOMAIN now |-> Kid("SNAKE_DAGGER", Low, DaggerX[now[n]], "top")]
<1>1. Drawn(w, i) = Summons(w, i, kids, "above")
  BY Zenon DEF Drawn, Those
<1>2. free \in Seq(S) /\ Len(free) \in Nat
  <2>1. S \in SUBSET (1..4)
    OBVIOUS
  <2> HIDE DEF S
  <2> QED BY <2>1, InOrderFacts
<1> HIDE DEF free, S
<1>3. now \in Seq(S)
  BY <1>2
<1>4. IsList(now)
  BY <1>3 DEF IsList
<1> HIDE DEF now
<1>5. DOMAIN kids = DOMAIN now /\ kids = [n \in DOMAIN now |-> kids[n]]
  OBVIOUS
<1> HIDE DEF kids
<1>6. IsList(kids)
  BY <1>4, <1>5, MappedList
<1> QED BY <1>1, <1>6, SummonsOwed

\* The torches of the Collector.
LEMMA TorchesOwed ==
  ASSUME NEW ids, NEW g, NEW t, NEW w, Manned(ids, g, t, w), NEW i \in DOMAIN g, NEW wanted
  PROVE  Owed(g, Torches(w, i, wanted))
<1> DEFINE S == {k \in 1..2 : k \in wanted}
           come == InOrder(S)
           kids == [n \in DOMAIN come |-> Kid("TORCH_HEAD", Low, TorchX[come[n]], "queued")]
<1>1. Torches(w, i, wanted) = Summons(w, i, kids, "among")
  BY Zenon DEF Torches, Those
<1>2. IsList(come)
  <2>1. S \in SUBSET (1..2)
    OBVIOUS
  <2> HIDE DEF S
  <2> QED BY <2>1, InOrderFacts
<1> HIDE DEF come
<1>3. DOMAIN kids = DOMAIN come /\ kids = [n \in DOMAIN come |-> kids[n]]
  OBVIOUS
<1> HIDE DEF kids
<1>4. IsList(kids)
  BY <1>2, <1>3, MappedList
<1> QED BY <1>1, <1>4, SummonsOwed

\* The orbs of the automaton.
LEMMA OrbsOwed ==
  ASSUME NEW ids, NEW g, NEW t, NEW w, Manned(ids, g, t, w), NEW i \in DOMAIN g
  PROVE  Owed(g, Orbs(w, i))
<1> DEFINE kids == [k \in 1..2 |-> Kid("BRONZE_ORB", Low, OrbX[k], "queued")]
           X == {kids[k] : k \in 1..2}
<1>1. Orbs(w, i) = Summons(w, i, kids, "among")
  BY Zenon DEF Orbs
<1>2. kids \in [1..2 -> X]
  OBVIOUS
<1> HIDE DEF kids, X
<1>3. IsList(kids)
  BY <1>2, FunctionList
<1> QED BY <1>1, <1>3, SummonsOwed

\* The plain items of a turn.
LEMMA ItemsStraight ==
  ASSUME NEW ids, NEW g, NEW t, NEW w, Manned(ids, g, t, w), NEW i \in DOMAIN g, NEW q, Steps(q)
  PROVE  AllStraight(g, Items(w, i, q))
<1> DEFINE r == Items(w, i, q)
           n == Len(q)
           X == {r[k] : k \in 1..n}
<1>1. IsList(q)
  BY DEF Steps, IsList
<1>2. n \in Nat /\ DOMAIN q = 1..n
  BY <1>1, ListFacts
<1>3. r = [k \in 1..n |-> Item(q[k].op, i, w.f[i].who, q[k].v, NoKid)]
  BY <1>2 DEF Items
<1>4. \A k \in 1..n : Straight(g, Item(q[k].op, i, w.f[i].who, q[k].v, NoKid))
  BY MadeStraight DEF Steps
<1> HIDE DEF r, n
<1>5. r \in [1..n -> X] /\ \A k \in 1..n : Straight(g, r[k])
  BY <1>3, <1>4
<1> HIDE DEF X
<1>6. IsList(r) /\ Len(r) = n
  BY <1>2, <1>5, FunctionList
<1> QED BY <1>5, <1>6 DEF AllStraight, r

\* A fuse.
LEMMA BurningSteps == ASSUME NEW m PROVE Steps(Burning(m))
<1>1. Steps(<<>>) /\ Steps(<<Do("slay")>>) /\ Steps(<<Do("burn")>>)
  BY PlainItems, StepsOf
<1> QED BY <1>1 DEF Burning

\* Whatever a turn lays out aims true, now or when it runs.
LEMMA LaidAims ==
  ASSUME NEW ids, NEW g, NEW t, NEW w, Manned(ids, g, t, w), NEW i \in DOMAIN g, NEW q, Owes(q)
  PROVE  \A r \in Laid(w, i, q) : AllStraight(g, r) \/ Owed(g, r)
<1> DEFINE last == {k \in 1..2 : TorchDead(w.f, TorchX[k])}
           plain == Items(w, i, q \o Burning(w.f[i]))
<1>1. (\A l \in Layouts : q # <<Do(l)>>) => AllStraight(g, plain)
  BY BurningSteps, StepsTwice, ItemsStraight DEF Owes
<1>2. Laid(w, i, q) \in {{Split(w, i)}, Rallied(w, i), {Drawn(w, i)}, {Torches(w, i, 1..2)},
                         {Torches(w, i, last)}, {Orbs(w, i)}}
      \/ ((\A l \in Layouts : q # <<Do(l)>>) /\ Laid(w, i, q) = {plain})
  <2>1. \A l \in Layouts : l = "split" \/ l = "rally" \/ l = "daggers" \/ l = "torches" \/ l = "relight" \/ l = "orbs"
    BY DEF Layouts
  <2> QED BY <2>1, Zenon DEF Laid
<1> HIDE DEF last, plain
<1> QED BY <1>1, <1>2, SplitOwed, RalliedOwed, DrawnOwed, TorchesOwed, OrbsOwed

\* The item at the head of what is owed fits, and the rest is owed after it.
LEMMA OwedHead ==
  ASSUME NEW g, NEW q, Owed(g, q), q # <<>>
  PROVE  Fits(g, Head(q)) /\ Owed(After(g, Head(q)), Tail(q))
<1>1. PICK h : Leads(g, q, h)
  BY DEF Owed
<1>2. PICK G : G[0] = g /\ G[Len(q)] = h /\ Paves(G, q)
  BY <1>1 DEF Leads
<1>3. IsList(q) /\ Len(q) \in Nat
  BY <1>1, ListFacts DEF Leads
<1> DEFINE p == Tail(q)
<1>4. /\ IsList(p) /\ Len(p) = Len(q) - 1 /\ Len(q) > 0
      /\ \A k \in 1..Len(p) : p[k] = q[k + 1]
      /\ Head(q) = q[1]
  BY <1>3, TailList
<1> DEFINE H == [k \in 0..Len(p) |-> G[k + 1]]
<1> HIDE DEF p
<1>5. Fits(g, Head(q)) /\ G[1] = After(g, Head(q))
  <2>1. 1 \in 1..Len(q) /\ 1 - 1 = 0
    BY <1>3, <1>4
  <2>2. Fits(G[1 - 1], q[1]) /\ G[1] = After(G[1 - 1], q[1])
    BY <1>2, <2>1 DEF Paves
  <2> QED BY <2>1, <2>2, <1>2, <1>4
<1>6. H[0] = G[1] /\ H[Len(p)] = h
  BY <1>2, <1>3, <1>4
<1>7. ASSUME NEW k \in 1..Len(p) PROVE Fits(H[k - 1], p[k]) /\ H[k] = After(H[k - 1], p[k])
  <2>1. k + 1 \in 1..Len(q) /\ (k + 1) - 1 = k /\ k \in 0..Len(p) /\ k - 1 \in 0..Len(p) /\ (k - 1) + 1 = k
    BY <1>3, <1>4
  <2>2. H[k] = G[k + 1] /\ H[k - 1] = G[k] /\ p[k] = q[k + 1]
    BY <2>1, <1>4
  <2> HIDE DEF H
  <2>3. Fits(G[(k + 1) - 1], q[k + 1]) /\ G[k + 1] = After(G[(k + 1) - 1], q[k + 1])
    BY <1>2, <2>1 DEF Paves
  <2> QED BY <2>1, <2>2, <2>3
<1> HIDE DEF H
<1>8. Leads(G[1], p, h)
  BY <1>4, <1>6, <1>7 DEF Leads, Paves
<1> QED BY <1>5, <1>8 DEF Owed, p

\* A turn.
LEMMA TakeTurnAims ==
  ASSUME NEW ids, NEW g, NEW t, NEW w, Manned(ids, g, t, w), w.q = <<>>, NEW i \in DOMAIN g
  PROVE  \A v \in TakeTurn(w, i) : Manned(ids, g, t, v) /\ (AllStraight(g, v.q) \/ Owed(g, v.q))
<1>1. HasName(w.f[i])
  BY MannedFacts
<1>2. TurnsOf(w.f[i], Turned(w.f, i))
  BY <1>1, TurnedIs
<1>3. \A v \in TakeTurn(w, i) : \E s \in Turned(w.f, i) : \E q \in Laid(w, i, s.q) :
        v = Bottom(With(w, i, s.m), q)
  BY DEF TakeTurn
<1>4. ASSUME NEW s \in Turned(w.f, i), NEW q \in Laid(w, i, s.q)
      PROVE  /\ Manned(ids, g, t, Bottom(With(w, i, s.m), q))
             /\ (AllStraight(g, Bottom(With(w, i, s.m), q).q) \/ Owed(g, Bottom(With(w, i, s.m), q).q))
  <2> DEFINE b == With(w, i, s.m)
             v == Bottom(b, q)
  <2>1. Same(w.f[i], s.m) /\ Owes(s.q)
    BY <1>2 DEF TurnsOf, TurnOf
  <2>2. Manned(ids, g, t, b) /\ b.q = <<>>
    BY <2>1, WithManned
  <2>3. AllStraight(g, q) \/ Owed(g, q)
    BY <2>1, LaidAims
  <2> HIDE DEF b
  <2>4. Manned(ids, g, t, v)
    BY <2>2, QueueManned
  <2>5. v = [f |-> b.f, q |-> b.q \o q, t |-> b.t, cl |-> b.cl]
    BY <2>2, QueueParts DEF Manned
  <2>6. v.q = <<>> \o q
    BY <2>2, <2>5
  <2>7. PICK X : q \in Seq(X)
    BY <2>3 DEF AllStraight, Owed, Leads, IsList
  <2>8. v.q = q
    BY <2>6, <2>7
  <2> HIDE DEF v
  <2>9. Manned(ids, g, t, v) /\ (AllStraight(g, v.q) \/ Owed(g, v.q))
    BY <2>3, <2>4, <2>8
  <2> QED BY <2>9 DEF v, b
<1> QED BY <1>3, <1>4

\* The dead keep their names.
LEMMA BuriedKeeps == ASSUME NEW m, HasName(m) PROVE Same(m, Buried(m))
<1> DEFINE none == <<"-", "-">>
           a == [m EXCEPT !.moves = none]
           b == [a EXCEPT !.on = {}]
           c == [b EXCEPT !.n = 0]
           d == [c EXCEPT !.k = 0]
<1>1. Same(m, a)
  <2> HIDE DEF none
  <2> QED BY FieldKeeps
<1> HIDE DEF a
<1>2. Same(m, b)
  BY <1>1, SameShapes
<1> HIDE DEF b
<1>3. Same(m, c)
  BY <1>2, SameShapes
<1> HIDE DEF c
<1>4. Same(m, d)
  BY <1>3, SameShapes
<1>5. [m EXCEPT !.moves = <<"-", "-">>, !.on = {}, !.n = 0, !.k = 0] = d
  BY Zenon DEF a, b, c
<1> DEFINE e == [m EXCEPT !.moves = <<"-", "-">>, !.on = {}, !.n = 0, !.k = 0]
<1> HIDE DEF d
<1>6. Same(m, e)
  BY <1>4, <1>5
<1> HIDE DEF e
<1>7. Buried(m) = e \/ Buried(m) = m
  BY Zenon DEF Buried, e
<1> QED BY <1>6, <1>7, SameAsItself

\* A step that leaves the world v.
LEMMA BecomeAims ==
  ASSUME NEW ids, NEW g, NEW t, NEW v, Manned(ids, g, t, v), Become(v)
  PROVE  Field(field') /\ Names(field') = g /\ Kinds(field') = ids /\ items' = v.q /\ turns' = t
<1> DEFINE h == [i \in DOMAIN v.f |-> Buried(v.f[i])]
<1>1. field' = h /\ items' = v.q /\ turns' = v.t
  BY DEF Become
<1>2. Field(v.f) /\ Names(v.f) = g /\ Kinds(v.f) = ids /\ v.t = t
  BY DEF Manned
<1>3. \A j \in DOMAIN v.f : HasName(v.f[j])
  BY <1>2, NamesFacts
<1>4. DOMAIN h = DOMAIN v.f /\ h = [j \in DOMAIN v.f |-> h[j]] /\ \A j \in DOMAIN v.f : Same(v.f[j], h[j])
  BY <1>3, BuriedKeeps
<1> HIDE DEF h
<1>5. Field(h) /\ Names(h) = Names(v.f) /\ Kinds(h) = Kinds(v.f)
  BY <1>2, <1>4, FieldAll
<1> QED BY <1>1, <1>2, <1>5

\* The encounter names its records in order.
LEMMA FieldsNamed == ASSUME NEW g \in Seq(STRING), NEW f \in Fields(g) PROVE Field(f)
<1> DEFINE made == [i \in DOMAIN g |-> Made(i, g[i], PlaceOf(g, i))]
           led == \E j \in DOMAIN g : g[j] \in {"GREMLIN_LEADER", "REPTOMANCER"}
           minion(i) == led /\ g[i] \notin {"GREMLIN_LEADER", "REPTOMANCER"}
           ready(i) == {IF minion(i) THEN Raise(PreBattle(m), "minion") ELSE PreBattle(m)
                          : m \in Opened(made, i, g[i])}
           X == UNION {ready(i) : i \in DOMAIN g}
           n == Len(g)
<1>1. n \in Nat /\ DOMAIN g = 1..n
  OBVIOUS
<1>2. Fields(g) = {e \in [DOMAIN g -> X] : \A i \in DOMAIN g : e[i] \in ready(i)}
  BY Zenon DEF Fields
<1>3. ASSUME NEW i \in DOMAIN g, NEW c \in ready(i) PROVE HasName(c)
  <2>1. i \in Nat /\ made[i] = Made(i, g[i], PlaceOf(g, i))
    BY <1>1
  <2>2. HasName(made[i])
    BY <2>1, MadeNamed
  <2> HIDE DEF made
  <2>3. AllSame(made[i], Opened(made, i, g[i]))
    BY <2>2, OpenedKeeps
  <2>4. PICK m \in Opened(made, i, g[i]) : c = Raise(PreBattle(m), "minion") \/ c = PreBattle(m)
    OBVIOUS
  <2>5. HasName(m)
    BY <2>3 DEF AllSame, Same
  <2>6. HasName(PreBattle(m))
    BY <2>5, PreBattleKeeps DEF Same
  <2>7. HasName(Raise(PreBattle(m), "minion"))
    BY <2>6, MoveKeeps DEF Same
  <2> QED BY <2>4, <2>6, <2>7
<1> HIDE DEF ready, X, n
<1>4. f \in [1..n -> X] /\ \A i \in 1..n : HasName(f[i])
  BY <1>1, <1>2, <1>3
<1>5. IsList(f) /\ Len(f) = n
  BY <1>1, <1>4, FunctionList
<1> QED BY <1>4, <1>5 DEF Field

(***************************************************************************)
(* The theorem.                                                            *)
(***************************************************************************)
\* Turns aim at the records they are due to.  Items do too, or, on the
\* monsters' turn, each will when the ones before it have run.
Aimed ==
  /\ Field(field)
  /\ TurnsAim(Names(field), turns)
  /\ \/ AllStraight(Names(field), items)
     \/ phase = "monsters" /\ Owed(Names(field), items)

\* An encounter begins with nothing queued.
LEMMA InitAims == ASSUME Init PROVE Aimed
<1>1. PICK g \in Groups : field \in Fields(g)
  BY DEF Init
<1>2. Field(field)
  BY <1>1, GroupsAssumption, FieldsNamed
<1>3. AllStraight(Names(field), items)
  BY StraightNone DEF Init
<1>4. TurnsAim(Names(field), turns)
  <2>1. turns = <<>> /\ IsList(<<>>) /\ Len(<<>>) = 0
    BY OneList DEF Init
  <2>2. 1..0 = {}
    OBVIOUS
  <2> QED BY <2>1, <2>2 DEF TurnsAim
<1> QED BY <1>2, <1>3, <1>4 DEF Aimed

\* The world of an aimed state.
LEMMA WorldManned ==
  ASSUME Aimed, NEW q, NEW t
  PROVE  /\ Manned(Kinds(field), Names(field), turns, World) /\ World.f = field /\ World.q = items
         /\ Manned(Kinds(field), Names(field), turns, [World EXCEPT !.q = q]) /\ [World EXCEPT !.q = q].q = q
         /\ Manned(Kinds(field), Names(field), t, [World EXCEPT !.t = t]) /\ [World EXCEPT !.t = t].q = items
<1>1. Field(field)
  BY DEF Aimed
<1>2. World = [f |-> field, q |-> items, t |-> turns, cl |-> cannotLose]
  BY DEF World
<1>3. /\ [World EXCEPT !.q = q] = [f |-> field, q |-> q, t |-> turns, cl |-> cannotLose]
      /\ [World EXCEPT !.t = t] = [f |-> field, q |-> items, t |-> t, cl |-> cannotLose]
  BY <1>2
<1> QED BY <1>1, <1>2, <1>3 DEF Manned, Shape

\* A blow of the player: only plain items wait while he acts.
LEMMA StrikeAims == ASSUME Aimed, NEW i \in DOMAIN field, Strike(i) PROVE Aimed'
<1> DEFINE g == Names(field)
<1>1. Manned(Kinds(field), g, turns, World) /\ World.q = items /\ DOMAIN g = DOMAIN field
  BY WorldManned, NamesFacts DEF Aimed
<1>2. AllStraight(g, items)
  BY DEF Aimed, Strike
<1>3. Calm(Kinds(field), g, turns, World)
  BY <1>1, <1>2 DEF Calm
<1>4. PICK w \in Blows(World, i, FALSE) : Become(w)
  BY DEF Strike
<1>5. Calm(Kinds(field), g, turns, w)
  <2>1. \A b : \A v \in Blows(World, i, b) : Calm(Kinds(field), g, turns, v)
    BY <1>1, <1>3, BlowsCalm
  <2> QED BY <2>1, <1>4
<1>6. Field(field') /\ Names(field') = g /\ items' = w.q /\ turns' = turns
  BY <1>4, <1>5, BecomeAims DEF Calm
<1> QED BY <1>5, <1>6 DEF Aimed, Calm

\* One item.
LEMMA RunItemAims == ASSUME Aimed, RunItem PROVE Aimed'
<1> DEFINE g == Names(field)
           it == Head(items)
           rest == Tail(items)
           w == [World EXCEPT !.q = rest]
<1>1. Manned(Kinds(field), g, turns, w) /\ w.q = rest
  <2> HIDE DEF rest
  <2> QED BY WorldManned
<1>2. items # <<>> /\ phase' = phase
  BY DEF RunItem
<1>3. w = [World EXCEPT !.q = Tail(@)]
  BY DEF World
<1>4. PICK v \in Executed(w, it) : Become(v)
  BY <1>3 DEF RunItem
<1> HIDE DEF w, it, rest
<1>5. CASE AllStraight(g, items)
  <2>1. AllStraight(g, rest) /\ Straight(g, it)
    BY <1>2, <1>5, StraightTail DEF rest, it
  <2>2. Calm(Kinds(field), g, turns, v)
    BY <1>1, <1>4, <2>1, ExecutedCalm DEF Calm
  <2>3. Field(field') /\ Names(field') = g /\ items' = v.q /\ turns' = turns
    BY <1>4, <2>2, BecomeAims DEF Calm
  <2> QED BY <2>2, <2>3 DEF Aimed, Calm
<1>6. CASE phase = "monsters" /\ Owed(g, items)
  <2>1. Fits(g, it) /\ Owed(After(g, it), rest)
    BY <1>2, <1>6, OwedHead DEF rest, it
  <2>2. CASE it.op # "spawn"
    <3>1. Manned(Kinds(field), g, turns, v) /\ v.q = rest
      BY <1>1, <1>4, <2>1, <2>2, SlowExecuted
    <3>2. Owed(g, rest)
      BY <2>1, <2>2 DEF After
    <3>3. Field(field') /\ Names(field') = g /\ items' = v.q /\ turns' = turns
      BY <1>4, <3>1, BecomeAims
    <3> QED BY <1>2, <1>6, <3>1, <3>2, <3>3 DEF Aimed
  <2>3. CASE it.op = "spawn"
    <3>1. it.at \in Nat \ {0} /\ Owed(Grown(g, it.at), w.q)
      BY <1>1, <2>1, <2>3 DEF Fits, After
    <3>2. Executed(w, it) = Spawned(w, it)
      BY <2>3, Zenon DEF Executed
    <3>3. TurnsAim(g, turns)
      BY DEF Aimed
    <3> HIDE DEF g
    <3>4. PICK ks, u : /\ Manned(ks, Grown(g, it.at), u, v) /\ TurnsAim(Grown(g, it.at), u)
                   /\ Owed(Grown(g, it.at), v.q)
      BY <1>1, <1>4, <3>1, <3>2, <3>3, SpawnedAims
    <3>5. Field(field') /\ Names(field') = Grown(g, it.at) /\ items' = v.q /\ turns' = u
      BY <1>4, <3>4, BecomeAims
    <3> QED BY <1>2, <1>6, <3>4, <3>5 DEF Aimed
  <2> QED BY <2>2, <2>3
<1> QED BY <1>5, <1>6 DEF Aimed

\* The player's turn ends: each turn is due to the record at its slot.
LEMMA EndTurnAims == ASSUME Aimed, EndTurn PROVE Aimed'
<1> DEFINE S == {j \in DOMAIN field : ~BasicallyDead(field[j])}
           up == InOrder(S)
           n == Len(up)
           g == Names(field)
<1>1. Field(field) /\ field' = field /\ items' = items /\ items = <<>>
  BY DEF Aimed, EndTurn
<1>2. up \in Seq(S) /\ IsList(up) /\ Len(up) \in Nat /\ \A k \in 1..Len(up) : up[k] \in S
  <2>1. S \in SUBSET DOMAIN field
    OBVIOUS
  <2> HIDE DEF S
  <2> QED BY <1>1, <2>1, WhereFacts
<1>3. turns' = [k \in DOMAIN up |-> [at |-> up[k], who |-> field[up[k]].who]]
  BY Zenon DEF EndTurn, Where
<1>4. DOMAIN up = 1..n
  BY <1>2
<1>5. \A k \in 1..n : up[k] \in DOMAIN g /\ g[up[k]] = field[up[k]].who
  BY <1>1, <1>2, NamesFacts
<1> HIDE DEF up, n, g
<1> DEFINE t == turns'
           X == {t[k] : k \in 1..n}
<1>6. t = [k \in 1..n |-> [at |-> up[k], who |-> field[up[k]].who]]
  BY <1>3, <1>4
<1>7. \A k \in 1..n : Due(t[k]) /\ Aims(g, t[k])
  BY <1>5, <1>6 DEF Due, Aims
<1>8. t \in [1..n -> X]
  BY <1>6
<1>9. IsList(t) /\ Len(t) = n
  <2> HIDE DEF t, X
  <2> QED BY <1>2, <1>8, FunctionList DEF n
<1>10. TurnsAim(g, t)
  BY <1>7, <1>9 DEF TurnsAim
<1>11. AllStraight(g, <<>>)
  BY StraightNone
<1> QED BY <1>1, <1>10, <1>11 DEF Aimed, g

\* The next turn.
LEMMA NextTurnAims == ASSUME Aimed, NextTurn PROVE Aimed'
<1> DEFINE g == Names(field)
           i == Head(turns).at
           rest == Tail(turns)
           w == [World EXCEPT !.t = rest]
<1>1. items = <<>> /\ turns # <<>> /\ phase = "monsters" /\ phase' = "monsters"
  BY DEF NextTurn
<1>2. Manned(Kinds(field), g, rest, w) /\ w.q = <<>>
  <2> HIDE DEF rest
  <2> QED BY <1>1, WorldManned
<1>3. TurnsAim(g, turns)
  BY DEF Aimed
<1>4. /\ IsList(rest) /\ Len(rest) = Len(turns) - 1 /\ Len(turns) > 0
      /\ \A k \in 1..Len(rest) : rest[k] = turns[k + 1]
      /\ Head(turns) = turns[1] /\ Len(turns) \in Nat
  BY <1>1, <1>3, TailList, ListFacts DEF TurnsAim
<1>5. i \in DOMAIN g
  <2>1. 1 \in 1..Len(turns)
    BY <1>4
  <2> QED BY <2>1, <1>3, <1>4 DEF TurnsAim, Aims
<1>6. TurnsAim(g, rest)
  <2>1. \A k \in 1..Len(rest) : k + 1 \in 1..Len(turns)
    BY <1>4
  <2> HIDE DEF rest, g
  <2> QED BY <2>1, <1>3, <1>4 DEF TurnsAim
<1>7. w = [World EXCEPT !.t = Tail(@)]
  BY DEF World
<1>8. PICK v \in IF BasicallyDead(field[i]) THEN {w} ELSE TakeTurn(w, i) : Become(v)
  BY <1>7, Zenon DEF NextTurn
<1> HIDE DEF w, rest, i
<1>9. Manned(Kinds(field), g, rest, v) /\ (AllStraight(g, v.q) \/ Owed(g, v.q))
  <2>1. AllStraight(g, <<>>)
    BY StraightNone
  <2>2. \A u \in TakeTurn(w, i) : Manned(Kinds(field), g, rest, u) /\ (AllStraight(g, u.q) \/ Owed(g, u.q))
    BY <1>2, <1>5, TakeTurnAims
  <2> QED BY <1>2, <1>8, <2>1, <2>2
<1>10. Field(field') /\ Names(field') = g /\ items' = v.q /\ turns' = rest
  BY <1>8, <1>9, BecomeAims
<1> QED BY <1>1, <1>6, <1>9, <1>10 DEF Aimed

\* The round and the fight end.
LEMMA RestAims == ASSUME Aimed, EndRound \/ Over \/ UNCHANGED vars PROVE Aimed'
<1>1. CASE EndRound
  <2>1. AllStraight(Names(field), <<>>)
    BY StraightNone
  <2> QED BY <1>1, <2>1 DEF EndRound, Aimed
<1>2. CASE Over
  <2>1. AllStraight(Names(field), <<>>)
    BY StraightNone
  <2>2. IsList(<<>>) /\ Len(<<>>) = 0
    BY OneList
  <2>3. TurnsAim(Names(field), <<>>)
    <3>1. 1..0 = {}
      OBVIOUS
    <3> QED BY <2>2, <3>1 DEF TurnsAim
  <2> QED BY <1>2, <2>1, <2>3 DEF Over, Aimed
<1>3. CASE UNCHANGED vars
  BY <1>3 DEF vars, Aimed
<1> QED BY <1>1, <1>2, <1>3

\* Every step.
LEMMA NextAims == ASSUME Aimed, [Next]_vars PROVE Aimed'
  BY StrikeAims, RunItemAims, EndTurnAims, NextTurnAims, RestAims DEF Next

\* The invariant says what is claimed.
LEMMA AimedIsTrue == ASSUME Aimed PROVE AimIsTrue
<1> DEFINE g == Names(field)
<1>1. Field(field) /\ DOMAIN g = DOMAIN field /\ \A j \in DOMAIN field : g[j] = field[j].who
  BY NamesFacts DEF Aimed
<1>2. ASSUME items # <<>>, Head(items).op \notin {"spawn", "cannot", "can"}
      PROVE  Aims(g, Head(items))
  <2>1. CASE AllStraight(g, items)
    <3>1. Straight(g, Head(items))
      BY <1>2, <2>1, StraightTail
    <3> QED BY <1>2, <3>1 DEF Straight
  <2>2. CASE Owed(g, items)
    <3>1. Fits(g, Head(items))
      BY <1>2, <2>2, OwedHead
    <3> QED BY <1>2, <3>1 DEF Fits, Straight
  <2> QED BY <2>1, <2>2 DEF Aimed
<1>3. ASSUME turns # <<>> PROVE Aims(g, Head(turns))
  <2>1. TurnsAim(g, turns)
    BY DEF Aimed
  <2>2. Head(turns) = turns[1] /\ Len(turns) > 0 /\ Len(turns) \in Nat
    BY <1>3, <2>1, TailList, ListFacts DEF TurnsAim
  <2>3. 1 \in 1..Len(turns)
    BY <2>2
  <2> QED BY <2>1, <2>2, <2>3 DEF TurnsAim
<1> QED BY <1>1, <1>2, <1>3 DEF AimIsTrue, Aims

\* However monsters split, are summoned, die and flee, the next item and the next
\* turn name the record they were queued for (spawn_monster_at_slot moves slots
\* under both), for every set of encounters and every bound.
THEOREM AimTrue == Spec => []AimIsTrue
<1>1. Init => Aimed
  BY InitAims
<1>2. Aimed /\ [Next]_vars => Aimed'
  BY NextAims
<1>3. Aimed => AimIsTrue
  BY AimedIsTrue
<1> QED BY <1>1, <1>2, <1>3, PTL DEF Spec

(***************************************************************************)
(* Minions and their leaders.                                              *)
(***************************************************************************)
\* The leaders and their minions; what leaves a record of theirs as it lives.
Troupe == Leaders \cup Minions

Kept(m, c) == /\ Same(m, c) /\ c.hp = m.hp
              /\ (Escaped(c) <=> Escaped(m)) /\ (Half(c) => Half(m))
AllKept(m, S) == \A c \in S : Kept(m, c)

\* What leaves a record as it lives.
LEMMA KeptShapes ==
  ASSUME NEW m, HasName(m), NEW v
  PROVE  /\ Kept(m, m) /\ Kept(m, Move(m, v)) /\ Kept(m, [m EXCEPT !.n = v])
         /\ v \notin {"half", "escaped"} => Kept(m, Raise(m, v))
<1>1. Same(m, m) /\ Same(m, Move(m, v)) /\ Same(m, Raise(m, v)) /\ Same(m, [m EXCEPT !.n = v])
  BY SameAsItself, MoveKeeps, FieldKeeps
<1>2. /\ Move(m, v).hp = m.hp /\ Raise(m, v).hp = m.hp /\ [m EXCEPT !.n = v].hp = m.hp
      /\ Move(m, v).on = m.on /\ [m EXCEPT !.n = v].on = m.on /\ Raise(m, v).on = m.on \cup {v}
  BY DEF Move, Raise, HasName
<1> QED BY <1>1, <1>2 DEF Kept, Escaped, Half

\* Twice.
LEMMA KeptTwice ==
  ASSUME NEW m, NEW c, NEW d, Kept(m, c), Kept(c, d) PROVE Kept(m, d)
  BY SameTwice DEF Kept

\* A choice of moves.
LEMMA AnyOfKept ==
  ASSUME NEW m, NEW c, Kept(m, c), NEW S PROVE AllKept(m, AnyOf(c, S))
<1>1. HasName(c)
  BY DEF Kept, Same
<1>2. \A v : Kept(c, Move(c, v))
  BY <1>1, KeptShapes
<1> QED BY <1>2, KeptTwice DEF AllKept, AnyOf

\* A leader or a minion that chooses.
LEMMA TroupeChosen ==
  ASSUME NEW f, NEW i, HasName(f[i]), f[i].id \in Troupe PROVE AllKept(f[i], Chosen(f, i))
<1> DEFINE m == f[i]
<1>1. \A v : Kept(m, m) /\ Kept(m, Raise(m, "stasis")) /\ Kept(m, [m EXCEPT !.n = v])
  BY KeptShapes
<1>2. \A S : /\ AllKept(m, AnyOf(m, S)) /\ AllKept(m, AnyOf(Raise(m, "stasis"), S))
             /\ \A v : AllKept(m, AnyOf([m EXCEPT !.n = v], S))
  BY <1>1, AnyOfKept
<1>3. PICK a, b, c :
        Chosen(f, i) \in {AnyOf(m, {"BLUNT"}), GremlinLeaderNext(m, a), BronzeAutomatonNext(m), BronzeOrbNext(m),
                          CollectorNext(m, b), ReptomancerNext(m, c), SnakeDaggerNext(m), {m}}
  <2>1. m.id \in {"GREMLIN_LEADER", "THE_COLLECTOR", "BRONZE_AUTOMATON", "REPTOMANCER", "GREMLIN_WARRIOR",
                  "GREMLIN_THIEF", "GREMLIN_FAT", "GREMLIN_TSUNDERE", "GREMLIN_WIZARD", "SNAKE_DAGGER",
                  "TORCH_HEAD", "BRONZE_ORB"}
    BY DEF Troupe, Leaders, Minions, Gremlins
  <2> QED BY <2>1 DEF Chosen, CityChosen, BeyondChosen
<1>4. AllKept(m, {m}) /\ AllKept(m, {})
  BY <1>1 DEF AllKept
<1>5. AllKept(m, BronzeOrbNext(m))
  BY <1>2, <1>4, Zenon DEF BronzeOrbNext, AllKept
<1>6. AllKept(m, BronzeAutomatonNext(m))
  BY <1>2 DEF BronzeAutomatonNext
<1>7. \A a1 : AllKept(m, GremlinLeaderNext(m, a1)) /\ AllKept(m, CollectorNext(m, a1))
              /\ AllKept(m, ReptomancerNext(m, a1)) /\ AllKept(m, SnakeDaggerNext(m))
  BY <1>2, Zenon DEF GremlinLeaderNext, CollectorNext, ReptomancerNext, SnakeDaggerNext
<1> HIDE DEF m
<1> QED BY <1>2, <1>3, <1>4, <1>5, <1>6, <1>7 DEF m

\* Two in a row, and two sets.
LEMMA KeptAgain ==
  ASSUME NEW m, NEW c, Kept(m, c), NEW v
  PROVE  /\ HasName(c) /\ Kept(m, Move(c, v)) /\ Kept(m, [c EXCEPT !.n = v])
         /\ v \notin {"half", "escaped"} => Kept(m, Raise(c, v))
<1>1. HasName(c)
  BY DEF Kept, Same
<1>2. /\ Kept(c, Move(c, v)) /\ Kept(c, [c EXCEPT !.n = v])
      /\ v \notin {"half", "escaped"} => Kept(c, Raise(c, v))
  BY <1>1, KeptShapes
<1> QED BY <1>1, <1>2, KeptTwice

\* The items of a turn of theirs: blows and moves, or a summons.
CourtOps == {"hit", "roll", "set", "spend"}
Courtly(q) == \/ IsList(q) /\ \A k \in 1..Len(q) : q[k].op \in CourtOps
              \/ \E l \in Layouts \ {"split"} : q = <<Do(l)>>

\* The sequences of their turns.
LEMMA CourtlyTurns ==
  /\ Courtly(<<>>) /\ Courtly(<<Hit>>) /\ Courtly(<<Roll>>) /\ Courtly(<<Hit, Do("spend"), Roll>>)
  /\ \A v : Courtly(<<Set(v)>>)
  /\ Courtly(<<Do("rally")>>) /\ Courtly(<<Do("orbs")>>) /\ Courtly(<<Do("torches")>>)
  /\ Courtly(<<Do("relight")>>) /\ Courtly(<<Do("daggers")>>)
  /\ \A m, v : Courtly(MoveEffects(m) \o <<Set(v)>>) /\ Courtly(MoveEffects(m) \o <<Roll>>)
<1>1. \A q : IsList(q) /\ (\A k \in 1..Len(q) : q[k].op \in CourtOps) => Courtly(q)
  BY DEF Courtly
<1>2. Hit.op \in CourtOps /\ Roll.op \in CourtOps /\ Do("spend").op \in CourtOps /\ \A v : Set(v).op \in CourtOps
  BY DEF Hit, Roll, Do, Set, CourtOps
<1>3. IsList(<<>>) /\ Len(<<>>) = 0 /\ 1..0 = {} /\ 1..1 = {1} /\ 1..2 = {1, 2} /\ 1..3 = {1, 2, 3}
  <2>1. 1..0 = {} /\ 1..1 = {1} /\ 1..2 = {1, 2} /\ 1..3 = {1, 2, 3}
    OBVIOUS
  <2> QED BY <2>1, OneList
<1>4. Courtly(<<>>)
  BY <1>1, <1>3
<1>5. \A a : a.op \in CourtOps => Courtly(<<a>>)
  BY <1>1, <1>3, OneList
<1>6. \A a, b : a.op \in CourtOps /\ b.op \in CourtOps => Courtly(<<a, b>>)
  <2> TAKE a, b
  <2>1. <<a, b>> \in Seq({a, b}) /\ Len(<<a, b>>) = 2 /\ <<a, b>>[1] = a /\ <<a, b>>[2] = b
    OBVIOUS
  <2> QED BY <2>1, <1>1, <1>3 DEF IsList
<1>7. Courtly(<<Hit, Do("spend"), Roll>>)
  <2> DEFINE q == <<Hit, Do("spend"), Roll>>
  <2>1. q \in Seq({Hit, Do("spend"), Roll}) /\ Len(q) = 3 /\ q[1] = Hit /\ q[2] = Do("spend") /\ q[3] = Roll
    OBVIOUS
  <2> HIDE DEF q
  <2>2. Courtly(q)
    BY <2>1, <1>1, <1>2, <1>3 DEF IsList
  <2> QED BY <2>2 DEF q
<1>8. Courtly(<<Hit>>) /\ Courtly(<<Roll>>) /\ \A v : Courtly(<<Set(v)>>) /\ Courtly(<<Hit, Set(v)>>)
      /\ Courtly(<<Hit, Roll>>)
  BY <1>2, <1>5, <1>6
<1>9. \A a : <<>> \o <<a>> = <<a>> /\ <<Hit>> \o <<a>> = <<Hit, a>>
  <2> TAKE a
  <2>1. <<>> \o <<a>> = <<a>>
    <3>1. <<a>> \in Seq({a})
      OBVIOUS
    <3> QED BY <3>1
  <2>2. \A h : <<h>> \o <<a>> = <<h, a>>
    <3> TAKE h
    <3>1. <<h>> \in Seq({h, a}) /\ <<a>> \in Seq({h, a}) /\ <<h, a>> \in Seq({h, a})
      OBVIOUS
    <3>2. Len(<<h>> \o <<a>>) = 2 /\ (<<h>> \o <<a>>)[1] = h /\ (<<h>> \o <<a>>)[2] = a
      BY <3>1
    <3>3. <<h>> \o <<a>> \in Seq({h, a}) /\ Len(<<h, a>>) = 2 /\ <<h, a>>[1] = h /\ <<h, a>>[2] = a
      BY <3>1
    <3> DEFINE p == <<h>> \o <<a>>
               q == <<h, a>>
    <3>4. \A S : \A r, s \in Seq(S) : Len(r) = 2 /\ Len(s) = 2 /\ r[1] = s[1] /\ r[2] = s[2] => r = s
      OBVIOUS
    <3>5. p \in Seq({h, a}) /\ q \in Seq({h, a}) /\ Len(p) = 2 /\ Len(q) = 2 /\ p[1] = q[1] /\ p[2] = q[2]
      BY <3>1, <3>2, <3>3
    <3> HIDE DEF p, q
    <3>6. p = q
      BY <3>4, <3>5
    <3> QED BY <3>6 DEF p, q
  <2> QED BY <2>1, <2>2
<1>10. \A m, v : Courtly(MoveEffects(m) \o <<Set(v)>>) /\ Courtly(MoveEffects(m) \o <<Roll>>)
  <2> TAKE m, v
  <2>1. MoveEffects(m) = <<>> \/ MoveEffects(m) = <<Hit>>
    BY DEF MoveEffects
  <2> QED BY <2>1, <1>8, <1>9
<1>11. \A l \in Layouts \ {"split"} : Courtly(<<Do(l)>>)
  BY DEF Courtly
<1>12. {"rally", "orbs", "torches", "relight", "daggers"} \subseteq Layouts \ {"split"}
  BY DEF Layouts
<1> QED BY <1>4, <1>7, <1>8, <1>10, <1>11, <1>12

\* A turn that leaves the record c, as it lives.
Staid(m, T) == \A s \in T : Kept(m, s.m) /\ Courtly(s.q)

\* One way to take it.
LEMMA StaidTurn ==
  ASSUME NEW m, NEW c, Kept(m, c), NEW q, Courtly(q) PROVE Staid(m, Turn(c, q))
  BY DEF Staid, Turn

\* Their turns.
LEMMA TroupeTurned ==
  ASSUME NEW f, NEW i, HasName(f[i]), f[i].id \in Troupe PROVE Staid(f[i], Turned(f, i))
<1> DEFINE m == f[i]
<1>1. \A v, u : Kept(m, m) /\ Kept(m, [m EXCEPT !.n = v]) /\ Kept(m, Move(m, v))
                /\ Kept(m, Move([m EXCEPT !.n = v], u))
  BY KeptShapes, KeptAgain
<1>2. \A v : /\ Kept(m, Raise([m EXCEPT !.n = v], "spawned")) /\ Kept(m, Raise([m EXCEPT !.n = v], "ult"))
  BY <1>1, KeptAgain
<1>3. PICK a :
        Turned(f, i) \in {RepeatingTurn(m), TsundereTurn(m, a), WizardTurn(m), GremlinLeaderTurn(m),
                          BronzeAutomatonTurn(m), CollectorTurn(m), ReptomancerTurn(m), SnakeDaggerTurn(m),
                          PlainTurn(m)}
  <2>1. m.id \in {"GREMLIN_LEADER", "THE_COLLECTOR", "BRONZE_AUTOMATON", "REPTOMANCER", "GREMLIN_WARRIOR",
                  "GREMLIN_THIEF", "GREMLIN_FAT", "GREMLIN_TSUNDERE", "GREMLIN_WIZARD", "SNAKE_DAGGER",
                  "TORCH_HEAD", "BRONZE_ORB"}
    BY DEF Troupe, Leaders, Minions, Gremlins
  <2> QED BY <2>1 DEF Turned, RollAtOnce, Large
<1>4. Staid(m, PlainTurn(m)) /\ Staid(m, RepeatingTurn(m))
  BY <1>1, CourtlyTurns, StaidTurn DEF PlainTurn, RepeatingTurn
<1>5. Staid(m, GremlinLeaderTurn(m)) /\ Staid(m, BronzeAutomatonTurn(m)) /\ Staid(m, ReptomancerTurn(m))
      /\ Staid(m, SnakeDaggerTurn(m))
  BY <1>1, <1>4, CourtlyTurns, StaidTurn
     DEF GremlinLeaderTurn, BronzeAutomatonTurn, ReptomancerTurn, SnakeDaggerTurn
<1>6. Staid(m, TsundereTurn(m, a))
  <2>1. AllKept(m, TsundereNext(m, a))
    BY <1>1, AnyOfKept DEF TsundereNext
  <2> DEFINE S == TsundereNext(m, a)
             none == <<>>
  <2>2. Staid(m, {[m |-> c, q |-> none] : c \in S})
    <3>1. Courtly(none)
      BY CourtlyTurns
    <3> HIDE DEF S, none
    <3> QED BY <2>1, <3>1 DEF S, AllKept, Staid
  <2> QED BY <2>2, <1>4, Zenon DEF TsundereTurn
<1>7. Staid(m, WizardTurn(m))
  BY <1>1, CourtlyTurns, StaidTurn DEF WizardTurn
<1>8. Staid(m, CollectorTurn(m))
  <2> DEFINE v == IF m.n < 3 THEN m.n + 1 ELSE m.n
             later == [m EXCEPT !.n = v]
  <2>1. Kept(m, later) /\ Kept(m, Raise(later, "spawned")) /\ Kept(m, Raise(later, "ult"))
    BY <1>1, <1>2
  <2>2. CollectorTurn(m) \in
          {Turn(Raise(later, "spawned"), <<Do("torches")>>), Turn(later, <<Do("relight")>>),
           Turn(Raise(later, "ult"), <<Roll>>), Turn(later, MoveEffects(m) \o <<Roll>>)}
    BY Zenon DEF CollectorTurn
  <2>3. /\ Staid(m, Turn(Raise(later, "spawned"), <<Do("torches")>>))
        /\ Staid(m, Turn(later, <<Do("relight")>>))
        /\ Staid(m, Turn(Raise(later, "ult"), <<Roll>>))
        /\ Staid(m, Turn(later, MoveEffects(m) \o <<Roll>>))
    <3> HIDE DEF later
    <3> QED BY <2>1, CourtlyTurns, StaidTurn
  <2> HIDE DEF later
  <2> QED BY <2>2, <2>3
<1> HIDE DEF m
<1> QED BY <1>3, <1>4, <1>5, <1>6, <1>7, <1>8 DEF m

-----------------------------------------------------------------------------
\* A queue of items with these operations, whose spawns make only these kinds.
Allowed(a, O, K) == a.op \in O /\ (a.op = "spawn" => a.kid.id \in K /\ a.kid.hp \in Nat)
Brings(q, O, K) == IsList(q) /\ \A k \in 1..Len(q) : Allowed(q[k], O, K)

\* None, and one.
LEMMA BringsFew ==
  ASSUME NEW O, NEW K
  PROVE  Brings(<<>>, O, K) /\ \A a : Allowed(a, O, K) => Brings(<<a>>, O, K)
<1>1. 1..0 = {} /\ 1..1 = {1}
  OBVIOUS
<1> QED BY <1>1, OneList DEF Brings

\* Two queues are one.
LEMMA BringsJoined ==
  ASSUME NEW O, NEW K, NEW p, NEW q, Brings(p, O, K), Brings(q, O, K)
  PROVE  Brings(p \o q, O, K)
<1>1. IsList(p) /\ IsList(q) /\ Len(p) \in Nat /\ Len(q) \in Nat
  BY ListFacts DEF Brings
<1> DEFINE r == p \o q
<1>2. /\ IsList(r) /\ Len(r) = Len(p) + Len(q)
      /\ \A k \in 1..Len(p) : r[k] = p[k]
      /\ \A k \in 1..Len(q) : r[Len(p) + k] = q[k]
  BY <1>1, Joined
<1> HIDE DEF r
<1>3. ASSUME NEW k \in 1..Len(r) PROVE Allowed(r[k], O, K)
  <2>1. CASE k <= Len(p)
    <3>1. k \in 1..Len(p)
      BY <2>1, <1>1, <1>2
    <3> QED BY <3>1, <1>2 DEF Brings
  <2>2. CASE ~(k <= Len(p))
    <3>1. k - Len(p) \in 1..Len(q) /\ Len(p) + (k - Len(p)) = k
      BY <2>2, <1>1, <1>2
    <3> QED BY <3>1, <1>2 DEF Brings
  <2> QED BY <2>1, <2>2
<1>4. Brings(r, O, K)
  BY <1>2, <1>3 DEF Brings
<1> QED BY <1>4 DEF r

\* The head is allowed, and so is the rest.
LEMMA BringsTail ==
  ASSUME NEW O, NEW K, NEW q, Brings(q, O, K), q # <<>>
  PROVE  Allowed(Head(q), O, K) /\ Brings(Tail(q), O, K)
<1>1. IsList(q) /\ Len(q) \in Nat
  BY ListFacts DEF Brings
<1> DEFINE p == Tail(q)
<1>2. /\ IsList(p) /\ Len(p) = Len(q) - 1 /\ Len(q) > 0
      /\ \A k \in 1..Len(p) : p[k] = q[k + 1]
      /\ Head(q) = q[1]
  BY <1>1, TailList
<1> HIDE DEF p
<1>3. 1 \in 1..Len(q) /\ \A k \in 1..Len(p) : k + 1 \in 1..Len(q)
  BY <1>1, <1>2
<1> QED BY <1>2, <1>3 DEF Brings, p

\* More may be allowed.
LEMMA BringsMore ==
  ASSUME NEW O, NEW K, NEW P, NEW J, O \subseteq P, K \subseteq J, NEW q, Brings(q, O, K)
  PROVE  Brings(q, P, J)
  BY DEF Brings, Allowed

\* Items that aim true make nobody.
LEMMA StraightBrings ==
  ASSUME NEW g, NEW q, AllStraight(g, q), NEW O, NEW K, NEW J
  PROVE  Brings(q, PlainOps \cup {"spawn"}, K) /\ (Brings(q, O, K) => Brings(q, O \ {"spawn"}, J))
<1>1. "spawn" \notin PlainOps
  BY DEF PlainOps
<1>2. IsList(q) /\ \A k \in 1..Len(q) : q[k].op \in PlainOps
  BY DEF AllStraight, Straight
<1> QED BY <1>1, <1>2 DEF Brings, Allowed

\* The items for the records a summons brings.
Calls == {"spawn", "minion"}
CallGood(p, n, plan) == Brings(plan.q, Calls, p.kinds)
CallFold == INSTANCE FoldFacts WITH Op <- PlanOp, Good <- CallGood

\* A plan is the same fold, whatever it keeps.
LEMMA PlannedIsCall ==
  ASSUME NEW p, NEW kids
  PROVE  Planned(p.w, p.i, kids, p.rule) = CallFold!Folded(p, PlanStart(p.w, p.i), kids)
  BY Zenon DEF CallFold!Folded, Planned, PlanOp, PlanStart, CallFold!MapThenFoldSet, FoldLeft,
               MapThenFoldSet, CallFold!Greatest, Max

\* A spawn and its MINION.
LEMMA OrderedBrings ==
  ASSUME NEW w, NEW i, NEW at, NEW kid, NEW name, NEW K, kid.id \in K, kid.hp \in Nat
  PROVE  Brings(Ordered(w, i, at, kid, name), Calls, K)
<1> DEFINE it == SpawnItem(w, i, at, kid)
           min == Item("minion", at, name, "-", NoKid)
<1>1. it.op = "spawn" /\ it.kid = kid /\ min.op = "minion"
  BY ItemFields DEF SpawnItem
<1>2. Ordered(w, i, at, kid, name) \in {<<it>> \o <<min>>, <<it>> \o <<>>}
  BY Zenon DEF Ordered
<1> HIDE DEF it, min
<1>3. Allowed(it, Calls, K) /\ Allowed(min, Calls, K)
  BY <1>1 DEF Allowed, Calls
<1>4. Brings(<<it>>, Calls, K) /\ Brings(<<min>>, Calls, K) /\ Brings(<<>>, Calls, K)
  BY <1>3, BringsFew
<1>5. Brings(<<it>> \o <<min>>, Calls, K) /\ Brings(<<it>> \o <<>>, Calls, K)
  BY <1>4, BringsJoined
<1> QED BY <1>2, <1>5

\* The items of a summons: spawns of these kinds, their MINIONs, and a roll.
SummonOps == {"spawn", "minion", "roll"}

\* A summons lays out those, and nothing else.
LEMMA SummonsBrings ==
  ASSUME NEW w, NEW i, NEW kids, IsList(kids), NEW rule, NEW K, \A k \in 1..Len(kids) : kids[k].id \in K /\ kids[k].hp \in Nat
  PROVE  Brings(Summons(w, i, kids, rule), SummonOps, K)
<1> DEFINE p == [w |-> w, i |-> i, rule |-> rule, kinds |-> K]
           start == PlanStart(w, i)
           plan == Planned(w, i, kids, rule)
           roll == Item("roll", plan.boss, w.f[i].who, "-", NoKid)
<1>1. p.w = w /\ p.i = i /\ p.rule = rule /\ p.kinds = K
  OBVIOUS
<1> HIDE DEF p
<1>2. CallGood(p, 0, start)
  <2>1. start.q = <<>>
    BY DEF PlanStart
  <2> QED BY <2>1, <1>1, BringsFew DEF CallGood
<1>3. PICK X : kids \in Seq(X)
  BY DEF IsList
<1>4. ASSUME NEW k \in 1..Len(kids), NEW a, CallGood(p, k - 1, a)
      PROVE  CallGood(p, k, PlanOp(p, a, kids[k]))
  <2> DEFINE pos == Place(p.rule, a.xs, kids[k].x)
             more == Ordered(p.w, p.i, pos, kids[k], Len(a.xs) + 1)
  <2>1. PlanOp(p, a, kids[k]).q = a.q \o more
    BY DEF PlanOp
  <2>2. kids[k].id \in p.kinds /\ kids[k].hp \in Nat
    BY <1>1
  <2>3. Brings(more, Calls, p.kinds)
    <3> HIDE DEF pos
    <3> QED BY <2>2, OrderedBrings
  <2> HIDE DEF more
  <2>4. Brings(a.q \o more, Calls, p.kinds)
    BY <1>4, <2>3, BringsJoined DEF CallGood
  <2> QED BY <2>1, <2>4 DEF CallGood
<1>5. CallGood(p, Len(kids), CallFold!Folded(p, start, kids))
  <2> HIDE DEF start
  <2> QED BY <1>2, <1>3, <1>4, CallFold!FoldKeeps
<1>6. plan = CallFold!Folded(p, start, kids)
  <2>1. Planned(p.w, p.i, kids, p.rule) = CallFold!Folded(p, PlanStart(p.w, p.i), kids)
    BY PlannedIsCall
  <2> QED BY <2>1, <1>1
<1>7. Brings(plan.q, Calls, K)
  BY <1>1, <1>5, <1>6 DEF CallGood
<1>8. Summons(w, i, kids, rule) = plan.q \o <<roll>>
  BY DEF Summons
<1> HIDE DEF plan
<1>9. roll.op = "roll"
  BY ItemFields
<1> HIDE DEF roll
<1>10. Brings(<<roll>>, SummonOps, K)
  BY <1>9, BringsFew DEF Allowed, SummonOps
<1>11. Brings(plan.q, SummonOps, K)
  <2>1. Calls \subseteq SummonOps /\ K \subseteq K
    BY DEF Calls, SummonOps
  <2> QED BY <1>7, <2>1, BringsMore
<1> QED BY <1>8, <1>10, <1>11, BringsJoined

\* What is made for each place of a list, place by place.
LEMMA MappedKinds ==
  ASSUME NEW s, IsList(s), NEW f, DOMAIN f = DOMAIN s, f = [n \in DOMAIN s |-> f[n]], NEW id,
         \A n \in DOMAIN s : f[n].id = id /\ f[n].hp = Low
  PROVE  IsList(f) /\ \A n \in 1..Len(f) : f[n].id = id /\ f[n].hp \in Nat
<1>1. IsList(f)
  BY MappedList
<1>2. DOMAIN f = 1..Len(f)
  BY <1>1, ListFacts
<1> QED BY <1>1, <1>2 DEF Low

\* The kinds a leader can call.
LEMMA RalliedBrings ==
  ASSUME NEW w, NEW i PROVE \A q \in Rallied(w, i) : Brings(q, SummonOps, Minions)
<1> DEFINE held(k) == \E j \in DOMAIN w.f : Up(w.f[j]) /\ w.f[j].x \in {GremlinX[k], GremlinX[k] - WizardOffset}
           free == InOrder({k \in 1..3 : ~held(k)})
           come(id, k) == Kid(id, Low, GremlinX[k] - (IF id = "GREMLIN_WIZARD" THEN WizardOffset ELSE 0), "bottom")
<1>1. Rallied(w, i) = {Summons(w, i, <<come(a, free[1]), come(b, free[2])>>, "among") : a, b \in Called}
  BY SMT DEF Rallied, Those
<1>2. \A a, k : come(a, k).id = a /\ come(a, k).hp \in Nat
  BY DEF Kid, Low
<1>3. Called \subseteq Minions
  BY CastAssumption DEF Minions
<1> HIDE DEF come, free
<1>4. \A a, b : <<a, b>> \in Seq({a, b}) /\ Len(<<a, b>>) = 2 /\ <<a, b>>[1] = a /\ <<a, b>>[2] = b
  OBVIOUS
<1>5. \A k \in 1..2 : k = 1 \/ k = 2
  OBVIOUS
<1>6. \A a, b : a.id \in Minions /\ b.id \in Minions /\ a.hp \in Nat /\ b.hp \in Nat => Brings(Summons(w, i, <<a, b>>, "among"), SummonOps, Minions)
  <2> SUFFICES ASSUME NEW a, NEW b, a.id \in Minions, b.id \in Minions, a.hp \in Nat, b.hp \in Nat
               PROVE  Brings(Summons(w, i, <<a, b>>, "among"), SummonOps, Minions)
    OBVIOUS
  <2> DEFINE kids == <<a, b>>
  <2>1. kids \in Seq({a, b}) /\ Len(kids) = 2 /\ kids[1] = a /\ kids[2] = b
    BY <1>4
  <2> HIDE DEF kids
  <2>2. IsList(kids) /\ \A k \in 1..Len(kids) : kids[k].id \in Minions /\ kids[k].hp \in Nat
    BY <2>1, <1>5 DEF IsList
  <2>3. Brings(Summons(w, i, kids, "among"), SummonOps, Minions)
    BY <2>2, SummonsBrings
  <2> QED BY <2>3 DEF kids
<1>7. SUFFICES ASSUME NEW q \in Rallied(w, i) PROVE Brings(q, SummonOps, Minions)
  OBVIOUS
<1>8. PICK a \in Called, b \in Called : q = Summons(w, i, <<come(a, free[1]), come(b, free[2])>>, "among")
  BY <1>1, SMT
<1> QED BY <1>2, <1>3, <1>6, <1>8

\* Daggers, torches and orbs.
LEMMA DrawnBrings ==
  ASSUME NEW w, NEW i PROVE Brings(Drawn(w, i), SummonOps, Minions)
<1> DEFINE held(k) == \E j \in DOMAIN w.f : ~DeadOrEscaped(w.f[j]) /\ w.f[j].x = DaggerX[k]
           S == {k \in 1..4 : ~held(k)}
           free == InOrder(S)
           now == SubSeq(free, 1, IF Len(free) < 2 THEN Len(free) ELSE 2)
           kids == [n \in DOMAIN now |-> Kid("SNAKE_DAGGER", Low, DaggerX[now[n]], "top")]
<1>1. Drawn(w, i) = Summons(w, i, kids, "above")
  BY Zenon DEF Drawn, Those
<1>2. free \in Seq(S) /\ Len(free) \in Nat
  <2>1. S \in SUBSET (1..4)
    OBVIOUS
  <2> HIDE DEF S
  <2> QED BY <2>1, InOrderFacts
<1> HIDE DEF free, S
<1>3. now \in Seq(S)
  BY <1>2
<1>4. IsList(now)
  BY <1>3 DEF IsList
<1> HIDE DEF now
<1>5. DOMAIN kids = DOMAIN now /\ kids = [n \in DOMAIN now |-> kids[n]] /\ \A n \in DOMAIN now : kids[n].id = "SNAKE_DAGGER" /\ kids[n].hp = Low
  BY DEF Kid
<1> HIDE DEF kids
<1>6. IsList(kids) /\ \A n \in 1..Len(kids) : kids[n].id = "SNAKE_DAGGER" /\ kids[n].hp \in Nat
  BY <1>4, <1>5, MappedKinds
<1>7. "SNAKE_DAGGER" \in Minions
  BY DEF Minions
<1>8. \A n \in 1..Len(kids) : kids[n].id \in Minions /\ kids[n].hp \in Nat
  BY <1>6, <1>7
<1> QED BY <1>1, <1>6, <1>8, SummonsBrings

\* The torches.
LEMMA TorchesBring ==
  ASSUME NEW w, NEW i, NEW wanted PROVE Brings(Torches(w, i, wanted), SummonOps, Minions)
<1> DEFINE S == {k \in 1..2 : k \in wanted}
           come == InOrder(S)
           kids == [n \in DOMAIN come |-> Kid("TORCH_HEAD", Low, TorchX[come[n]], "queued")]
<1>1. Torches(w, i, wanted) = Summons(w, i, kids, "among")
  BY Zenon DEF Torches, Those
<1>2. IsList(come)
  <2>1. S \in SUBSET (1..2)
    OBVIOUS
  <2> HIDE DEF S
  <2> QED BY <2>1, InOrderFacts
<1> HIDE DEF come
<1>3. DOMAIN kids = DOMAIN come /\ kids = [n \in DOMAIN come |-> kids[n]] /\ \A n \in DOMAIN come : kids[n].id = "TORCH_HEAD" /\ kids[n].hp = Low
  BY DEF Kid
<1> HIDE DEF kids
<1>4. IsList(kids) /\ \A n \in 1..Len(kids) : kids[n].id = "TORCH_HEAD" /\ kids[n].hp \in Nat
  BY <1>2, <1>3, MappedKinds
<1>5. "TORCH_HEAD" \in Minions
  BY DEF Minions
<1>6. \A n \in 1..Len(kids) : kids[n].id \in Minions /\ kids[n].hp \in Nat
  BY <1>4, <1>5
<1> QED BY <1>1, <1>4, <1>6, SummonsBrings

\* The orbs.
LEMMA OrbsBring ==
  ASSUME NEW w, NEW i PROVE Brings(Orbs(w, i), SummonOps, Minions)
<1> DEFINE kids == [k \in 1..2 |-> Kid("BRONZE_ORB", Low, OrbX[k], "queued")]
           X == {kids[k] : k \in 1..2}
<1>1. Orbs(w, i) = Summons(w, i, kids, "among")
  BY Zenon DEF Orbs
<1>2. kids \in [1..2 -> X] /\ \A k \in 1..2 : kids[k].id = "BRONZE_ORB" /\ kids[k].hp \in Nat
  BY DEF Kid, Low
<1> HIDE DEF kids, X
<1>3. IsList(kids) /\ Len(kids) = 2
  BY <1>2, FunctionList
<1>4. "BRONZE_ORB" \in Minions
  BY DEF Minions
<1>5. \A n \in 1..Len(kids) : kids[n].id \in Minions /\ kids[n].hp \in Nat
  BY <1>2, <1>3, <1>4
<1> QED BY <1>1, <1>3, <1>5, SummonsBrings

\* Whatever a turn lays out, a slime's split too, makes no leader.
Offspring == Minions \cup {"SPIKE_SLIME_LARGE", "ACID_SLIME_LARGE", "SPIKE_SLIME_MEDIUM", "ACID_SLIME_MEDIUM"}
AnyOp == PlainOps \cup {"spawn"}

\* A split.
LEMMA SplitBrings ==
  ASSUME NEW w, NEW i PROVE Brings(Split(w, i), AnyOp, Offspring)
<1> DEFINE m == w.f[i]
           boss == {j \in 1 .. (i - 1) : w.f[j].id = "SLIME_BOSS"}
           far == m.id = "ACID_SLIME_LARGE" /\ boss # {}
           left == IF far THEN CHOOSE j \in boss : \A k \in boss : j <= k ELSE i
           right == IF far THEN Len(w.f) + 1 ELSE i + 2
           kid(id) == Kid(id, IF id \in Large THEN Well ELSE Low, 0, "no")
           kinds == CASE m.id = "SLIME_BOSS" -> <<"SPIKE_SLIME_LARGE", "ACID_SLIME_LARGE">>
                      [] m.id = "SPIKE_SLIME_LARGE" -> <<"SPIKE_SLIME_MEDIUM", "SPIKE_SLIME_MEDIUM">>
                      [] OTHER -> <<"ACID_SLIME_MEDIUM", "ACID_SLIME_MEDIUM">>
           cannot == For(w, "cannot", i)
           vanish == For(w, "vanish", i)
           can == For(w, "can", i)
           roll == Item("roll", i + 1, m.who, "-", NoKid)
           one == SpawnItem(w, i, left, kid(kinds[1]))
           two == SpawnItem(w, i, right, kid(kinds[2]))
<1>1. Split(w, i) = <<cannot, vanish, one, two, can>>
                    \o (IF m.id = "SPIKE_SLIME_LARGE" THEN <<roll>> ELSE <<>>)
  BY Zenon DEF Split
<1>2. kinds[1] \in Offspring /\ kinds[2] \in Offspring
  <2>1. kinds \in {<<"SPIKE_SLIME_LARGE", "ACID_SLIME_LARGE">>, <<"SPIKE_SLIME_MEDIUM", "SPIKE_SLIME_MEDIUM">>,
                   <<"ACID_SLIME_MEDIUM", "ACID_SLIME_MEDIUM">>}
    BY Zenon
  <2> HIDE DEF kinds
  <2> QED BY <2>1 DEF Offspring
<1>3. \A id : kid(id).id = id /\ kid(id).hp \in Nat
  BY DEF Kid, Low, Well
<1>4. /\ cannot.op = "cannot" /\ vanish.op = "vanish" /\ can.op = "can" /\ roll.op = "roll"
      /\ one.op = "spawn" /\ one.kid.id \in Offspring /\ two.op = "spawn" /\ two.kid.id \in Offspring
      /\ one.kid.hp \in Nat /\ two.kid.hp \in Nat
  <2> HIDE DEF kid, kinds, left, right, m
  <2> QED BY <1>2, <1>3, ItemFields DEF For, SpawnItem
<1> DEFINE spike == m.id = "SPIKE_SLIME_LARGE"
<1>5. Split(w, i) \in {<<cannot, vanish, one, two, can>> \o <<roll>>, <<cannot, vanish, one, two, can>> \o <<>>}
  BY <1>1, Zenon
<1> HIDE DEF cannot, vanish, can, roll, one, two
<1>6. /\ Allowed(cannot, AnyOp, Offspring) /\ Allowed(vanish, AnyOp, Offspring) /\ Allowed(one, AnyOp, Offspring)
      /\ Allowed(two, AnyOp, Offspring) /\ Allowed(can, AnyOp, Offspring) /\ Allowed(roll, AnyOp, Offspring)
  BY <1>4 DEF Allowed, AnyOp, PlainOps
<1> DEFINE q == <<cannot, vanish, one, two, can>>
<1>7. /\ q \in Seq({cannot, vanish, one, two, can}) /\ Len(q) = 5
      /\ q[1] = cannot /\ q[2] = vanish /\ q[3] = one /\ q[4] = two /\ q[5] = can
  OBVIOUS
<1>8. \A k \in 1..5 : k = 1 \/ k = 2 \/ k = 3 \/ k = 4 \/ k = 5
  OBVIOUS
<1> HIDE DEF q
<1>9. Brings(q, AnyOp, Offspring)
  BY <1>6, <1>7, <1>8 DEF Brings, IsList
<1>10. Brings(<<roll>>, AnyOp, Offspring) /\ Brings(<<>>, AnyOp, Offspring)
  BY <1>6, BringsFew
<1> QED BY <1>5, <1>9, <1>10, BringsJoined DEF q

-----------------------------------------------------------------------------
\* A leader, and a fight of one leader and its minions.
ReignOps == CourtOps \cup {"minion", "spawn"}
FallenOps == CourtOps \cup {"minion", "slay", "escape"}
Doomed(q, j) == \E k \in 1..Len(q) : q[k].op \in {"slay", "escape"} /\ q[k].at = j

\* A turn of theirs lays out only such items.
LEMMA LaidCourtly ==
  ASSUME NEW w, NEW i, w.f[i].id \in Troupe, NEW q, Courtly(q)
  PROVE  \A r \in Laid(w, i, q) : Brings(r, ReignOps, Minions)
<1> DEFINE last == {k \in 1..2 : TorchDead(w.f, TorchX[k])}
           plain == Items(w, i, q \o Burning(w.f[i]))
<1>1. SummonOps \subseteq ReignOps
  BY DEF SummonOps, ReignOps, CourtOps
<1>2. \A r : Brings(r, SummonOps, Minions) => Brings(r, ReignOps, Minions)
  BY <1>1, BringsMore
<1>3. \A l : Do(l).op = l
  BY DEF Do
<1>4. q # <<Do("split")>>
  <2>1. Do("split").op = "split" /\ "split" \notin CourtOps
    BY <1>3 DEF CourtOps
  <2>2. <<Do("split")>>[1] = Do("split") /\ Len(<<Do("split")>>) = 1 /\ 1 \in 1..1
    BY OneList
  <2>3. \A l \in Layouts \ {"split"} : <<Do(l)>>[1] = Do(l) /\ l # "split"
    BY OneList
  <2>4. SUFFICES ASSUME q = <<Do("split")>> PROVE FALSE
    OBVIOUS
  <2>5. q[1].op = "split" /\ 1 \in 1..Len(q)
    BY <2>1, <2>2, <2>4
  <2> QED BY <1>3, <2>1, <2>3, <2>5 DEF Courtly
<1>5. Laid(w, i, q) \in {Rallied(w, i), {Drawn(w, i)}, {Torches(w, i, 1..2)}, {Torches(w, i, last)}, {Orbs(w, i)}}
      \/ ((\A l \in Layouts : q # <<Do(l)>>) /\ Laid(w, i, q) = {plain})
  <2> DEFINE a == <<Do("split")>>
             b == <<Do("rally")>>
             c == <<Do("daggers")>>
             d == <<Do("torches")>>
             e == <<Do("relight")>>
             h == <<Do("orbs")>>
  <2>1. q # a
    BY <1>4
  <2>2. Laid(w, i, q) =
          CASE q = a -> {Split(w, i)}
            [] q = b -> Rallied(w, i)
            [] q = c -> {Drawn(w, i)}
            [] q = d -> {Torches(w, i, 1..2)}
            [] q = e -> {Torches(w, i, last)}
            [] q = h -> {Orbs(w, i)}
            [] OTHER -> {plain}
    BY Zenon DEF Laid
  <2>3. \A l \in Layouts : <<Do(l)>> \in {a, b, c, d, e, h}
    BY DEF Layouts
  <2> HIDE DEF a, b, c, d, e, h, last, plain
  <2>4. CASE q \in {b, c, d, e, h}
    BY <2>1, <2>2, <2>4
  <2>5. CASE q \notin {a, b, c, d, e, h}
    <3>1. Laid(w, i, q) = {plain}
      BY <2>2, <2>5
    <3> QED BY <3>1, <2>3, <2>5
  <2> QED BY <2>1, <2>4, <2>5
<1>6. (\A l \in Layouts : q # <<Do(l)>>) => Brings(plain, ReignOps, Minions)
  <2> HAVE \A l \in Layouts : q # <<Do(l)>>
  <2>1. IsList(q) /\ \A k \in 1..Len(q) : q[k].op \in CourtOps
    BY DEF Courtly
  <2>2. Burning(w.f[i]) = <<>>
    BY DEF Burning, Fuse, Troupe, Leaders, Minions, Gremlins
  <2>3. q \o <<>> = q /\ Len(q) \in Nat /\ DOMAIN q = 1..Len(q)
    BY <2>1, ListFacts DEF IsList
  <2>4. plain = [k \in 1..Len(q) |-> Item(q[k].op, i, w.f[i].who, q[k].v, NoKid)]
    BY <2>2, <2>3 DEF Items
  <2> DEFINE X == {plain[k] : k \in 1..Len(q)}
  <2>5. \A k \in 1..Len(q) : plain[k].op = q[k].op
    BY <2>4, ItemFields
  <2> HIDE DEF plain
  <2>6. plain \in [1..Len(q) -> X]
    BY <2>4
  <2> HIDE DEF X
  <2>7. IsList(plain) /\ Len(plain) = Len(q)
    BY <2>3, <2>6, FunctionList
  <2>8. \A k \in 1..Len(plain) : plain[k].op \in ReignOps /\ plain[k].op # "spawn"
    BY <2>1, <2>5, <2>7 DEF ReignOps, CourtOps
  <2> QED BY <2>7, <2>8 DEF Brings, Allowed
<1> HIDE DEF last, plain
<1> QED BY <1>2, <1>5, <1>6, RalliedBrings, DrawnBrings, TorchesBring, OrbsBring

\* And any turn only items that make no leader.
LEMMA LaidOffspring ==
  ASSUME NEW ids, NEW g, NEW t, NEW w, Manned(ids, g, t, w), NEW i \in DOMAIN g, NEW q, Owes(q)
  PROVE  \A r \in Laid(w, i, q) : Brings(r, AnyOp, Offspring)
<1> DEFINE last == {k \in 1..2 : TorchDead(w.f, TorchX[k])}
           plain == Items(w, i, q \o Burning(w.f[i]))
<1>1. SummonOps \subseteq AnyOp /\ Minions \subseteq Offspring
  BY DEF SummonOps, AnyOp, PlainOps, Offspring
<1>2. \A r : Brings(r, SummonOps, Minions) => Brings(r, AnyOp, Offspring)
  BY <1>1, BringsMore
<1>3. (\A l \in Layouts : q # <<Do(l)>>) => Brings(plain, AnyOp, Offspring)
  <2>1. (\A l \in Layouts : q # <<Do(l)>>) => AllStraight(g, plain)
    BY BurningSteps, StepsTwice, ItemsStraight DEF Owes
  <2> HIDE DEF plain
  <2> QED BY <2>1, StraightBrings DEF AnyOp
<1>4. Laid(w, i, q) \in {{Split(w, i)}, Rallied(w, i), {Drawn(w, i)}, {Torches(w, i, 1..2)},
                         {Torches(w, i, last)}, {Orbs(w, i)}}
      \/ ((\A l \in Layouts : q # <<Do(l)>>) /\ Laid(w, i, q) = {plain})
  <2>1. \A l \in Layouts : l = "split" \/ l = "rally" \/ l = "daggers" \/ l = "torches" \/ l = "relight" \/ l = "orbs"
    BY DEF Layouts
  <2> QED BY <2>1, Zenon DEF Laid
<1> HIDE DEF last, plain
<1> QED BY <1>2, <1>3, <1>4, SplitBrings, RalliedBrings, DrawnBrings, TorchesBring, OrbsBring

\* A record of such a kind as it is made.
LEMMA MadeAs ==
  ASSUME NEW who, NEW id \in Troupe \cup Offspring, NEW x
  PROVE  LET m == Made(who, id, x) IN m.id = id /\ ~Half(m) /\ ~Escaped(m) /\ m.hp \in Nat /\ m.hp # None
<1> DEFINE hp == IF id \in Halves THEN Well ELSE Low
           m == Record(who, id, hp, x)
<1>1. id \notin {"LAGAVULIN_AWAKE", "JAW_WORM_HARD", "THE_GUARDIAN", "AWAKENED_ONE", "DECA", "GIANT_HEAD"}
  BY DEF Troupe, Offspring, Leaders, Minions, Gremlins
<1>2. Made(who, id, x) \in {m, [m EXCEPT !.n = 1]}
  BY <1>1, Zenon DEF Made
<1>3. hp \in Nat /\ hp # None
  BY DEF Well, Low, None
<1> HIDE DEF hp
<1>4. \A v : [m EXCEPT !.n = v].id = id /\ [m EXCEPT !.n = v].on = {} /\ [m EXCEPT !.n = v].hp = hp
  BY DEF Record
<1>5. m.id = id /\ m.on = {} /\ m.hp = hp
  BY DEF Record
<1> DEFINE c == [m EXCEPT !.n = 1]
<1>6. c.id = id /\ c.on = {} /\ c.hp = hp
  BY <1>4
<1> HIDE DEF m, c
<1>7. \A e : e.id = id /\ e.on = {} /\ e.hp = hp
             => e.id = id /\ ~Half(e) /\ ~Escaped(e) /\ e.hp \in Nat /\ e.hp # None
  BY <1>3 DEF Half, Escaped
<1> QED BY <1>2, <1>5, <1>6, <1>7 DEF c

\* Its first choice leaves it so.
LEMMA OpenedKept ==
  ASSUME NEW f, NEW i, HasName(f[i]), f[i].id \in Troupe, NEW id PROVE AllKept(f[i], Opened(f, i, id))
<1>1. Kept(f[i], f[i])
  BY KeptShapes
<1>2. \A S : AllKept(f[i], AnyOf(f[i], S))
  BY <1>1, AnyOfKept
<1> QED BY <1>2, TroupeChosen, Zenon DEF Opened

\* And so does what comes before the battle.
LEMMA PreBattleKept ==
  ASSUME NEW m, m.id \in Troupe PROVE PreBattle(m) = m
<1>1. m.id \notin {"BYRD", "SHELLED_PARASITE", "EXPLODER", "GIANT_HEAD", "LAGAVULIN", "THE_GUARDIAN", "TRANSIENT"}
  BY DEF Troupe, Leaders, Minions, Gremlins
<1> QED BY <1>1, Zenon DEF PreBattle, ExordiumPreBattle

-----------------------------------------------------------------------------
\* A list of slots misses none of them.
LEMMA InOrderOnto ==
  ASSUME NEW n \in Nat, NEW S \in SUBSET (1..n), NEW s \in S
  PROVE  \E k \in 1..Len(InOrder(S)) : InOrder(S)[k] = s
<1> DEFINE c == Cardinality(S)
           q == InOrder(S)
           below(i) == {j \in S : j < i}
           at(k) == CHOOSE i \in S : Cardinality(below(i)) = k - 1
           k == Cardinality(below(s)) + 1
<1>1. IsFiniteSet(S) /\ c \in Nat
  BY AllRanked DEF Counted
<1>2. \A i \in S : IsFiniteSet(below(i)) /\ Cardinality(below(i)) \in Nat
  <2> TAKE i \in S
  <2>1. below(i) \subseteq S
    OBVIOUS
  <2> HIDE DEF below
  <2> QED BY <1>1, <2>1, FS_Subset, FS_CardinalityType
<1>3. \A i, j \in S : i < j => Cardinality(below(i)) < Cardinality(below(j))
  <2> TAKE i \in S, j \in S
  <2> HAVE i < j
  <2>1. below(i) \subseteq below(j) /\ i \in below(j) /\ i \notin below(i)
    <3>1. \A l \in S : l < i => l < j
      OBVIOUS
    <3>2. ~(i < i)
      OBVIOUS
    <3> QED BY <3>1, <3>2
  <2> HIDE DEF below
  <2>2. Cardinality(below(i)) <= Cardinality(below(j)) /\ Cardinality(below(i)) # Cardinality(below(j))
    BY <1>2, <2>1, FS_Subset
  <2> QED BY <1>2, <2>2
<1>4. k \in 1..c
  <2>1. below(s) \subseteq S /\ s \in S /\ s \notin below(s)
    OBVIOUS
  <2> HIDE DEF below
  <2>2. Cardinality(below(s)) <= c /\ Cardinality(below(s)) # c
    BY <1>1, <2>1, FS_Subset
  <2> QED BY <1>1, <1>2, <2>2
<1>5. at(k) = s
  <2>1. \A i \in S : Cardinality(below(i)) = k - 1 => i = s
    <3> TAKE i \in S
    <3>1. i < s \/ s < i \/ i = s
      OBVIOUS
    <3> HIDE DEF below
    <3> QED BY <3>1, <1>2, <1>3
  <2>2. Cardinality(below(s)) = k - 1
    <3> HIDE DEF below
    <3> QED BY <1>2
  <2> HIDE DEF below, k
  <2> QED BY <2>1, <2>2
<1>6. q = [l \in 1..c |-> at(l)]
  BY DEF InOrder
<1> HIDE DEF at, q, k, below
<1>7. q[k] = s /\ q \in [1..c -> {q[l] : l \in 1..c}]
  BY <1>4, <1>5, <1>6
<1> HIDE DEF c
<1>8. Len(q) = c
  BY <1>1, <1>7, FunctionList
<1> QED BY <1>4, <1>7, <1>8 DEF q

\* Those an item waits for: more items wait for them still.
LEMMA DoomedJoined ==
  ASSUME NEW p, NEW q, IsList(p), IsList(q), NEW j, Doomed(p, j) \/ Doomed(q, j)
  PROVE  Doomed(p \o q, j)
<1>1. Len(p) \in Nat /\ Len(q) \in Nat
  BY ListFacts
<1> DEFINE r == p \o q
<1>2. /\ IsList(r) /\ Len(r) = Len(p) + Len(q)
      /\ \A k \in 1..Len(p) : r[k] = p[k]
      /\ \A k \in 1..Len(q) : r[Len(p) + k] = q[k]
  BY Joined
<1> HIDE DEF r
<1>3. CASE Doomed(p, j)
  <2>1. PICK k \in 1..Len(p) : p[k].op \in {"slay", "escape"} /\ p[k].at = j
    BY <1>3 DEF Doomed
  <2>2. k \in 1..Len(r) /\ r[k] = p[k]
    BY <1>1, <1>2
  <2>3. Doomed(r, j)
    BY <2>1, <2>2 DEF Doomed
  <2> QED BY <2>3 DEF r
<1>4. CASE Doomed(q, j)
  <2>1. PICK k \in 1..Len(q) : q[k].op \in {"slay", "escape"} /\ q[k].at = j
    BY <1>4 DEF Doomed
  <2>2. Len(p) + k \in 1..Len(r) /\ r[Len(p) + k] = q[k]
    BY <1>1, <1>2
  <2>3. Doomed(r, j)
    BY <2>1, <2>2 DEF Doomed
  <2> QED BY <2>3 DEF r
<1> QED BY <1>3, <1>4

\* The head of a queue, or the rest of it.
LEMMA DoomedTail ==
  ASSUME NEW q, IsList(q), q # <<>>, NEW j, Doomed(q, j)
  PROVE  Doomed(Tail(q), j) \/ (Head(q).op \in {"slay", "escape"} /\ Head(q).at = j)
<1> DEFINE p == Tail(q)
<1>1. /\ IsList(p) /\ Len(p) = Len(q) - 1 /\ Len(q) > 0
      /\ \A k \in 1..Len(p) : p[k] = q[k + 1]
      /\ Head(q) = q[1] /\ Len(q) \in Nat
  BY TailList, ListFacts
<1> HIDE DEF p
<1>2. PICK k \in 1..Len(q) : q[k].op \in {"slay", "escape"} /\ q[k].at = j
  BY DEF Doomed
<1>3. k = 1 \/ (k - 1 \in 1..Len(p) /\ p[k - 1] = q[k])
  <2>1. k # 1 => k - 1 \in 1..Len(p) /\ (k - 1) + 1 = k
    BY <1>1
  <2> QED BY <1>1, <2>1
<1> QED BY <1>1, <1>2, <1>3 DEF Doomed, p

\* An item for each of these slots.
LEMMA EachDooms ==
  ASSUME NEW w, NEW op \in {"slay", "escape"}, NEW n \in Nat, NEW S \in SUBSET (1..n)
  PROVE  LET q == Each(w, op, InOrder(S))
         IN  /\ Brings(q, {"slay", "escape"}, {}) /\ Brings(Reverse(q), {"slay", "escape"}, {})
             /\ \A s \in S : Doomed(q, s) /\ Doomed(Reverse(q), s)
<1> DEFINE slots == InOrder(S)
           c == Len(slots)
           q == Each(w, op, slots)
           r == Reverse(q)
<1>1. c \in Nat /\ DOMAIN slots = 1..c
  BY InOrderFacts, ListFacts
<1>2. \A s \in S : \E k \in 1..c : slots[k] = s
  BY InOrderOnto
<1> HIDE DEF slots, c
<1>3. q = [k \in 1..c |-> For(w, op, slots[k])]
  BY <1>1 DEF Each
<1>4. \A k \in 1..c : q[k].op = op /\ q[k].at = slots[k]
  BY <1>3, ItemFields DEF For
<1> HIDE DEF q
<1>5. q \in [1..c -> {q[k] : k \in 1..c}]
  BY <1>3
<1>6. IsList(q) /\ Len(q) = c
  BY <1>1, <1>5, FunctionList
<1>7. r = [k \in 1..c |-> q[(c - k) + 1]]
  BY <1>6 DEF Reverse
<1> HIDE DEF r
<1>8. \A k \in 1..c : (c - k) + 1 \in 1..c /\ (c - ((c - k) + 1)) + 1 = k
  BY <1>1
<1>9. r \in [1..c -> {q[k] : k \in 1..c}] /\ \A k \in 1..c : r[k] = q[(c - k) + 1] /\ r[(c - k) + 1] = q[k]
  BY <1>7, <1>8
<1>10. IsList(r) /\ Len(r) = c
  BY <1>1, <1>9, FunctionList
<1>11. \A k \in 1..c : r[k].op = op
  <2> TAKE k \in 1..c
  <2> DEFINE j == (c - k) + 1
  <2>1. j \in 1..c /\ r[k] = q[j]
    BY <1>8, <1>9
  <2> HIDE DEF j
  <2> QED BY <2>1, <1>4
<1>12. "spawn" \notin {"slay", "escape"}
  OBVIOUS
<1>13. Brings(q, {"slay", "escape"}, {}) /\ Brings(r, {"slay", "escape"}, {})
  BY <1>4, <1>6, <1>10, <1>11, <1>12 DEF Brings, Allowed
<1>14. ASSUME NEW s \in S PROVE Doomed(q, s) /\ Doomed(r, s)
  <2>1. PICK k \in 1..c : slots[k] = s
    BY <1>2
  <2>2. Doomed(q, s)
    BY <2>1, <1>4, <1>6 DEF Doomed
  <2>3. (c - k) + 1 \in 1..c /\ r[(c - k) + 1] = q[k]
    BY <1>8, <1>9
  <2>4. Doomed(r, s)
    BY <2>1, <2>3, <1>4, <1>10 DEF Doomed
  <2> QED BY <2>2, <2>4
<1> QED BY <1>13, <1>14 DEF q, r, slots

-----------------------------------------------------------------------------
\* The leader in slot L lives, and its summons are on the way; or it has
\* fallen, and to each of its minions that lives an item is on the way that
\* takes it from the fight.  To those of S it is due at once.
Company(f, L) ==
  /\ L \in DOMAIN f /\ f[L].id \in Leaders
  /\ \A j \in DOMAIN f : ~Half(f[j]) /\ f[j].hp \in Nat /\ (j # L => f[j].id \in Minions)
Reigns(f, q, L) == ~Escaped(f[L]) /\ Brings(q, ReignOps, Minions)
Fallen(f, q, L, S) ==
  /\ Brings(q, FallenOps, {})
  /\ \A j \in DOMAIN f \ {L} : j \in S \/ DeadOrEscaped(f[j]) \/ Doomed(q, j)
Attended(f, q, L, S) ==
  /\ Company(f, L)
  /\ IF f[L].hp = None THEN Fallen(f, q, L, S) ELSE Reigns(f, q, L)

\* The slot an item takes from the fight.
Taken(it) == IF it.op \in {"slay", "escape"} THEN {it.at} ELSE {}

\* The head of the queue is taken.
LEMMA AttendedTail ==
  ASSUME NEW f, NEW q, q # <<>>, NEW L, Attended(f, q, L, {})
  PROVE  /\ Attended(f, Tail(q), L, Taken(Head(q)))
         /\ f[L].hp = None => Allowed(Head(q), FallenOps, {})
         /\ f[L].hp # None => Allowed(Head(q), ReignOps, Minions)
<1>1. CASE f[L].hp = None
  <2>1. Fallen(f, q, L, {}) /\ IsList(q)
    BY <1>1 DEF Attended, Fallen, Brings
  <2>2. Allowed(Head(q), FallenOps, {}) /\ Brings(Tail(q), FallenOps, {})
    BY <2>1, BringsTail DEF Fallen
  <2>3. ASSUME NEW j \in DOMAIN f \ {L}
        PROVE  j \in Taken(Head(q)) \/ DeadOrEscaped(f[j]) \/ Doomed(Tail(q), j)
    <3>1. DeadOrEscaped(f[j]) \/ Doomed(q, j)
      BY <2>1 DEF Fallen
    <3>2. Doomed(q, j) => Doomed(Tail(q), j) \/ (Head(q).op \in {"slay", "escape"} /\ Head(q).at = j)
      BY <2>1, DoomedTail
    <3> QED BY <3>1, <3>2 DEF Taken
  <2>4. Fallen(f, Tail(q), L, Taken(Head(q)))
    BY <2>2, <2>3 DEF Fallen
  <2> QED BY <1>1, <2>2, <2>4 DEF Attended
<1>2. CASE f[L].hp # None
  <2>1. Reigns(f, q, L)
    BY <1>2 DEF Attended
  <2>2. Allowed(Head(q), ReignOps, Minions) /\ Brings(Tail(q), ReignOps, Minions)
    BY <2>1, BringsTail DEF Reigns
  <2> QED BY <1>2, <2>1, <2>2 DEF Attended, Reigns
<1> QED BY <1>1, <1>2

\* A record that was changed, in its world.
LEMMA WithField ==
  ASSUME NEW ids, NEW g, NEW t, NEW w, Manned(ids, g, t, w), NEW i \in DOMAIN g, NEW c
  PROVE  /\ DOMAIN With(w, i, c).f = DOMAIN w.f /\ With(w, i, c).f[i] = c
         /\ \A j \in DOMAIN w.f \ {i} : With(w, i, c).f[j] = w.f[j]
<1> DEFINE h == [w.f EXCEPT ![i] = c]
<1>1. i \in DOMAIN w.f
  BY MannedFacts
<1>2. DOMAIN h = DOMAIN w.f /\ h[i] = c /\ \A j \in DOMAIN w.f \ {i} : h[j] = w.f[j]
  BY <1>1
<1>3. With(w, i, c) = [w EXCEPT !.f = h]
  BY DEF With
<1> HIDE DEF h
<1>4. With(w, i, c) = [f |-> h, q |-> w.q, t |-> w.t, cl |-> w.cl]
  BY <1>3 DEF Manned, Shape
<1> QED BY <1>2, <1>4

\* A record that dies, or changes as it lives.
LEMMA AttendedWith ==
  ASSUME NEW f, NEW q, NEW L, NEW S, Attended(f, q, L, S), NEW i \in DOMAIN f, S \subseteq {i},
         NEW h, NEW c, DOMAIN h = DOMAIN f, h[i] = c, \A j \in DOMAIN f \ {i} : h[j] = f[j],
         c.id = f[i].id, ~Half(c), c.hp \in Nat, f[i].hp = None => c.hp = None,
         Escaped(f[i]) => Escaped(c), i \in S => DeadOrEscaped(c),
         i = L => (c.hp = None <=> f[i].hp = None) /\ (c.hp # None => ~Escaped(c))
  PROVE  Attended(h, q, L, {})
<1>1. Company(f, L)
  BY DEF Attended
<1>2. Company(h, L)
  <2>1. L \in DOMAIN h /\ h[L].id \in Leaders
    BY <1>1 DEF Company
  <2>2. ASSUME NEW j \in DOMAIN h
        PROVE  ~Half(h[j]) /\ h[j].hp \in Nat /\ (j # L => h[j].id \in Minions)
    <3>1. CASE j = i
      BY <1>1, <3>1 DEF Company
    <3>2. CASE j # i
      BY <1>1, <3>2 DEF Company
    <3> QED BY <3>1, <3>2
  <2> QED BY <2>1, <2>2 DEF Company
<1>3. h[L].hp = None <=> f[L].hp = None
  <2>1. L \in DOMAIN f
    BY <1>1 DEF Company
  <2> QED BY <2>1
<1>4. CASE f[L].hp = None
  <2>1. Fallen(f, q, L, S)
    BY <1>4 DEF Attended
  <2>2. ASSUME NEW j \in DOMAIN h \ {L} PROVE DeadOrEscaped(h[j]) \/ Doomed(q, j)
    <3>1. j \in S \/ DeadOrEscaped(f[j]) \/ Doomed(q, j)
      BY <2>1 DEF Fallen
    <3>2. CASE j = i
      BY <3>1, <3>2 DEF DeadOrEscaped
    <3>3. CASE j # i
      BY <3>1, <3>3
    <3> QED BY <3>2, <3>3
  <2>3. Fallen(h, q, L, {})
    BY <2>1, <2>2 DEF Fallen
  <2> QED BY <1>2, <1>3, <1>4, <2>3 DEF Attended
<1>5. CASE f[L].hp # None
  <2>1. Reigns(f, q, L)
    BY <1>5 DEF Attended
  <2>2. ~Escaped(h[L])
    <3>1. CASE L = i
      BY <1>5, <3>1
    <3>2. CASE L # i
      BY <1>1, <2>1, <3>2 DEF Reigns, Company
    <3> QED BY <3>1, <3>2
  <2> QED BY <1>2, <1>3, <1>5, <2>1, <2>2 DEF Attended, Reigns
<1> QED BY <1>4, <1>5

\* The death of a minion, and what a leader's death queues.
LEMMA TroupeDied ==
  ASSUME NEW w, NEW i, w.f[i].id \in Troupe
  PROVE  LET R == {j \in DOMAIN w.f : Up(w.f[j])}
         IN  /\ w.f[i].id \in Minions => Died(w, i) = w
             /\ w.f[i].id \in Leaders =>
                  Died(w, i) \in {Bottom(w, Each(w, "escape", InOrder(R))),
                                  Top(w, Reverse(Each(w, "slay", InOrder(R))))}
<1> DEFINE id == w.f[i].id
           R == {j \in DOMAIN w.f : Up(w.f[j])}
<1>1. id \notin {"DARKLING", "AWAKENED_ONE"} /\ ~Vetoed(w, id)
  BY DEF Troupe, Leaders, Minions, Gremlins, Vetoed
<1>2. ASSUME id \in Minions PROVE Died(w, i) = w
  <2>1. id \notin {"GREMLIN_LEADER", "BRONZE_AUTOMATON", "THE_COLLECTOR", "REPTOMANCER"}
    BY <1>2 DEF Minions, Gremlins
  <2> QED BY <1>1, <2>1, Zenon DEF Died
<1>3. ASSUME id \in Leaders
      PROVE  Died(w, i) \in {Bottom(w, Each(w, "escape", InOrder(R))), Top(w, Reverse(Each(w, "slay", InOrder(R))))}
  <2>1. id \in {"GREMLIN_LEADER", "BRONZE_AUTOMATON", "THE_COLLECTOR", "REPTOMANCER"}
    BY <1>3 DEF Leaders
  <2> QED BY <1>1, <2>1, Zenon DEF Died, Where
<1> QED BY <1>2, <1>3

\* A leader falls: an item is queued for each minion that lives.
LEMMA AttendedFall ==
  ASSUME NEW ids, NEW g, NEW t, NEW w, Manned(ids, g, t, w), NEW L, Company(w.f, L), w.f[L].hp = None,
         Brings(w.q, FallenOps, {}), NEW v, v = Died(w, L)
  PROVE  Attended(v.f, v.q, L, {})
<1> DEFINE R == {j \in DOMAIN w.f : Up(w.f[j])}
           E == Each(w, "escape", InOrder(R))
           K == Reverse(Each(w, "slay", InOrder(R)))
           n == Len(w.f)
<1>1. n \in Nat /\ DOMAIN w.f = 1..n /\ Shape(w)
  BY MannedFacts DEF Manned
<1>2. R \in SUBSET (1..n)
  BY <1>1
<1>3. \A j \in DOMAIN w.f : j \in R \/ DeadOrEscaped(w.f[j])
  BY DEF Company, Up, DeadOrEscaped, None
<1>4. w.f[L].id \in Leaders /\ w.f[L].id \in Troupe
  BY DEF Company, Troupe
<1>5. v \in {Bottom(w, E), Top(w, K)}
  BY <1>4, TroupeDied
<1> HIDE DEF R, n
<1>6. /\ Brings(E, {"slay", "escape"}, {}) /\ \A s \in R : Doomed(E, s)
      /\ Brings(K, {"slay", "escape"}, {}) /\ \A s \in R : Doomed(K, s)
  BY <1>1, <1>2, EachDooms
<1> HIDE DEF E, K
<1>7. Brings(E, FallenOps, {}) /\ Brings(K, FallenOps, {})
  <2>1. {"slay", "escape"} \subseteq FallenOps /\ {} \subseteq {}
    BY DEF FallenOps
  <2>2. \A q : Brings(q, {"slay", "escape"}, {}) => Brings(q, FallenOps, {})
    BY <2>1, BringsMore
  <2> QED BY <1>6, <2>2
<1>8. v.f = w.f /\ v.q \in {w.q \o E, K \o w.q}
  <2>1. /\ Bottom(w, E).q = w.q \o E /\ Bottom(w, E).f = w.f
        /\ Top(w, K).q = K \o w.q /\ Top(w, K).f = w.f
    BY <1>1, QueueFields
  <2> QED BY <1>5, <2>1
<1>9. Brings(v.q, FallenOps, {})
  BY <1>7, <1>8, BringsJoined
<1>10. \A s \in R : Doomed(v.q, s)
  <2>1. IsList(w.q) /\ IsList(E) /\ IsList(K)
    BY <1>6 DEF Brings
  <2> TAKE s \in R
  <2>2. Doomed(w.q \o E, s)
    BY <2>1, <1>6, DoomedJoined
  <2>3. Doomed(K \o w.q, s)
    BY <2>1, <1>6, DoomedJoined
  <2> QED BY <2>2, <2>3, <1>8
<1>11. Fallen(v.f, v.q, L, {})
  BY <1>3, <1>8, <1>9, <1>10 DEF Fallen
<1> QED BY <1>8, <1>11 DEF Attended

\* A record of the company, with fewer hit points.
LEMMA HurtFacts ==
  ASSUME NEW m, HasName(m), NEW h
  PROVE  LET c == [m EXCEPT !.hp = h]
         IN  c.id = m.id /\ c.hp = h /\ (Half(c) <=> Half(m)) /\ (Escaped(c) <=> Escaped(m)) /\ Same(m, c)
<1> DEFINE c == [m EXCEPT !.hp = h]
<1>1. Same(m, c)
  BY FieldKeeps
<1>2. c.hp = h /\ c.on = m.on
  BY DEF HasName
<1> HIDE DEF c
<1>3. c.id = m.id /\ c.hp = h /\ (Half(c) <=> Half(m)) /\ (Escaped(c) <=> Escaped(m)) /\ Same(m, c)
  BY <1>1, <1>2 DEF Same, Half, Escaped
<1> QED BY <1>3 DEF c

\* A record dies while no spawn waits.
LEMMA AttendedDeath ==
  ASSUME NEW ids, NEW g, NEW t, NEW w, Manned(ids, g, t, w), AllStraight(g, w.q), NEW L, NEW i \in DOMAIN g,
         NEW S, S \subseteq {i}, Attended(w.f, w.q, L, S), Up(w.f[i]),
         NEW v, v = Died(With(w, i, [w.f[i] EXCEPT !.hp = None]), i)
  PROVE  Attended(v.f, v.q, L, {})
<1> DEFINE m == w.f[i]
           c == [m EXCEPT !.hp = None]
           u == With(w, i, c)
<1>1. HasName(m) /\ i \in DOMAIN w.f
  BY MannedFacts
<1>2. c.id = m.id /\ c.hp = None /\ (Half(c) <=> Half(m)) /\ (Escaped(c) <=> Escaped(m)) /\ Same(m, c)
  BY <1>1, HurtFacts
<1> HIDE DEF c
<1>3. Manned(ids, g, t, u) /\ u.q = w.q
  BY <1>2, WithManned
<1>4. DOMAIN u.f = DOMAIN w.f /\ u.f[i] = c /\ \A j \in DOMAIN w.f \ {i} : u.f[j] = w.f[j]
  BY WithField
<1>5. v = Died(u, i)
  BY DEF c
<1> HIDE DEF u
<1>6. Company(w.f, L) /\ ~Half(m) /\ None \in Nat
  BY <1>1 DEF Attended, Company, None
<1>7. m.hp # None
  BY DEF Up, None
<1>8. CASE i # L
  <2>1. c.id \in Minions /\ c.id \in Troupe
    BY <1>1, <1>2, <1>6, <1>8 DEF Company, Troupe
  <2>2. v = u
    BY <1>4, <1>5, <2>1, TroupeDied
  <2>3. Attended(u.f, w.q, L, {})
    BY <1>1, <1>2, <1>4, <1>6, <1>8, AttendedWith DEF DeadOrEscaped
  <2> QED BY <1>3, <2>2, <2>3
<1>9. CASE i = L
  <2>1. Company(u.f, L)
    <3>1. L \in DOMAIN u.f /\ u.f[L].id \in Leaders
      BY <1>2, <1>4, <1>6, <1>9 DEF Company
    <3>2. ASSUME NEW j \in DOMAIN u.f
          PROVE  ~Half(u.f[j]) /\ u.f[j].hp \in Nat /\ (j # L => u.f[j].id \in Minions)
      <4>1. CASE j = i
        BY <1>2, <1>4, <1>6, <1>9, <4>1
      <4>2. CASE j # i
        BY <1>4, <1>6, <4>2 DEF Company
      <4> QED BY <4>1, <4>2
    <3> QED BY <3>1, <3>2 DEF Company
  <2>2. Brings(u.q, FallenOps, {})
    <3>1. Brings(w.q, ReignOps, Minions)
      BY <1>7, <1>9 DEF Attended, Reigns
    <3>2. Brings(w.q, ReignOps \ {"spawn"}, {})
      BY <3>1, StraightBrings
    <3>3. ReignOps \ {"spawn"} \subseteq FallenOps /\ {} \subseteq {}
      BY DEF ReignOps, FallenOps, CourtOps
    <3> QED BY <1>3, <3>2, <3>3, BringsMore
  <2>3. u.f[L].hp = None
    BY <1>2, <1>4, <1>9
  <2> QED BY <1>3, <1>5, <1>9, <2>1, <2>2, <2>3, AttendedFall
<1> QED BY <1>8, <1>9

-----------------------------------------------------------------------------
\* No hook of theirs answers a blow.
LEMMA TroupeUnmoved ==
  ASSUME NEW w, NEW i, w.f[i].id \in Troupe
  PROVE  Damaged(w, i) = {w} /\ \A thorns : Hooks(w, i, thorns) = {<<>>}
<1>1. w.f[i].id \notin Large \cup {"SLIME_BOSS", "LAGAVULIN", "THE_GUARDIAN", "DARKLING", "AWAKENED_ONE", "BYRD",
                                   "SHELLED_PARASITE", "WRITHING_MASS"}
  BY DEF Troupe, Leaders, Minions, Gremlins, Large
<1>2. DownByHalf(w, i) = w
  BY <1>1, Zenon DEF DownByHalf
<1>3. Damaged(w, i) = {DownByHalf(w, i)}
  BY <1>1, Zenon DEF Damaged
<1>4. \A thorns : Hooks(w, i, thorns) = {<<>>}
  BY <1>1, Zenon DEF Hooks
<1> QED BY <1>2, <1>3, <1>4

\* Where the records are still of the company, a death is all that a blow queues.
LEMMA TroupeDeath ==
  ASSUME NEW ids, NEW g, NEW t, NEW w, Manned(ids, g, t, w), NEW i \in DOMAIN g, w.f[i].id \in Troupe
  PROVE  LET u == Died(With(w, i, [w.f[i] EXCEPT !.hp = None]), i) IN Damaged(u, i) = {u}
<1> DEFINE c == [w.f[i] EXCEPT !.hp = None]
           b == With(w, i, c)
           u == Died(b, i)
<1>1. HasName(w.f[i])
  BY MannedFacts
<1>2. c.id = w.f[i].id /\ Same(w.f[i], c)
  BY <1>1, HurtFacts
<1> HIDE DEF c
<1>3. Manned(ids, g, t, b) /\ b.f[i] = c
  BY <1>2, WithManned, WithField
<1> HIDE DEF b
<1>4. b.f[i].id \in Troupe /\ Shape(b)
  BY <1>2, <1>3 DEF Manned
<1>5. u.f = b.f
  <2> DEFINE R == {j \in DOMAIN b.f : Up(b.f[j])}
             E == Each(b, "escape", InOrder(R))
             K == Reverse(Each(b, "slay", InOrder(R)))
  <2>1. u \in {b, Bottom(b, E), Top(b, K)}
    <3>1. b.f[i].id \in Minions \/ b.f[i].id \in Leaders
      BY <1>4 DEF Troupe
    <3>2. /\ b.f[i].id \in Minions => u = b
          /\ b.f[i].id \in Leaders => u \in {Bottom(b, E), Top(b, K)}
      BY <1>4, TroupeDied
    <3> HIDE DEF E, K, u
    <3> QED BY <3>1, <3>2
  <2> HIDE DEF E, K
  <2>2. Bottom(b, E).f = b.f /\ Top(b, K).f = b.f
    BY <1>4, QueueFields
  <2> QED BY <2>1, <2>2
<1> HIDE DEF u
<1>6. Damaged(u, i) = {u}
  BY <1>4, <1>5, TroupeUnmoved
<1> QED BY <1>6 DEF u, b, c

\* A blow at a record that is up.
LEMMA AttendedBlows ==
  ASSUME NEW ids, NEW g, NEW t, NEW w, Calm(ids, g, t, w), NEW L, NEW i \in DOMAIN g,
         Attended(w.f, w.q, L, {}), ~DeadOrEscaped(w.f[i]), NEW thorns
  PROVE  \A v \in Blows(w, i, thorns) : Attended(v.f, v.q, L, {})
<1> DEFINE m == w.f[i]
           hurt(h, q) == With(Bottom(w, q), i, [m EXCEPT !.hp = h])
           after(h, v) == IF h = None THEN Died(v, i) ELSE v
<1>1. Manned(ids, g, t, w) /\ AllStraight(g, w.q) /\ Shape(w) /\ IsList(w.q)
  BY DEF Calm, Manned, AllStraight
<1>2. HasName(m) /\ i \in DOMAIN w.f
  BY <1>1, MannedFacts
<1>3. Company(w.f, L) /\ m.hp \in Nat /\ m.hp # None /\ m.id \in Troupe /\ ~Half(m) /\ Up(m) /\ ~Escaped(m)
  <2>1. Company(w.f, L) /\ m.hp # None /\ ~Escaped(m)
    BY DEF Attended, DeadOrEscaped
  <2>2. m.hp \in Nat /\ ~Half(m) /\ m.id \in Troupe
    BY <1>2, <2>1 DEF Company, Troupe
  <2> QED BY <2>1, <2>2 DEF Up, None
<1>4. Bottom(w, <<>>) = w
  <2>1. w.q \o <<>> = w.q
    BY <1>1 DEF IsList
  <2>2. Bottom(w, <<>>) = [f |-> w.f, q |-> w.q \o <<>>, t |-> w.t, cl |-> w.cl]
    BY <1>1, QueueParts
  <2> QED BY <1>1, <2>1, <2>2 DEF Shape
<1>5. \A h : Struck(w, i, h, thorns) = Damaged(after(h, hurt(h, <<>>)), i)
  <2> TAKE h
  <2> DEFINE Q == IF h = None THEN {<<>>} ELSE Hooks(w, i, thorns)
  <2>1. Q = {<<>>}
    BY <1>3, TroupeUnmoved, Zenon
  <2>2. Struck(w, i, h, thorns) = UNION {Damaged(after(h, hurt(h, q)), i) : q \in Q}
    BY Zenon DEF Struck
  <2> DEFINE D(q) == Damaged(after(h, hurt(h, q)), i)
  <2>3. \A e : UNION {D(q) : q \in {e}} = D(e)
    <3> HIDE DEF D
    <3> QED OBVIOUS
  <2> HIDE DEF Q, after, hurt
  <2> QED BY <2>1, <2>2, <2>3, Zenon
<1>6. ASSUME NEW h \in Nat, h # None
      PROVE  \A v \in Struck(w, i, h, thorns) : Attended(v.f, v.q, L, {})
  <2> DEFINE c == [m EXCEPT !.hp = h]
             u == With(w, i, c)
  <2>1. c.id = m.id /\ c.hp = h /\ (Half(c) <=> Half(m)) /\ (Escaped(c) <=> Escaped(m)) /\ Same(m, c)
    BY <1>2, HurtFacts
  <2>2. Struck(w, i, h, thorns) = Damaged(u, i)
    BY <1>4, <1>5, <1>6, Zenon
  <2> HIDE DEF c
  <2>3. Manned(ids, g, t, u) /\ u.q = w.q
    BY <1>1, <2>1, WithManned
  <2>4. DOMAIN u.f = DOMAIN w.f /\ u.f[i] = c /\ \A j \in DOMAIN w.f \ {i} : u.f[j] = w.f[j]
    BY <1>1, WithField
  <2> HIDE DEF u
  <2>5. Damaged(u, i) = {u}
    BY <1>3, <2>1, <2>4, TroupeUnmoved
  <2>6. Attended(u.f, w.q, L, {})
    BY <1>2, <1>3, <1>6, <2>1, <2>4, AttendedWith
  <2> QED BY <2>2, <2>3, <2>5, <2>6
<1>7. \A v \in Struck(w, i, None, thorns) : Attended(v.f, v.q, L, {})
  <2> DEFINE u == Died(With(w, i, [m EXCEPT !.hp = None]), i)
  <2>1. Struck(w, i, None, thorns) = Damaged(u, i)
    BY <1>4, <1>5, Zenon
  <2>2. Damaged(u, i) = {u}
    BY <1>1, <1>3, TroupeDeath
  <2>3. Attended(u.f, u.q, L, {})
    <3>1. {} \subseteq {i}
      OBVIOUS
    <3> QED BY <1>1, <1>3, <3>1, AttendedDeath
  <2> QED BY <2>1, <2>2, <2>3
<1>8. Blows(w, i, thorns) = UNION {Struck(w, i, h, thorns) : h \in None .. m.hp}
  BY Zenon DEF Blows
<1>9. \A h \in None .. m.hp : h \in Nat
  BY <1>3 DEF None
<1> HIDE DEF m
<1> QED BY <1>6, <1>7, <1>8, <1>9

\* An item of theirs.
LEMMA AttendedExecuted ==
  ASSUME NEW ids, NEW g, NEW t, NEW w, Manned(ids, g, t, w), NEW L, NEW it, it.at \in DOMAIN g,
         it.op \in {"roll", "minion"} \/ AllStraight(g, w.q),
         Attended(w.f, w.q, L, Taken(it)),
         it.op \in CourtOps \cup {"minion", "slay", "escape"},
         it.op = "escape" => w.f[L].hp = None
  PROVE  \A v \in Executed(w, it) : Attended(v.f, v.q, L, {})
<1> DEFINE i == it.at
           m == w.f[i]
           c == [m EXCEPT !.hp = None]
           gone == With(w, i, c)
           S == Taken(it)
<1>1. HasName(m) /\ i \in DOMAIN w.f /\ Company(w.f, L)
  BY MannedFacts DEF Attended
<1>2. m.hp \in Nat /\ ~Half(m) /\ m.id \in Troupe /\ S \subseteq {i}
  BY <1>1 DEF Company, Troupe, Taken
<1>3. ASSUME NEW d, Same(m, d), ~Half(d), d.hp \in Nat, m.hp = None => d.hp = None,
             Escaped(m) => Escaped(d), i \in S => DeadOrEscaped(d),
             i = L => (d.hp = None <=> m.hp = None) /\ (d.hp # None => ~Escaped(d))
      PROVE  Attended(With(w, i, d).f, With(w, i, d).q, L, {})
  <2> DEFINE u == With(w, i, d)
  <2>1. Manned(ids, g, t, u) /\ u.q = w.q
    BY <1>3, WithManned
  <2>2. DOMAIN u.f = DOMAIN w.f /\ u.f[i] = d /\ \A j \in DOMAIN w.f \ {i} : u.f[j] = w.f[j]
    BY WithField
  <2>3. d.id = m.id
    BY <1>3 DEF Same
  <2> HIDE DEF u, m, S
  <2>4. Attended(u.f, w.q, L, {})
    BY <1>1, <1>2, <1>3, <2>2, <2>3, AttendedWith DEF m, S
  <2> QED BY <2>1, <2>4 DEF u
<1>4. Escaped(m) => i # L \/ m.hp = None
  BY DEF Attended, Reigns
<1>5. ASSUME NEW d, Kept(m, d), S = {} PROVE Attended(With(w, i, d).f, With(w, i, d).q, L, {})
  <2>1. Same(m, d) /\ ~Half(d) /\ d.hp = m.hp /\ (Escaped(d) <=> Escaped(m))
    BY <1>2, <1>5 DEF Kept
  <2> HIDE DEF m, S
  <2> QED BY <1>2, <1>3, <1>4, <1>5, <2>1
<1>6. \A d : Kept(m, d) => Same(m, d)
  BY DEF Kept
<1>7. Up(m) /\ it.op \notin {"roll", "minion"} => Attended(Died(gone, i).f, Died(gone, i).q, L, {})
  BY <1>2, AttendedDeath
<1>8. m.hp # None => Up(m)
  BY <1>2 DEF Up, None
<1>9. m = w.f[i]
  OBVIOUS
<1>10. CASE it.op = "hit"
  <2>1. Executed(w, it) = {w} \cup (IF DeadOrEscaped(m) THEN {} ELSE Blows(w, i, TRUE))
    BY <1>10, Zenon DEF Executed
  <2>2. S = {} /\ AllStraight(g, w.q)
    BY <1>10 DEF Taken
  <2>3. Attended(w.f, w.q, L, {}) /\ Calm(ids, g, t, w)
    BY <2>2 DEF Calm
  <2>4. ~DeadOrEscaped(m) => \A thorns : \A v \in Blows(w, i, thorns) : Attended(v.f, v.q, L, {})
    BY <2>3, AttendedBlows
  <2> HIDE DEF m
  <2>5. ~DeadOrEscaped(m) => \A v \in Blows(w, i, TRUE) : Attended(v.f, v.q, L, {})
    BY <2>4, Zenon
  <2> QED BY <2>1, <2>3, <2>5
<1>11. CASE it.op = "roll"
  <2>1. Executed(w, it) = {With(w, i, d) : d \in Chosen(w.f, i)}
    BY <1>11, Zenon DEF Executed
  <2>2. AllKept(m, Chosen(w.f, i))
    BY <1>1, <1>2, TroupeChosen
  <2>3. S = {}
    BY <1>11 DEF Taken
  <2> HIDE DEF m, S
  <2> QED BY <1>5, <2>1, <2>2, <2>3 DEF AllKept
<1>12. CASE it.op \in {"set", "minion"}
  <2>1. Executed(w, it) \in {{With(w, i, Move(m, it.v))}, {With(w, i, Raise(m, "minion"))}}
    BY <1>12, Zenon DEF Executed
  <2>2. S = {}
    BY <1>12 DEF Taken
  <2>3. \A v : Kept(m, Move(m, v)) /\ (v \notin {"half", "escaped"} => Kept(m, Raise(m, v)))
    BY <1>1, KeptShapes
  <2>4. Kept(m, Move(m, it.v)) /\ Kept(m, Raise(m, "minion"))
    BY <2>3
  <2> HIDE DEF m, S
  <2> QED BY <1>5, <2>1, <2>2, <2>4
<1>13. CASE it.op = "slay"
  <2>1. Executed(w, it) = {IF Up(m) THEN Died(gone, i) ELSE gone}
    BY <1>13, Zenon DEF Executed
  <2>2. ~Up(m) => Attended(gone.f, gone.q, L, {})
    <3> HAVE ~Up(m)
    <3>1. m.hp = None
      BY <1>8
    <3>2. c.id = m.id /\ c.hp = None /\ (Half(c) <=> Half(m)) /\ (Escaped(c) <=> Escaped(m)) /\ Same(m, c)
      BY <1>1, HurtFacts
    <3>3. None \in Nat
      BY DEF None
    <3> HIDE DEF m, c, S
    <3> QED BY <1>2, <1>3, <3>1, <3>2, <3>3 DEF DeadOrEscaped
  <2> HIDE DEF gone, m
  <2> QED BY <1>7, <1>13, <2>1, <2>2
<1>14. CASE it.op = "spend"
  <2>1. Executed(w, it) = IF Up(m) THEN Damaged(Died(gone, i), i) ELSE {w}
    BY <1>14, Zenon DEF Executed
  <2>2. Damaged(Died(gone, i), i) = {Died(gone, i)}
    BY <1>2, TroupeDeath
  <2>3. S = {}
    BY <1>14 DEF Taken
  <2> HIDE DEF gone, m
  <2> QED BY <1>7, <1>14, <2>1, <2>2, <2>3
<1>15. CASE it.op = "escape"
  <2>1. Executed(w, it) = {With(w, i, Raise(m, "escaped"))}
    BY <1>15, Zenon DEF Executed
  <2> DEFINE d == Raise(m, "escaped")
  <2>2. Same(m, d) /\ d.hp = m.hp /\ d.on = m.on \cup {"escaped"}
    BY <1>1, MoveKeeps DEF Raise, HasName
  <2> HIDE DEF d
  <2>3. ~Half(d) /\ Escaped(d) /\ DeadOrEscaped(d)
    BY <1>2, <2>2 DEF Half, Escaped, DeadOrEscaped
  <2>4. i = L => m.hp = None
    BY <1>15
  <2> HIDE DEF m, S
  <2>5. Attended(With(w, i, d).f, With(w, i, d).q, L, {})
    BY <1>2, <1>3, <2>2, <2>3, <2>4
  <2> QED BY <2>1, <2>5 DEF d, m
<1>16. it.op \in {"hit", "roll", "set", "minion", "slay", "spend", "escape"}
  BY DEF CourtOps
<1> QED BY <1>10, <1>11, <1>12, <1>13, <1>14, <1>15, <1>16

\* The dead of a company.
LEMMA BuriedAs ==
  ASSUME NEW m, HasName(m)
  PROVE  /\ Buried(m).hp = m.hp /\ Buried(m).id = m.id /\ (Half(Buried(m)) => Half(m))
         /\ DeadOrEscaped(m) => DeadOrEscaped(Buried(m))
         /\ Escaped(Buried(m)) => Escaped(m)
<1> DEFINE none == <<"-", "-">>
           e == [m EXCEPT !.moves = none, !.on = {}, !.n = 0, !.k = 0]
<1>1. Buried(m) = IF IsDying(m) THEN e ELSE m
  BY Zenon DEF Buried
<1>2. \A a : [m EXCEPT !.moves = a, !.on = {}, !.n = 0, !.k = 0].hp = m.hp
  BY DEF HasName
<1>3. \A a : [m EXCEPT !.moves = a, !.on = {}, !.n = 0, !.k = 0].on = {}
  BY DEF HasName
<1>4. e.hp = m.hp /\ e.on = {}
  BY <1>2, <1>3
<1>5. Buried(m).id = m.id
  BY BuriedKeeps DEF Same
<1> HIDE DEF e
<1> QED BY <1>1, <1>4, <1>5 DEF Half, Escaped, DeadOrEscaped, IsDying

\* A step that leaves such a world.
LEMMA AttendedBecome ==
  ASSUME NEW ids, NEW g, NEW t, NEW v, Manned(ids, g, t, v), NEW L, Attended(v.f, v.q, L, {}), Become(v)
  PROVE  Attended(field', items', L, {})
<1> DEFINE h == [j \in DOMAIN v.f |-> Buried(v.f[j])]
<1>1. field' = h /\ items' = v.q
  BY DEF Become
<1>2. \A j \in DOMAIN v.f : HasName(v.f[j])
  BY MannedFacts
<1>3. DOMAIN h = DOMAIN v.f /\ \A j \in DOMAIN v.f : h[j] = Buried(v.f[j])
  OBVIOUS
<1> HIDE DEF h
<1>4. ASSUME NEW j \in DOMAIN v.f
      PROVE  /\ h[j].hp = v.f[j].hp /\ h[j].id = v.f[j].id /\ (Half(h[j]) => Half(v.f[j]))
             /\ DeadOrEscaped(v.f[j]) => DeadOrEscaped(h[j])
             /\ Escaped(h[j]) => Escaped(v.f[j])
  BY <1>2, <1>3, BuriedAs
<1>5. Company(v.f, L)
  BY DEF Attended
<1>6. Company(h, L)
  BY <1>3, <1>4, <1>5 DEF Company
<1>7. L \in DOMAIN v.f
  BY <1>5 DEF Company
<1>8. CASE v.f[L].hp = None
  <2>1. Fallen(v.f, v.q, L, {})
    BY <1>8 DEF Attended
  <2>2. Fallen(h, v.q, L, {})
    BY <1>3, <1>4, <2>1 DEF Fallen
  <2> QED BY <1>1, <1>4, <1>6, <1>7, <1>8, <2>2 DEF Attended
<1>9. CASE v.f[L].hp # None
  <2>1. Reigns(v.f, v.q, L)
    BY <1>9 DEF Attended
  <2>2. Reigns(h, v.q, L)
    BY <1>4, <1>7, <2>1 DEF Reigns
  <2> QED BY <1>1, <1>4, <1>6, <1>7, <1>9, <2>2 DEF Attended
<1> QED BY <1>8, <1>9

-----------------------------------------------------------------------------
\* A record changed where it stands, in a list it was inserted in.
LEMMA InsertsOther ==
  ASSUME NEW s, Len(s) \in Nat, NEW p \in Nat, NEW e, NEW h, Inserts(s, p, e, h), NEW d, NEW k, Len(k) = Len(h),
         k[p] = d, \A j \in DOMAIN h \ {p} : k[j] = h[j], DOMAIN h = 1..Len(h), p \in 1..Len(h)
  PROVE  Inserts(s, p, d, k)
<1>1. ASSUME NEW j \in 1..Len(s) PROVE k[Shifted(j, p)] = s[j]
  <2>1. Shifted(j, p) \in DOMAIN h \ {p}
    BY DEF Shifted, Inserts
  <2> QED BY <2>1 DEF Inserts
<1> QED BY <1>1 DEF Inserts

\* A record of the kind in a slot among the others, as it lives.
Enters(f, kid, v, O, K) ==
  \E slot \in 1..(Len(f) + 1) : \E d :
    /\ Inserts(f, slot, d, v.f) /\ d.id = kid.id /\ d.hp = kid.hp
    /\ (d.id \in Troupe => ~Half(d))
    /\ Brings(v.q, O, K)
    /\ DOMAIN v.f = 1..(Len(f) + 1)

\* A spawn lets it enter, and may queue its MINION.
LEMMA SpawnedBrings ==
  ASSUME NEW ids, NEW g, NEW t, NEW w, Manned(ids, g, t, w), TurnsAim(g, t), NEW it, it.at \in Nat \ {0},
         it.kid.id \in Troupe \cup Offspring, NEW O, NEW K, "minion" \in O, Brings(w.q, O, K)
  PROVE  \A v \in Spawned(w, it) : Enters(w.f, it.kid, v, O, K)
<1> DEFINE at == it.at
           slot == SlotOf(g, at)
           name == Len(g) + 1
           h == Grown(g, at)
           u == Pushed(t, slot)
           m == Made(name, it.kid.id, it.kid.x)
           born == Born(w, slot, m)
           ks == Kinds(born.f)
           minion(s) == Item("minion", s, name, "-", NoKid)
           settled == Settled(slot, w.q)
           ready == CASE it.kid.minion = "top" -> Top(born, <<minion(slot)>>)
                      [] it.kid.minion = "bottom" -> Bottom(born, <<minion(settled)>>)
                      [] OTHER -> born
<1>1. g \in Seq(Nat) /\ Len(g) = Len(w.f) /\ Len(g) \in Nat /\ Shape(w) /\ Field(w.f)
  BY MannedFacts DEF Manned
<1>2. HasName(m) /\ m.who = name /\ m.id = it.kid.id /\ ~Half(m)
  BY <1>1, MadeNamed, MadeAs
<1>3. Manned(ks, h, u, born) /\ born.q = w.q
  <2> HIDE DEF m
  <2> QED BY <1>2, BornManned
<1>4. slot \in 1..(Len(g) + 1) /\ Len(h) = Len(g) + 1 /\ DOMAIN h = 1..(Len(g) + 1)
  BY <1>1, GrownFacts
<1>5. Inserts(w.f, slot, m, born.f)
  <2>1. born = [f |-> InsertAt(w.f, slot, m), q |-> w.q, t |-> Pushed(w.t, slot), cl |-> w.cl]
    BY <1>1, BornParts
  <2>2. PICK X : w.f \in Seq(X)
    BY <1>1 DEF Field, IsList
  <2>3. w.f \in Seq(X \cup {m}) /\ m \in X \cup {m}
    BY <2>2
  <2> HIDE DEF slot, m
  <2>4. Inserts(w.f, slot, m, InsertAt(w.f, slot, m))
    BY <2>3, <1>1, <1>4, InsertFacts
  <2> HIDE DEF born
  <2> QED BY <2>1, <2>4
<1> HIDE DEF h, u, m, slot, name, settled, born, ks, minion
<1>6. Manned(ks, h, u, ready) /\ Brings(ready.q, O, K) /\ ready.f = born.f
  <2>1. Shape(born)
    BY <1>3 DEF Manned
  <2>2. \A s : Brings(<<minion(s)>>, O, K)
    <3>1. \A s : minion(s).op = "minion"
      BY ItemFields DEF minion
    <3>2. \A s : Allowed(minion(s), O, K)
      BY <3>1 DEF Allowed
    <3> QED BY <3>2, BringsFew
  <2>3. \A s : /\ Brings(w.q \o <<minion(s)>>, O, K) /\ Brings(<<minion(s)>> \o w.q, O, K)
    BY <2>2, BringsJoined
  <2>4. \A x : /\ Bottom(born, <<x>>).q = born.q \o <<x>> /\ Bottom(born, <<x>>).f = born.f
               /\ Top(born, <<x>>).q = <<x>> \o born.q /\ Top(born, <<x>>).f = born.f
    BY <2>1, QueueFields
  <2>5. \A x : Manned(ks, h, u, Bottom(born, <<x>>)) /\ Manned(ks, h, u, Top(born, <<x>>))
    BY <1>3, QueueManned
  <2>6. \A s : /\ Brings(Bottom(born, <<minion(s)>>).q, O, K) /\ Brings(Top(born, <<minion(s)>>).q, O, K)
               /\ Bottom(born, <<minion(s)>>).f = born.f /\ Top(born, <<minion(s)>>).f = born.f
               /\ Manned(ks, h, u, Bottom(born, <<minion(s)>>)) /\ Manned(ks, h, u, Top(born, <<minion(s)>>))
    BY <1>3, <2>3, <2>4, <2>5
  <2>7. ready \in {Top(born, <<minion(slot)>>), Bottom(born, <<minion(settled)>>), born}
    OBVIOUS
  <2> HIDE DEF ready
  <2> QED BY <2>6, <2>7, <1>3
<1>7. \A v \in Spawned(w, it) : \E c \in Opened(born.f, slot, it.kid.id) :
         v = With(ready, slot, [c EXCEPT !.hp = it.kid.hp])
  <2>1. slot = IF it.at > Len(w.f) THEN Len(w.f) + 1 ELSE it.at
    BY <1>1 DEF slot, SlotOf
  <2>2. name = Len(w.f) + 1
    BY <1>1 DEF name
  <2> QED BY <2>1, <2>2, SpawnedIs DEF born, m, minion, settled
<1> HIDE DEF ready
<1> TAKE v \in Spawned(w, it)
<1>8. PICK c \in Opened(born.f, slot, it.kid.id) : v = With(ready, slot, [c EXCEPT !.hp = it.kid.hp])
  BY <1>7
<1>9. born.f[slot] = m /\ HasName(born.f[slot])
  BY <1>2, <1>5 DEF Inserts
<1>10. Same(m, c) /\ HasName(c) /\ (m.id \in Troupe => ~Half(c))
  <2>1. AllSame(born.f[slot], Opened(born.f, slot, it.kid.id))
    BY <1>9, OpenedKeeps
  <2>2. m.id \in Troupe => AllKept(born.f[slot], Opened(born.f, slot, it.kid.id))
    BY <1>9, OpenedKept
  <2> QED BY <2>1, <2>2, <1>2, <1>9 DEF AllSame, AllKept, Kept, Same
<1> DEFINE d == [c EXCEPT !.hp = it.kid.hp]
<1>11. d.id = c.id /\ d.hp = it.kid.hp /\ (Half(d) <=> Half(c)) /\ Same(c, d)
  BY <1>10, HurtFacts
<1> HIDE DEF d
<1>12. d.id = it.kid.id /\ (d.id \in Troupe => ~Half(d)) /\ Same(m, d)
  BY <1>2, <1>10, <1>11, SameTwice DEF Same
<1>13. Manned(ks, h, u, With(ready, slot, d)) /\ With(ready, slot, d).q = ready.q
  BY <1>12, <1>4, <1>6, <1>9, WithManned
<1>14. /\ DOMAIN With(ready, slot, d).f = DOMAIN ready.f /\ With(ready, slot, d).f[slot] = d
       /\ \A j \in DOMAIN ready.f \ {slot} : With(ready, slot, d).f[j] = ready.f[j]
  <2>1. slot \in DOMAIN h /\ Manned(ks, h, u, ready)
    BY <1>4, <1>6
  <2> HIDE DEF ready
  <2>2. \A e : /\ DOMAIN With(ready, slot, e).f = DOMAIN ready.f /\ With(ready, slot, e).f[slot] = e
               /\ \A j \in DOMAIN ready.f \ {slot} : With(ready, slot, e).f[j] = ready.f[j]
    BY <2>1, WithField
  <2> QED BY <2>2
<1>15. v = With(ready, slot, d)
  BY <1>8 DEF d
<1>16. Len(v.f) = Len(w.f) + 1 /\ DOMAIN v.f = 1..Len(v.f) /\ DOMAIN born.f = 1..Len(born.f)
       /\ Len(born.f) = Len(w.f) + 1
  <2>1. Manned(ks, h, u, v)
    BY <1>13, <1>15
  <2>2. Len(v.f) = Len(h) /\ DOMAIN v.f = 1..Len(v.f)
    BY <2>1, MannedFacts
  <2>3. Len(born.f) = Len(h) /\ DOMAIN born.f = 1..Len(born.f)
    BY <1>3, MannedFacts
  <2> QED BY <1>1, <1>4, <2>2, <2>3
<1>17. Inserts(w.f, slot, d, v.f)
  <2>1. /\ Len(w.f) \in Nat /\ slot \in Nat /\ Len(v.f) = Len(born.f) /\ v.f[slot] = d
        /\ \A j \in DOMAIN born.f \ {slot} : v.f[j] = born.f[j]
        /\ slot \in 1..Len(born.f)
    BY <1>1, <1>4, <1>6, <1>14, <1>15, <1>16
  <2> QED BY <2>1, <1>5, <1>16, InsertsOther
<1> QED BY <1>1, <1>4, <1>6, <1>11, <1>12, <1>13, <1>15, <1>16, <1>17 DEF Enters

\* A summons of a leader that lives.
LEMMA AttendedSpawned ==
  ASSUME NEW ids, NEW g, NEW t, NEW w, Manned(ids, g, t, w), TurnsAim(g, t), NEW it, it.at \in Nat \ {0},
         it.kid.id \in Minions, it.kid.hp \in Nat, NEW L, Attended(w.f, w.q, L, {}), w.f[L].hp # None
  PROVE  \A v \in Spawned(w, it) : \E M : Attended(v.f, v.q, M, {})
<1> TAKE v \in Spawned(w, it)
<1>1. Company(w.f, L) /\ Reigns(w.f, w.q, L)
  BY DEF Attended
<1>2. it.kid.id \in Troupe \cup Offspring /\ it.kid.id \in Troupe
  BY DEF Troupe
<1>3. Brings(w.q, ReignOps, Minions) /\ "minion" \in ReignOps /\ ~Escaped(w.f[L])
  BY <1>1 DEF Reigns, ReignOps
<1>4. \A u \in Spawned(w, it) : Enters(w.f, it.kid, u, ReignOps, Minions)
  BY <1>2, <1>3, SpawnedBrings
<1>0. PICK slot \in 1..(Len(w.f) + 1) : \E d :
           /\ Inserts(w.f, slot, d, v.f) /\ d.id = it.kid.id /\ d.hp = it.kid.hp
           /\ (d.id \in Troupe => ~Half(d))
           /\ Brings(v.q, ReignOps, Minions)
           /\ DOMAIN v.f = 1..(Len(w.f) + 1)
  BY <1>4 DEF Enters
<1>5. PICK d :
           /\ Inserts(w.f, slot, d, v.f) /\ d.id = it.kid.id /\ d.hp = it.kid.hp
           /\ (d.id \in Troupe => ~Half(d))
           /\ Brings(v.q, ReignOps, Minions)
           /\ DOMAIN v.f = 1..(Len(w.f) + 1)
  BY <1>0
<1> DEFINE n == Len(w.f)
           M == Shifted(L, slot)
<1>6. n \in Nat /\ DOMAIN w.f = 1..n
  BY MannedFacts
<1>7. L \in 1..n /\ w.f[L].id \in Leaders
  BY <1>1, <1>6 DEF Company
<1>8. M \in 1..(n + 1)
  BY <1>5, <1>6, <1>7, ShiftedIn
<1>9. v.f[M] = w.f[L] /\ v.f[slot] = d /\ \A i \in 1..n : v.f[Shifted(i, slot)] = w.f[i]
  BY <1>5, <1>7 DEF Inserts
<1> HIDE DEF n
<1>10. ASSUME NEW j \in 1..(n + 1)
       PROVE  ~Half(v.f[j]) /\ v.f[j].hp \in Nat /\ (j # M => v.f[j].id \in Minions)
  <2>1. slot \in 1..(n + 1)
    BY <1>5 DEF n
  <2>2. j = slot \/ \E i \in 1..n : j = Shifted(i, slot)
    BY <2>1, <1>6, InsertCovers
  <2>3. CASE j = slot
    BY <2>3, <1>2, <1>5, <1>9
  <2>4. CASE \E i \in 1..n : j = Shifted(i, slot)
    <3>1. PICK i \in 1..n : j = Shifted(i, slot)
      BY <2>4
    <3>2. i \in DOMAIN w.f /\ v.f[j] = w.f[i]
      BY <3>1, <1>6, <1>9
    <3>3. i = L \/ w.f[i].id \in Minions
      BY <3>2, <1>1 DEF Company
    <3> HIDE DEF M
    <3>4. i = L => j = M
      BY <3>1 DEF M
    <3> QED BY <3>2, <3>3, <3>4, <1>1 DEF Company
  <2> QED BY <2>2, <2>3, <2>4
<1> HIDE DEF M
<1>11. Company(v.f, M)
  BY <1>5, <1>7, <1>8, <1>9, <1>10 DEF Company, n
<1>12. Reigns(v.f, v.q, M) /\ v.f[M].hp # None
  BY <1>3, <1>5, <1>9 DEF Reigns
<1> QED BY <1>11, <1>12 DEF Attended

\* A turn in such a company.
LEMMA AttendedTurn ==
  ASSUME NEW ids, NEW g, NEW t, NEW w, Manned(ids, g, t, w), w.q = <<>>, NEW L, Attended(w.f, w.q, L, {}),
         NEW i \in DOMAIN g, ~BasicallyDead(w.f[i])
  PROVE  \A v \in TakeTurn(w, i) : Attended(v.f, v.q, L, {})
<1> DEFINE m == w.f[i]
<1>1. HasName(m) /\ i \in DOMAIN w.f /\ Company(w.f, L)
  BY MannedFacts DEF Attended
<1>2. ~Half(m) /\ m.hp \in Nat /\ m.hp # None /\ ~Escaped(m) /\ m.id \in Troupe
  BY <1>1 DEF Company, BasicallyDead, IsDying, Troupe
<1>3. Len(<<>>) = 0 /\ 1..0 = {} /\ ~Doomed(w.q, i)
  BY DEF Doomed
<1>4. w.f[L].hp # None
  <2> SUFFICES ASSUME w.f[L].hp = None PROVE FALSE
    OBVIOUS
  <2>1. Fallen(w.f, w.q, L, {})
    BY DEF Attended
  <2>2. i # L
    BY <1>2
  <2> QED BY <1>1, <1>2, <1>3, <2>1, <2>2 DEF Fallen, DeadOrEscaped
<1>5. Staid(m, Turned(w.f, i))
  BY <1>1, <1>2, TroupeTurned
<1>6. \A v \in TakeTurn(w, i) : \E s \in Turned(w.f, i) : \E q \in Laid(w, i, s.q) :
        v = Bottom(With(w, i, s.m), q)
  BY DEF TakeTurn
<1>7. ASSUME NEW s \in Turned(w.f, i), NEW q \in Laid(w, i, s.q)
      PROVE  LET v == Bottom(With(w, i, s.m), q) IN Attended(v.f, v.q, L, {})
  <2> DEFINE c == s.m
             b == With(w, i, c)
             v == Bottom(b, q)
  <2>1. Kept(m, c) /\ Courtly(s.q)
    BY <1>5 DEF Staid
  <2>2. Brings(q, ReignOps, Minions)
    BY <2>1, <1>2, LaidCourtly
  <2>3. Same(m, c) /\ c.id = m.id /\ ~Half(c) /\ c.hp = m.hp /\ (Escaped(c) <=> Escaped(m))
    BY <2>1, <1>2 DEF Kept, Same
  <2>4. Manned(ids, g, t, b) /\ b.q = w.q
    BY <2>3, WithManned
  <2>5. DOMAIN b.f = DOMAIN w.f /\ b.f[i] = c /\ \A j \in DOMAIN w.f \ {i} : b.f[j] = w.f[j]
    BY WithField
  <2> HIDE DEF b, c
  <2>6. Attended(b.f, w.q, L, {})
    <3> HIDE DEF m
    <3>1. m = w.f[i]
      BY DEF m
    <3> QED BY <1>1, <1>2, <2>3, <2>5, <3>1, AttendedWith
  <2>7. b.f[L].hp # None
    <3>1. L = i \/ L # i
      OBVIOUS
    <3> QED BY <3>1, <1>1, <1>4, <2>3, <2>5 DEF Company
  <2>8. v.f = b.f /\ v.q = b.q \o q
    BY <2>4, QueueFields DEF Manned
  <2>9. Company(b.f, L) /\ Reigns(b.f, w.q, L)
    BY <2>6, <2>7 DEF Attended
  <2>10. Brings(v.q, ReignOps, Minions)
    BY <2>2, <2>4, <2>8, <2>9, BringsJoined DEF Reigns
  <2> HIDE DEF v
  <2>11. Attended(v.f, v.q, L, {})
    BY <2>7, <2>8, <2>9, <2>10 DEF Attended, Reigns
  <2> QED BY <2>11 DEF v, b, c
<1> QED BY <1>6, <1>7

-----------------------------------------------------------------------------
\* Nobody but a leader is made a leader.
LEMMA MadeElse ==
  ASSUME NEW who \in Nat, NEW id, id \notin Leaders, NEW x PROVE Made(who, id, x).id \notin Leaders
<1> DEFINE kind == CASE id = "LAGAVULIN_AWAKE" -> "LAGAVULIN"
                     [] id = "JAW_WORM_HARD" -> "JAW_WORM"
                     [] OTHER -> id
           hp == IF id \in Halves THEN Well ELSE Low
           r == Record(who, kind, hp, x)
<1>1. kind \notin Leaders
  <2>1. kind \in {"LAGAVULIN", "JAW_WORM", id}
    BY Zenon
  <2>2. "LAGAVULIN" \notin Leaders /\ "JAW_WORM" \notin Leaders
    BY DEF Leaders
  <2> HIDE DEF kind
  <2> QED BY <2>1, <2>2
<1> HIDE DEF kind, hp
<1>2. PICK v : Made(who, id, x) \in {[r EXCEPT !.on = v], [r EXCEPT !.n = v], r}
  BY Zenon DEF Made, kind, hp
<1>3. HasName(r) /\ r.id = kind
  BY DEF Record, HasName
<1> HIDE DEF r
<1>4. Same(r, r) /\ Same(r, [r EXCEPT !.on = v]) /\ Same(r, [r EXCEPT !.n = v])
  BY <1>3, FieldKeeps, SameAsItself
<1> QED BY <1>1, <1>2, <1>3, <1>4 DEF Same

\* The records of an encounter as the fight begins.
LEMMA FieldsMade ==
  ASSUME NEW g \in Seq(STRING), NEW f \in Fields(g)
  PROVE  /\ DOMAIN f = DOMAIN g
         /\ \A i \in DOMAIN g :
              /\ g[i] \notin Leaders => f[i].id \notin Leaders
              /\ g[i] \in Troupe => /\ f[i].id = g[i] /\ ~Half(f[i]) /\ ~Escaped(f[i])
                                    /\ f[i].hp \in Nat /\ f[i].hp # None
<1> DEFINE made == [i \in DOMAIN g |-> Made(i, g[i], PlaceOf(g, i))]
           led == \E j \in DOMAIN g : g[j] \in {"GREMLIN_LEADER", "REPTOMANCER"}
           minion(i) == led /\ g[i] \notin {"GREMLIN_LEADER", "REPTOMANCER"}
           ready(i) == {IF minion(i) THEN Raise(PreBattle(m), "minion") ELSE PreBattle(m)
                          : m \in Opened(made, i, g[i])}
           X == UNION {ready(i) : i \in DOMAIN g}
<1>1. Fields(g) = {e \in [DOMAIN g -> X] : \A i \in DOMAIN g : e[i] \in ready(i)}
  BY Zenon DEF Fields
<1>2. ASSUME NEW i \in DOMAIN g, NEW c \in ready(i)
      PROVE  /\ g[i] \notin Leaders => c.id \notin Leaders
             /\ g[i] \in Troupe => c.id = g[i] /\ ~Half(c) /\ ~Escaped(c) /\ c.hp \in Nat /\ c.hp # None
  <2>1. i \in Nat /\ made[i] = Made(i, g[i], PlaceOf(g, i))
    OBVIOUS
  <2>2. HasName(made[i]) /\ (g[i] \notin Leaders => made[i].id \notin Leaders)
    BY <2>1, MadeNamed, MadeElse
  <2>3. g[i] \in Troupe => /\ made[i].id = g[i] /\ ~Half(made[i]) /\ ~Escaped(made[i])
                           /\ made[i].hp \in Nat /\ made[i].hp # None
    <3> SUFFICES ASSUME g[i] \in Troupe
                 PROVE  /\ made[i].id = g[i] /\ ~Half(made[i]) /\ ~Escaped(made[i])
                        /\ made[i].hp \in Nat /\ made[i].hp # None
      OBVIOUS
    <3>1. g[i] \in Troupe \cup Offspring
      OBVIOUS
    <3> HIDE DEF made
    <3> QED BY <2>1, <3>1, MadeAs
  <2>4. PICK m \in Opened(made, i, g[i]) : c = Raise(PreBattle(m), "minion") \/ c = PreBattle(m)
    OBVIOUS
  <2> HIDE DEF made, ready, X
  <2>5. Same(made[i], m)
    <3>1. AllSame(made[i], Opened(made, i, g[i]))
      BY <2>2, OpenedKeeps
    <3> QED BY <3>1 DEF AllSame
  <2>6. Same(m, PreBattle(m)) /\ HasName(m)
    BY <2>5, PreBattleKeeps DEF Same
  <2>7. Same(PreBattle(m), Raise(PreBattle(m), "minion"))
    BY <2>6, MoveKeeps DEF Same
  <2>8. c.id = made[i].id
    BY <2>4, <2>5, <2>6, <2>7 DEF Same
  <2>9. made[i].id \in Troupe => Kept(made[i], c)
    <3> SUFFICES ASSUME made[i].id \in Troupe PROVE Kept(made[i], c)
      OBVIOUS
    <3>1. Kept(made[i], m)
      <4>1. AllKept(made[i], Opened(made, i, g[i]))
        BY <2>2, OpenedKept
      <4> QED BY <4>1 DEF AllKept
    <3>2. m.id \in Troupe
      BY <2>5 DEF Same
    <3>3. PreBattle(m) = m
      BY <3>2, PreBattleKept
    <3>4. Kept(m, m) /\ Kept(m, Raise(m, "minion"))
      BY <2>6, KeptShapes
    <3> QED BY <2>4, <3>1, <3>3, <3>4, KeptTwice
  <2> QED BY <2>2, <2>3, <2>8, <2>9 DEF Kept
<1> HIDE DEF ready, X
<1> QED BY <1>1, <1>2

-----------------------------------------------------------------------------
\* A fight without a leader, and none to come; or a leader and its minions.
Common(ids, q) == (\A j \in DOMAIN ids : ids[j] \notin Leaders) /\ Brings(q, AnyOp, Offspring)
Court(f, q) == \E L : Attended(f, q, L, {})
Cast == \/ phase = "over"
        \/ Common(Kinds(field), items)
        \/ Court(field, items)

\* The kinds of a field.
LEMMA KindsFacts ==
  ASSUME NEW f, Field(f)
  PROVE  /\ DOMAIN Kinds(f) = DOMAIN f /\ \A j \in DOMAIN f : Kinds(f)[j] = f[j].id
  BY NamesFacts DEF Kinds

\* An encounter has a leader with its minions, or none.
LEMMA InitCast == ASSUME Init PROVE Cast
<1>1. PICK g \in Groups : field \in Fields(g)
  BY DEF Init
<1>2. g \in Seq(STRING)
  BY GroupsAssumption
<1>3. Field(field) /\ items = <<>>
  BY <1>1, <1>2, FieldsNamed DEF Init
<1>4. DOMAIN field = DOMAIN g
  BY <1>1, <1>2, FieldsMade
<1>5. \A i \in DOMAIN g :
        /\ g[i] \notin Leaders => field[i].id \notin Leaders
        /\ g[i] \in Troupe => /\ field[i].id = g[i] /\ ~Half(field[i]) /\ ~Escaped(field[i])
                              /\ field[i].hp \in Nat /\ field[i].hp # None
  BY <1>1, <1>2, FieldsMade
<1>6. CASE \A i \in DOMAIN g : g[i] \notin Leaders
  <2>1. \A j \in DOMAIN Kinds(field) : Kinds(field)[j] \notin Leaders
    BY <1>3, <1>4, <1>5, <1>6, KindsFacts
  <2>2. Brings(items, AnyOp, Offspring)
    BY <1>3, BringsFew
  <2> QED BY <2>1, <2>2 DEF Cast, Common
<1>7. CASE \E i \in DOMAIN g : g[i] \in Leaders
  <2>1. PICK L \in DOMAIN g : g[L] \in Leaders
    BY <1>7
  <2>2. \A j \in DOMAIN g \ {L} : g[j] \in Minions
    BY <2>1, CastAssumption
  <2>3. \A j \in DOMAIN g : g[j] \in Troupe
    BY <2>1, <2>2 DEF Troupe
  <2>4. Company(field, L)
    BY <1>4, <1>5, <2>1, <2>2, <2>3 DEF Company
  <2>5. Brings(items, ReignOps, Minions)
    BY <1>3, BringsFew
  <2>6. Attended(field, items, L, {})
    BY <1>5, <2>1, <2>3, <2>4, <2>5 DEF Attended, Reigns
  <2> QED BY <2>6 DEF Cast, Court
<1> QED BY <1>6, <1>7

\* A blow of the player.
LEMMA StrikeCast == ASSUME Aimed, Cast, NEW i \in DOMAIN field, Strike(i) PROVE Cast'
<1> DEFINE g == Names(field)
           ids == Kinds(field)
<1>1. Manned(ids, g, turns, World) /\ World.q = items /\ World.f = field /\ DOMAIN g = DOMAIN field
  BY WorldManned, NamesFacts DEF Aimed
<1>2. AllStraight(g, items) /\ phase # "over" /\ ~DeadOrEscaped(field[i])
  BY DEF Aimed, Strike
<1>3. Calm(ids, g, turns, World)
  BY <1>1, <1>2 DEF Calm
<1>4. PICK w \in Blows(World, i, FALSE) : Become(w)
  BY DEF Strike
<1>5. Calm(ids, g, turns, w)
  <2>1. \A b : \A v \in Blows(World, i, b) : Calm(ids, g, turns, v)
    BY <1>1, <1>3, BlowsCalm
  <2> QED BY <2>1, <1>4
<1>6. Manned(ids, g, turns, w) /\ AllStraight(g, w.q)
  BY <1>5 DEF Calm
<1> HIDE DEF g, ids
<1>7. CASE Common(ids, items)
  <2>1. Kinds(field') = ids /\ items' = w.q
    BY <1>4, <1>6, BecomeAims
  <2>2. Brings(w.q, AnyOp, Offspring)
    BY <1>6, StraightBrings DEF AnyOp
  <2> QED BY <1>7, <2>1, <2>2 DEF Cast, Common
<1>8. CASE Court(field, items)
  <2>1. PICK L : Attended(field, items, L, {})
    BY <1>8 DEF Court
  <2>2. \A b : \A v \in Blows(World, i, b) : Attended(v.f, v.q, L, {})
    BY <1>1, <1>2, <1>3, <2>1, AttendedBlows
  <2>3. Attended(w.f, w.q, L, {})
    BY <1>4, <2>2
  <2>4. Attended(field', items', L, {})
    BY <1>4, <1>6, <2>3, AttendedBecome
  <2> QED BY <2>4 DEF Cast, Court
<1> QED BY <1>2, <1>7, <1>8 DEF Cast, ids

\* A spawn in a fight without a leader.
LEMMA CommonSpawned ==
  ASSUME NEW ids, NEW g, NEW t, NEW w, Manned(ids, g, t, w), TurnsAim(g, t), NEW it, it.at \in Nat \ {0},
         it.kid.id \in Offspring, Common(ids, w.q)
  PROVE  \A v \in Spawned(w, it) : Field(v.f) => Common(Kinds(v.f), v.q)
<1>1. \A j \in DOMAIN w.f : w.f[j].id \notin Leaders
  BY KindsFacts DEF Manned, Common
<1>2. it.kid.id \in Troupe \cup Offspring /\ it.kid.id \notin Leaders
  BY DEF Offspring, Minions, Gremlins, Leaders
<1>3. Brings(w.q, AnyOp, Offspring) /\ "minion" \in AnyOp
  BY DEF Common, AnyOp, PlainOps
<1>4. \A u \in Spawned(w, it) : Enters(w.f, it.kid, u, AnyOp, Offspring)
  BY <1>2, <1>3, SpawnedBrings
<1> TAKE v \in Spawned(w, it)
<1> HAVE Field(v.f)
<1>0. PICK slot \in 1..(Len(w.f) + 1) : \E d :
           /\ Inserts(w.f, slot, d, v.f) /\ d.id = it.kid.id
           /\ Brings(v.q, AnyOp, Offspring)
           /\ DOMAIN v.f = 1..(Len(w.f) + 1)
  BY <1>4 DEF Enters
<1>5. PICK d :
           /\ Inserts(w.f, slot, d, v.f) /\ d.id = it.kid.id
           /\ Brings(v.q, AnyOp, Offspring)
           /\ DOMAIN v.f = 1..(Len(w.f) + 1)
  BY <1>0
<1> DEFINE n == Len(w.f)
<1>6. n \in Nat /\ DOMAIN w.f = 1..n
  BY MannedFacts
<1>7. v.f[slot] = d /\ \A i \in 1..n : v.f[Shifted(i, slot)] = w.f[i]
  BY <1>5 DEF Inserts
<1> HIDE DEF n
<1>8. ASSUME NEW j \in 1..(n + 1) PROVE v.f[j].id \notin Leaders
  <2>1. slot \in 1..(n + 1)
    BY <1>5 DEF n
  <2>2. j = slot \/ \E i \in 1..n : j = Shifted(i, slot)
    BY <2>1, <1>6, InsertCovers
  <2> QED BY <2>2, <1>1, <1>2, <1>5, <1>6, <1>7
<1>9. \A j \in DOMAIN Kinds(v.f) : Kinds(v.f)[j] \notin Leaders
  BY <1>5, <1>8, KindsFacts DEF n
<1> QED BY <1>5, <1>9 DEF Common

\* One item, where no leader is.
LEMMA RunItemCommon == ASSUME Aimed, Common(Kinds(field), items), RunItem PROVE Cast'
<1> DEFINE g == Names(field)
           ids == Kinds(field)
           it == Head(items)
           rest == Tail(items)
           w == [World EXCEPT !.q = rest]
<1>1. Manned(ids, g, turns, w) /\ w.q = rest
  <2> HIDE DEF rest
  <2> QED BY WorldManned
<1>2. items # <<>>
  BY DEF RunItem
<1>3. w = [World EXCEPT !.q = Tail(@)]
  BY DEF World
<1>4. PICK v \in Executed(w, it) : Become(v)
  BY <1>3 DEF RunItem
<1> HIDE DEF w
<1>5. Allowed(it, AnyOp, Offspring) /\ Brings(rest, AnyOp, Offspring)
  BY <1>2, BringsTail DEF Common
<1> HIDE DEF it, rest
<1>6. Common(ids, rest)
  BY <1>5 DEF Common
<1> HIDE DEF ids
<1>7. CASE AllStraight(g, items)
  <2>1. AllStraight(g, rest) /\ Straight(g, it)
    BY <1>2, <1>7, StraightTail DEF rest, it
  <2>2. Manned(ids, g, turns, v) /\ AllStraight(g, v.q)
    BY <1>1, <1>4, <2>1, ExecutedCalm DEF Calm
  <2>3. Kinds(field') = ids /\ items' = v.q
    BY <1>4, <2>2, BecomeAims
  <2>4. Brings(v.q, AnyOp, Offspring)
    BY <2>2, StraightBrings DEF AnyOp
  <2> QED BY <1>6, <2>3, <2>4 DEF Cast, Common
<1>8. CASE Owed(g, items)
  <2>1. Fits(g, it) /\ Owed(After(g, it), rest)
    BY <1>2, <1>8, OwedHead DEF rest, it
  <2>2. CASE it.op # "spawn"
    <3>1. Manned(ids, g, turns, v) /\ v.q = rest
      BY <1>1, <1>4, <2>1, <2>2, SlowExecuted
    <3>2. Kinds(field') = ids /\ items' = v.q
      BY <1>4, <3>1, BecomeAims
    <3> QED BY <1>6, <3>1, <3>2 DEF Cast
  <2>3. CASE it.op = "spawn"
    <3>1. it.at \in Nat \ {0} /\ Owed(Grown(g, it.at), w.q)
      BY <1>1, <2>1, <2>3 DEF Fits, After
    <3>2. Executed(w, it) = Spawned(w, it)
      BY <2>3, Zenon DEF Executed
    <3>3. TurnsAim(g, turns)
      BY DEF Aimed
    <3>4. it.kid.id \in Offspring
      BY <1>5, <2>3 DEF Allowed
    <3> HIDE DEF g
    <3>5. PICK ks, u : Manned(ks, Grown(g, it.at), u, v)
      BY <1>1, <1>4, <3>1, <3>2, <3>3, SpawnedAims
    <3>6. Kinds(field') = ks /\ items' = v.q /\ Kinds(v.f) = ks /\ Field(v.f)
      BY <1>4, <3>5, BecomeAims DEF Manned
    <3>7. Common(Kinds(v.f), v.q)
      BY <1>1, <1>4, <1>6, <3>1, <3>2, <3>3, <3>4, <3>6, CommonSpawned
    <3> QED BY <3>6, <3>7 DEF Cast
  <2> QED BY <2>2, <2>3
<1> QED BY <1>7, <1>8 DEF Aimed

\* One item, in the company of a leader.
LEMMA RunItemCourt == ASSUME Aimed, NEW L, Attended(field, items, L, {}), RunItem PROVE Cast'
<1> DEFINE g == Names(field)
           ids == Kinds(field)
           it == Head(items)
           rest == Tail(items)
           w == [World EXCEPT !.q = rest]
<1>1. Manned(ids, g, turns, w) /\ w.q = rest /\ w.f = field
  <2>1. Manned(ids, g, turns, w) /\ w.q = rest
    <3> HIDE DEF rest
    <3> QED BY WorldManned
  <2> QED BY <2>1 DEF World
<1>2. items # <<>>
  BY DEF RunItem
<1>3. w = [World EXCEPT !.q = Tail(@)]
  BY DEF World
<1>4. PICK v \in Executed(w, it) : Become(v)
  BY <1>3 DEF RunItem
<1> HIDE DEF w
<1>5. /\ Attended(w.f, w.q, L, Taken(it))
      /\ w.f[L].hp = None => Allowed(it, FallenOps, {})
      /\ w.f[L].hp # None => Allowed(it, ReignOps, Minions)
  BY <1>1, <1>2, AttendedTail
<1> HIDE DEF it, rest, ids
<1>6. it.op = "escape" => w.f[L].hp = None
  BY <1>5 DEF Allowed, ReignOps, CourtOps
<1>7. ASSUME it.at \in DOMAIN g, it.op # "spawn", it.op \in {"roll", "minion"} \/ AllStraight(g, w.q),
             Manned(ids, g, turns, v)
      PROVE  Cast'
  <2>1. it.op \in CourtOps \cup {"minion", "slay", "escape"}
    BY <1>5, <1>7 DEF Allowed, ReignOps, FallenOps
  <2>2. \A u \in Executed(w, it) : Attended(u.f, u.q, L, {})
    BY <1>1, <1>5, <1>6, <1>7, <2>1, AttendedExecuted
  <2>3. Attended(v.f, v.q, L, {})
    BY <1>4, <2>2
  <2>4. Attended(field', items', L, {})
    BY <1>4, <1>7, <2>3, AttendedBecome
  <2> QED BY <2>4 DEF Cast, Court
<1>8. it.op \notin {"cannot", "can", "vanish"}
  BY <1>5 DEF Allowed, ReignOps, FallenOps, CourtOps
<1>9. CASE AllStraight(g, items)
  <2>1. AllStraight(g, rest) /\ Straight(g, it)
    BY <1>2, <1>9, StraightTail DEF rest, it
  <2>2. Manned(ids, g, turns, v)
    BY <1>1, <1>4, <2>1, ExecutedCalm DEF Calm
  <2>3. it.at \in DOMAIN g /\ it.op # "spawn"
    BY <1>8, <2>1 DEF Straight, Aims, PlainOps
  <2> HIDE DEF g
  <2> QED BY <1>1, <1>7, <2>1, <2>2, <2>3
<1>10. CASE Owed(g, items)
  <2>1. Fits(g, it) /\ Owed(After(g, it), rest)
    BY <1>2, <1>10, OwedHead DEF rest, it
  <2>2. CASE it.op # "spawn"
    <3>1. Manned(ids, g, turns, v)
      BY <1>1, <1>4, <2>1, <2>2, SlowExecuted
    <3>2. it.at \in DOMAIN g /\ it.op \in {"roll", "minion"}
      BY <1>8, <2>1, <2>2 DEF Fits, SlowOps, Straight, Aims
    <3> HIDE DEF g
    <3> QED BY <1>7, <2>2, <3>1, <3>2
  <2>3. CASE it.op = "spawn"
    <3>1. it.at \in Nat \ {0} /\ Owed(Grown(g, it.at), w.q)
      BY <1>1, <2>1, <2>3 DEF Fits, After
    <3>2. Executed(w, it) = Spawned(w, it)
      BY <2>3, Zenon DEF Executed
    <3>3. TurnsAim(g, turns)
      BY DEF Aimed
    <3>4. w.f[L].hp # None /\ it.kid.id \in Minions /\ it.kid.hp \in Nat
      BY <1>5, <2>3 DEF Allowed, FallenOps, CourtOps
    <3>5. Attended(w.f, w.q, L, {})
      BY <1>5, <2>3 DEF Taken
    <3> HIDE DEF g
    <3>6. PICK ks, u : Manned(ks, Grown(g, it.at), u, v)
      BY <1>1, <1>4, <3>1, <3>2, <3>3, SpawnedAims
    <3>7. PICK M : Attended(v.f, v.q, M, {})
      BY <1>1, <1>4, <3>1, <3>2, <3>3, <3>4, <3>5, AttendedSpawned
    <3>8. Attended(field', items', M, {})
      BY <1>4, <3>6, <3>7, AttendedBecome
    <3> QED BY <3>8 DEF Cast, Court
  <2> QED BY <2>2, <2>3
<1> QED BY <1>9, <1>10 DEF Aimed

\* The next turn.
LEMMA NextTurnCast == ASSUME Aimed, Cast, NextTurn PROVE Cast'
<1> DEFINE g == Names(field)
           ids == Kinds(field)
           i == Head(turns).at
           rest == Tail(turns)
           w == [World EXCEPT !.t = rest]
<1>1. items = <<>> /\ turns # <<>> /\ phase = "monsters"
  BY DEF NextTurn
<1>2. Manned(ids, g, rest, w) /\ w.q = <<>> /\ w.f = field
  <2>1. Manned(ids, g, rest, w) /\ w.q = <<>>
    <3> HIDE DEF rest
    <3> QED BY <1>1, WorldManned
  <2> QED BY <2>1 DEF World
<1>3. TurnsAim(g, turns)
  BY DEF Aimed
<1>4. i \in DOMAIN g
  <2>1. Head(turns) = turns[1] /\ Len(turns) > 0 /\ Len(turns) \in Nat
    BY <1>1, <1>3, TailList, ListFacts DEF TurnsAim
  <2>2. 1 \in 1..Len(turns)
    BY <2>1
  <2> QED BY <2>1, <2>2, <1>3 DEF TurnsAim, Aims
<1>5. w = [World EXCEPT !.t = Tail(@)]
  BY DEF World
<1>6. PICK v \in IF BasicallyDead(field[i]) THEN {w} ELSE TakeTurn(w, i) : Become(v)
  BY <1>5, Zenon DEF NextTurn
<1> HIDE DEF w, rest, i, ids, g
<1>7. \A u \in TakeTurn(w, i) : Manned(ids, g, rest, u)
  BY <1>2, <1>4, TakeTurnAims
<1>8. Manned(ids, g, rest, v)
  BY <1>2, <1>6, <1>7
<1>9. CASE Common(ids, items)
  <2>1. Kinds(field') = ids /\ items' = v.q
    BY <1>6, <1>8, BecomeAims
  <2>2. \A u \in TakeTurn(w, i) : Brings(u.q, AnyOp, Offspring)
    <3> TAKE u \in TakeTurn(w, i)
    <3>1. HasName(w.f[i])
      BY <1>2, <1>4, MannedFacts
    <3>2. TurnsOf(w.f[i], Turned(w.f, i))
      BY <3>1, TurnedIs
    <3>3. PICK s \in Turned(w.f, i) : \E q \in Laid(w, i, s.q) : u = Bottom(With(w, i, s.m), q)
      BY DEF TakeTurn
    <3>8. PICK q \in Laid(w, i, s.q) : u = Bottom(With(w, i, s.m), q)
      BY <3>3
    <3>4. Same(w.f[i], s.m) /\ Owes(s.q)
      BY <3>2 DEF TurnsOf, TurnOf
    <3>5. Brings(q, AnyOp, Offspring) /\ Brings(<<>>, AnyOp, Offspring)
      BY <1>2, <1>4, <3>4, LaidOffspring, BringsFew
    <3> DEFINE b == With(w, i, s.m)
    <3>6. Manned(ids, g, rest, b) /\ b.q = <<>>
      BY <1>2, <1>4, <3>4, WithManned
    <3> HIDE DEF b
    <3>7. Bottom(b, q).q = b.q \o q
      BY <3>6, QueueFields DEF Manned
    <3> QED BY <3>8, <3>5, <3>6, <3>7, BringsJoined DEF b
  <2>3. Brings(v.q, AnyOp, Offspring)
    BY <1>2, <1>6, <2>2, BringsFew
  <2> QED BY <1>9, <2>1, <2>3 DEF Cast, Common
<1>10. CASE Court(field, items)
  <2>1. PICK L : Attended(w.f, w.q, L, {})
    BY <1>1, <1>2, <1>10 DEF Court
  <2>2. ~BasicallyDead(w.f[i]) => \A u \in TakeTurn(w, i) : Attended(u.f, u.q, L, {})
    BY <1>2, <1>4, <2>1, AttendedTurn
  <2>3. Attended(v.f, v.q, L, {})
    BY <1>2, <1>6, <2>1, <2>2
  <2>4. Attended(field', items', L, {})
    BY <1>6, <1>8, <2>3, AttendedBecome
  <2> QED BY <2>4 DEF Cast, Court
<1> QED BY <1>1, <1>9, <1>10 DEF Cast, ids

\* Every step.
LEMMA NextCast == ASSUME Aimed, Cast, [Next]_vars PROVE Cast'
<1>1. CASE \E i \in DOMAIN field : Strike(i)
  BY <1>1, StrikeCast
<1>2. CASE RunItem
  <2>1. Common(Kinds(field), items) \/ \E L : Attended(field, items, L, {})
    BY <1>2 DEF Cast, Court, RunItem
  <2> QED BY <1>2, <2>1, RunItemCommon, RunItemCourt
<1>3. CASE NextTurn
  BY <1>3, NextTurnCast
<1>4. CASE EndTurn \/ EndRound
  <2>1. field' = field /\ items' = items /\ phase # "over"
    BY <1>4 DEF EndTurn, EndRound
  <2> QED BY <2>1 DEF Cast
<1>5. CASE Over
  BY <1>5 DEF Over, Cast
<1>6. CASE UNCHANGED vars
  BY <1>6 DEF vars, Cast
<1> QED BY <1>1, <1>2, <1>3, <1>4, <1>5, <1>6 DEF Next

\* The invariant says what is claimed.
LEMMA CastLeavesNone == ASSUME Aimed, Cast PROVE NoOrphans
<1> SUFFICES ASSUME Quiet, NEW i \in DOMAIN field, NEW j \in DOMAIN field,
                    field[i].id \in Leaders, BasicallyDead(field[i])
             PROVE  BasicallyDead(field[j])
  BY DEF NoOrphans
<1>1. phase # "over" /\ items = <<>>
  BY DEF Quiet
<1>2. ~Common(Kinds(field), items)
  <2>1. Field(field)
    BY DEF Aimed
  <2>2. i \in DOMAIN Kinds(field) /\ Kinds(field)[i] = field[i].id
    BY <2>1, KindsFacts
  <2> QED BY <2>2 DEF Common
<1>3. PICK L : Attended(field, items, L, {})
  BY <1>1, <1>2 DEF Cast, Court
<1>4. Company(field, L)
  BY <1>3 DEF Attended
<1>5. i = L
  BY <1>4 DEF Company, Leaders, Minions, Gremlins
<1>6. ~Half(field[j]) /\ ~Half(field[i])
  BY <1>4 DEF Company
<1>7. field[L].hp = None
  BY <1>3, <1>5, <1>6 DEF Attended, Reigns, BasicallyDead, IsDying
<1>8. Len(<<>>) = 0 /\ 1..0 = {} /\ ~Doomed(items, j)
  BY <1>1 DEF Doomed
<1>9. DeadOrEscaped(field[j])
  <2>1. Fallen(field, items, L, {})
    BY <1>3, <1>7 DEF Attended
  <2>2. CASE j = L
    BY <1>7, <2>2 DEF DeadOrEscaped
  <2>3. CASE j # L
    BY <1>8, <2>1, <2>3 DEF Fallen
  <2> QED BY <2>2, <2>3
<1> QED BY <1>6, <1>9 DEF DeadOrEscaped, BasicallyDead, IsDying

\* When a leader is dead, whichever way it died, and nothing waits any more, no
\* minion of its is left to fight (monster_die_fn: the leader's death queues the
\* end of each, and no summons is on its way then), for every encounter that
\* gives a leader no company but minions.
THEOREM OrphansNone == Spec => []NoOrphans
<1>1. Init => Aimed /\ Cast
  BY InitAims, InitCast
<1>2. Aimed /\ Cast /\ [Next]_vars => (Aimed /\ Cast)'
  BY NextAims, NextCast
<1>3. Aimed /\ Cast => NoOrphans
  BY CastLeavesNone
<1> QED BY <1>1, <1>2, <1>3, PTL DEF Spec
=============================================================================
