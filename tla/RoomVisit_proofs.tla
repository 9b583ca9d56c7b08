-------------------------- MODULE RoomVisit_proofs --------------------------
(***************************************************************************)
(* The rooms that are no dialogs, the fight's books, and the theorems of   *)
(* RoomVisit: an invariant of every phase, proved action by action.        *)
(***************************************************************************)
EXTENDS RoomEvents_proofs



(***************************************************************************)
(* The rooms that are no dialogs.                                          *)
(***************************************************************************)

\* A step inside a room: the run, the reward screen or a request has changed;
\* Roomed if it opens no row there.
Stays(w, v) ==
  /\ Common(v) /\ Alive(w.run, v.run)
  /\ v.phase = w.phase /\ v.room = w.room /\ v.ev = w.ev /\ v.site = w.site /\ v.fight = w.fight
Roomed(w, v) == Stays(w, v) /\ (w.loot.open = 0 => v.loot.open = 0)

\* Two such steps are one.
LEMMA RoomedTwice ==
  ASSUME NEW w, Common(w), NEW u, NEW v, Roomed(w, u), Roomed(u, v) PROVE Roomed(w, v)
  BY DEF Roomed, Stays, Alive, Common, RunOK, Body, Vital

\* None is one too.
LEMMA RoomedNone == ASSUME NEW w, Common(w) PROVE Roomed(w, w)
  BY DEF Roomed, Stays, Alive

\* Another run.
LEMMA RunRooms ==
  ASSUME NEW w, Common(w), NEW r, Kept(w.run, r)
  PROVE  /\ Roomed(w, On(w, r)) /\ On(w, r).run = r /\ On(w, r).loot = w.loot /\ On(w, r).pend = w.pend
         /\ Common(On(w, r))
<1> DEFINE v == On(w, r)
<1>1. /\ WShape(v) /\ v.run = r /\ v.ev = w.ev /\ v.phase = w.phase /\ v.loot = w.loot
      /\ v.room = w.room /\ v.pend = w.pend /\ v.site = w.site /\ v.fight = w.fight
  BY DEF On, Common, WShape, WorldFields
<1> HIDE DEF v
<1>2. Roomed(w, v)
  BY <1>1 DEF Roomed, Stays, Common, Kept
<1> QED BY <1>1, <1>2 DEF v, Roomed, Stays

\* Another reward screen.
LEMMA LootRooms ==
  ASSUME NEW w, Common(w), NEW l, LootOK(l)
  PROVE  LET v == [w EXCEPT !.loot = l]
         IN  /\ Stays(w, v) /\ v.run = w.run /\ v.loot = l /\ v.pend = w.pend /\ Common(v)
             /\ (w.loot.open = 0 => l.open = 0) => Roomed(w, v)
<1> DEFINE v == [w EXCEPT !.loot = l]
<1>1. /\ WShape(v) /\ v.run = w.run /\ v.ev = w.ev /\ v.phase = w.phase /\ v.loot = l
      /\ v.room = w.room /\ v.pend = w.pend /\ v.site = w.site /\ v.fight = w.fight
  BY DEF Common, WShape, WorldFields
<1> HIDE DEF v
<1>2. Stays(w, v)
  BY <1>1 DEF Roomed, Stays, Common, Alive
<1> QED BY <1>1, <1>2 DEF v, Roomed, Stays

\* Another request.
LEMMA PendRooms ==
  ASSUME NEW w, Common(w), NEW p
  PROVE  LET v == [w EXCEPT !.pend = p]
         IN  Roomed(w, v) /\ v.run = w.run /\ v.loot = w.loot /\ v.pend = p /\ Common(v)
<1> DEFINE v == [w EXCEPT !.pend = p]
<1>1. /\ WShape(v) /\ v.run = w.run /\ v.ev = w.ev /\ v.phase = w.phase /\ v.loot = w.loot
      /\ v.room = w.room /\ v.pend = p /\ v.site = w.site /\ v.fight = w.fight
  BY DEF Common, WShape, WorldFields
<1> HIDE DEF v
<1>2. Roomed(w, v)
  BY <1>1 DEF Roomed, Stays, Common, Alive
<1> QED BY <1>1, <1>2 DEF v, Roomed, Stays

\* Rows laid out.
LEMMA RowsLoot ==
  ASSUME NEW S, NEW rows \in Seq(S), \A x \in S : RowOK(x)
  PROVE  LootOK([rows |-> rows, open |-> 0])
<1>1. Len(rows) \in Nat
  BY LenProperties
<1> QED BY <1>1 DEF LootOK

\* And a request with them.
LEMMA RowsRoom ==
  ASSUME NEW w, Common(w), NEW rows, LootOK([rows |-> rows, open |-> 0])
  PROVE  \A p : Roomed(w, [w EXCEPT !.loot = [rows |-> rows, open |-> 0], !.pend = p])
<1> TAKE p
<1> DEFINE l == [rows |-> rows, open |-> 0]
           u == [w EXCEPT !.loot = l]
           v == [u EXCEPT !.pend = p]
<1>1. [w EXCEPT !.loot = l, !.pend = p] = v
  BY DEF Common, WShape, WorldFields
<1>2. Roomed(w, u) /\ Common(u)
  <2> HIDE DEF l
  <2> QED BY LootRooms DEF l
<1>3. Roomed(u, v)
  <2> HIDE DEF u
  <2> QED BY <1>2, PendRooms
<1> HIDE DEF u, v, l
<1>4. Roomed(w, v)
  BY <1>2, <1>3, RoomedTwice
<1> QED BY <1>1, <1>4 DEF l

\* The potions of a Cauldron.
LEMMA PotionRowsOK ==
  ASSUME NEW n \in Nat, NEW rows \in PotionRows(n)
  PROVE  LootOK([rows |-> rows, open |-> 0])
<1>1. PICK f \in [1..n -> RandomPotions] : rows = [i \in 1..n |-> Row("potion", 0, f[i])]
  BY DEF PotionRows
<1> DEFINE S == {Row("potion", 0, p) : p \in RandomPotions}
<1>2. \A x \in S : RowOK(x)
  BY SomeRows DEF RowKinds
<1>3. rows \in Seq(S)
  BY <1>1
<1> HIDE DEF S
<1> QED BY <1>2, <1>3, RowsLoot

\* Pandora's Box: the starters gone, their successors shown.
LEMMA PandoraRooms ==
  ASSUME NEW w, Common(w)
  PROVE  \A v \in PandoraOpens(w) : Roomed(w, v)
<1> DEFINE gone == PandoraCards(w.run)
           n == Cardinality(gone)
           u == On(w, Without(w.run, gone))
           rows(f) == [i \in 1..n |-> Row("preview", 0, f[i])]
           S == {Row("preview", 0, k) : k \in RandomCards}
<1>1. Roomed(w, w)
  BY RoomedNone
<1>2. Roomed(w, u) /\ Common(u)
  <2>1. Kept(w.run, Without(w.run, gone))
    BY WithoutKeeps DEF Common, Doored
  <2> HIDE DEF gone
  <2> QED BY <2>1, RunRooms
<1>3. n \in Nat
  <2>1. Len(w.run.deck) \in Nat /\ DOMAIN w.run.deck = 1..Len(w.run.deck)
    BY DeckPlaces DEF Common, RunOK, Body
  <2>2. gone \subseteq 1..Len(w.run.deck) /\ IsFiniteSet(1..Len(w.run.deck))
    BY <2>1, FS_Interval DEF PandoraCards
  <2> HIDE DEF gone
  <2> QED BY <2>2, FS_Subset, FS_CardinalityType
<1>4. ASSUME NEW f \in [1..n -> RandomCards]
      PROVE  Roomed(w, [u EXCEPT !.pend = "pandora", !.loot = [rows |-> rows(f), open |-> 0]])
  <2>1. \A x \in S : RowOK(x)
    BY SomeRows DEF RowKinds
  <2>2. rows(f) \in Seq(S)
    BY <1>3
  <2> DEFINE seq == rows(f)
  <2> HIDE DEF S, rows
  <2>3. LootOK([rows |-> seq, open |-> 0])
    BY <2>1, <2>2, RowsLoot
  <2> HIDE DEF seq, u
  <2> DEFINE l == [rows |-> seq, open |-> 0]
  <2>4. [u EXCEPT !.pend = "pandora", !.loot = l] = [u EXCEPT !.loot = l, !.pend = "pandora"]
    BY <1>2 DEF Common, WShape, WorldFields
  <2>5. Roomed(u, [u EXCEPT !.loot = l, !.pend = "pandora"])
    BY <1>2, <2>3, RowsRoom
  <2>6. Roomed(w, [u EXCEPT !.loot = l, !.pend = "pandora"])
    <3> HIDE DEF l
    <3> QED BY <1>2, <2>5, RoomedTwice
  <2> QED BY <2>4, <2>6 DEF seq
<1> HIDE DEF u, rows, n, gone
<1>5. PandoraOpens(w) \subseteq
        {w} \cup {[u EXCEPT !.pend = "pandora", !.loot = [rows |-> rows(f), open |-> 0]] :
                     f \in [1..n -> RandomCards]}
  BY DEF PandoraOpens, u, rows, n, gone
<1> QED BY <1>1, <1>4, <1>5

\* Tiny House: a card upgraded, health, and three rows.
LEMMA TinyHouseRooms ==
  ASSUME NEW w, Common(w)
  PROVE  \A v \in TinyHouseOpens(w) : Roomed(w, v)
<1> SUFFICES ASSUME NEW q \in UpgradeSome(w.run, Upgradeable(w.run), 1), NEW p \in RandomPotions
             PROVE  LET r == RaiseMax(q, 5)
                    IN  Roomed(w, Rows(On(w, r), <<GoldRow(r, 50), Row("potion", 0, p), CardsRow(r)>>))
  BY DEF TinyHouseOpens
<1> DEFINE r == RaiseMax(q, 5)
           x == GoldRow(r, 50)
           y == Row("potion", 0, p)
           z == CardsRow(r)
           u == On(w, r)
<1>1. Kept(w.run, q)
  BY Moves DEF Common
<1>2. Kept(w.run, r)
  <2>1. Kept(q, r)
    BY <1>1, Moves DEF Kept
  <2> HIDE DEF r
  <2> QED BY <1>1, <2>1, KeptTwice
<1>3. RowOK(x) /\ RowOK(y) /\ RowOK(z)
  BY GoldRowOK, SomeRows, CardsRowOK DEF RowKinds
<1> HIDE DEF r
<1>4. Roomed(w, u) /\ Common(u)
  BY <1>2, RunRooms
<1> HIDE DEF x, y, z, u
<1>5. <<x, y, z>> \in Seq({x, y, z})
  OBVIOUS
<1>6. LootOK([rows |-> <<x, y, z>>, open |-> 0])
  <2> DEFINE seq == <<x, y, z>>
             S == {x, y, z}
  <2>1. seq \in Seq(S) /\ \A t \in S : RowOK(t)
    BY <1>3, <1>5
  <2> HIDE DEF seq, S
  <2>2. LootOK([rows |-> seq, open |-> 0])
    BY <2>1, RowsLoot
  <2> QED BY <2>2 DEF seq
<1>7. Roomed(u, Rows(u, <<x, y, z>>))
  BY <1>4, <1>6, RowsRoom DEF Rows
<1>8. Roomed(w, Rows(u, <<x, y, z>>))
  BY <1>4, <1>7, RoomedTwice
<1> QED BY <1>8 DEF x, y, z, u, r

\* A relic with a screen, on the shelf already.
LEMMA EquipRooms ==
  ASSUME NEW w, Common(w), NEW x \in ScreenRelics
  PROVE  \A v \in EquipScreen(w, x) : Roomed(w, v)
<1> DEFINE r == w.run
           all == SetToSeq(Purgeable(r))
<1>1. \A p : Roomed(w, [w EXCEPT !.pend = p])
  BY PendRooms
<1>2. Roomed(w, w)
  BY RoomedNone
<1>3. Roomed(w, Rows(w, [i \in 1..GiftRows |-> CardsRow(r)]))
  <2> DEFINE c == CardsRow(r)
             seq == [i \in 1..GiftRows |-> c]
  <2>1. RowOK(c)
    BY CardsRowOK
  <2> HIDE DEF c
  <2>2. seq \in Seq({c})
    BY GiftAssumption
  <2> HIDE DEF seq
  <2>3. LootOK([rows |-> seq, open |-> 0])
    BY <2>1, <2>2, RowsLoot
  <2>4. Roomed(w, Rows(w, seq))
    BY <2>3, RowsRoom DEF Rows
  <2> QED BY <2>4 DEF seq, c
<1>4. \A rows \in PotionRows(GiftRows) : Roomed(w, Rows(w, rows))
  BY GiftAssumption, PotionRowsOK, RowsRoom DEF Rows
<1>5. \A v \in TinyHouseOpens(w) \cup PandoraOpens(w) : Roomed(w, v)
  BY TinyHouseRooms, PandoraRooms
<1>6. Roomed(w, On(w, Without(r, Range(all))))
  <2>1. Kept(r, Without(r, Range(all)))
    BY WithoutKeeps DEF Common, Doored
  <2> HIDE DEF all
  <2> QED BY <2>1, RunRooms
<1>7. \A q \in relic_astrolabe_transform_cards(r, all) : Roomed(w, On(w, q))
  <2>1. IsList(all)
    BY ListOfPart DEF Common, RunOK, Body, Purgeable
  <2> HIDE DEF all
  <2>2. \A q \in Renewed(r, all, 1) : Kept(r, q)
    BY <2>1, RenewedKeeps DEF Common, Doored
  <2> QED BY <2>2, RunRooms DEF relic_astrolabe_transform_cards
<1> HIDE DEF all
<1>8. CASE x \in Bottles
  <2>1. x \notin {"dollys_mirror", "orrery", "cauldron", "tiny_house", "pandora", "calling_bell",
                  "empty_cage", "astrolabe"}
    BY <1>8 DEF Bottles, BottleType
  <2>2. EquipScreen(w, x) \subseteq {[w EXCEPT !.pend = x], w}
    BY <1>8, <2>1 DEF EquipScreen
  <2> QED BY <1>1, <1>2, <2>2
<1>9. CASE x = "dollys_mirror"
  BY <1>1, <1>2, <1>9 DEF EquipScreen, Bottles, BottleType
<1>10. CASE x = "orrery"
  BY <1>3, <1>10 DEF EquipScreen, Bottles, BottleType
<1>11. CASE x = "cauldron"
  BY <1>4, <1>11 DEF EquipScreen, Bottles, BottleType
<1>12. CASE x \in {"tiny_house", "pandora"}
  BY <1>5, <1>12 DEF EquipScreen, Bottles, BottleType
<1>13. CASE x = "calling_bell"
  BY <1>1, <1>13 DEF EquipScreen, Bottles, BottleType
<1>14. CASE x = "empty_cage"
  BY <1>1, <1>6, <1>14 DEF EquipScreen, Bottles, BottleType, all
<1>15. CASE x = "astrolabe"
  BY <1>1, <1>7, <1>15 DEF EquipScreen, Bottles, BottleType, all
<1> QED BY <1>8, <1>9, <1>10, <1>11, <1>12, <1>13, <1>14, <1>15 DEF ScreenRelics

\* acquire_relic where a screen can open.
LEMMA AcquireRooms ==
  ASSUME NEW w, Common(w), NEW x
  PROVE  \A v \in AcquireWithScreen(w, x) : Roomed(w, v)
<1>1. CASE x \in ScreenRelics
  <2> DEFINE q == [w.run EXCEPT !.relics = @ \cup {x}]
             u == On(w, q)
  <2>1. x # "doll"
    BY <1>1 DEF ScreenRelics, Bottles, BottleType
  <2>2. /\ Body(q) /\ q.relics = w.run.relics \cup {x} /\ q.hp = w.run.hp
        /\ q.deck = w.run.deck /\ q.doll = w.run.doll
    BY RelicChange DEF Common, RunOK
  <2>3. AcquireWithScreen(w, x) = EquipScreen(u, x)
    BY <1>1 DEF AcquireWithScreen
  <2> HIDE DEF q
  <2>4. Kept(w.run, q)
    BY <2>1, <2>2 DEF Common, RunOK, DollTrue, Owns, Kept, Alive
  <2>5. Roomed(w, u) /\ Common(u)
    BY <2>4, RunRooms
  <2> HIDE DEF u
  <2>6. \A v \in EquipScreen(u, x) : Roomed(u, v)
    BY <1>1, <2>5, EquipRooms
  <2> QED BY <2>3, <2>5, <2>6, RoomedTwice
<1>2. CASE x \notin ScreenRelics
  <2>1. \A q \in Acquire(w.run, x) : Roomed(w, On(w, q))
    BY AcquireKeeps, RunRooms DEF Common
  <2> QED BY <1>2, <2>1 DEF AcquireWithScreen
<1> QED BY <1>1, <1>2

-----------------------------------------------------------------------------
\* A key more.
LEMMA KeyKeeps ==
  ASSUME NEW r, RunOK(r), NEW k PROVE Kept(r, [r EXCEPT !.keys = k])
<1> DEFINE q == [r EXCEPT !.keys = k]
<1>1. RunShape(q) /\ SameCards(r, q) /\ q.hp = r.hp /\ q.max = r.max /\ q.gold = r.gold
      /\ q.purge = r.purge
  BY DEF RunOK, Body, RunShape, RunFields, SameCards
<1> HIDE DEF q
<1>2. Vital(q) /\ Alive(r, q)
  BY <1>1 DEF RunOK, Body, Vital, Alive
<1> QED BY <1>1, <1>2, BodyOfSame, KeptOfSame DEF RunOK, Doored, q

\* remove_item, wherever it looks.
LEMMA NoRowOK ==
  ASSUME NEW w, Common(w), w.loot.open = 0, NEW i
  PROVE  Roomed(w, NoRow(w, i)) /\ NoRow(w, i).loot.open = 0 /\ NoRow(w, i).run = w.run
         /\ NoRow(w, i).pend = w.pend /\ Common(NoRow(w, i))
<1> DEFINE rows == w.loot.rows
           n == Len(rows)
           s == [j \in 1..(n - 1) |-> rows[IF j < i THEN j ELSE j + 1]]
           l == [w.loot EXCEPT !.rows = s]
<1>1. PICK S : rows \in Seq(S) /\ \A x \in S : RowOK(x)
  BY DEF Common, LootOK
<1>2. n \in Nat /\ \A j \in 1..n : rows[j] \in S
  BY <1>1, LenProperties, ElementOfSeq
<1>3. s \in Seq(S)
  <2>1. CASE n = 0
    <3>1. 1..(n - 1) = 1..0 /\ 0 \in Nat /\ \A j \in 1..0 : FALSE
      BY <2>1
    <3>2. DOMAIN s = 1..0 /\ s = [j \in 1..0 |-> s[j]]
      <4> HIDE DEF rows, n
      <4> QED BY <3>1
    <3> HIDE DEF s
    <3> QED BY <3>1, <3>2
  <2>2. CASE n > 0
    <3>1. n - 1 \in Nat
      BY <1>2, <2>2
    <3>2. \A j \in 1..(n - 1) : rows[IF j < i THEN j ELSE j + 1] \in S
      <4> TAKE j \in 1..(n - 1)
      <4>1. j \in 1..n /\ j + 1 \in 1..n
        BY <1>2
      <4> QED BY <1>2, <4>1
    <3> HIDE DEF n, rows
    <3> QED BY <3>1, <3>2
  <2> QED BY <1>2, <2>1, <2>2
<1>4. /\ l = [x \in {"rows", "open"} |-> l[x]] /\ l.rows = s /\ l.open = 0
      /\ NoRow(w, i) = [w EXCEPT !.loot = l]
  BY DEF NoRow, Common, LootOK, WShape, WorldFields
<1> HIDE DEF s, l
<1>5. LootOK(l)
  <2>1. Len(s) \in Nat
    BY <1>3, LenProperties
  <2> QED BY <1>1, <1>3, <1>4, <2>1 DEF LootOK
<1> QED BY <1>4, <1>5, LootRooms

\* A row more.
LEMMA RowRooms ==
  ASSUME NEW w, Common(w), NEW row, RowOK(row)
  PROVE  Roomed(w, WithRow(w, row)) /\ WithRow(w, row).run = w.run /\ WithRow(w, row).pend = w.pend
         /\ Common(WithRow(w, row)) /\ WithRow(w, row).loot.open = w.loot.open
<1> DEFINE l == [w.loot EXCEPT !.rows = Append(@, row)]
<1>1. LootOK(l) /\ l.open = w.loot.open
  BY RowMore DEF Common, LootOK
<1>2. WithRow(w, row) = [w EXCEPT !.loot = l]
  BY DEF WithRow, Common, WShape, WorldFields
<1> HIDE DEF l
<1> QED BY <1>1, <1>2, LootRooms

\* The screen cleared.
LEMMA ClearRooms ==
  ASSUME NEW w, Common(w)
  PROVE  Roomed(w, ClearLoot(w)) /\ ClearLoot(w).run = w.run /\ ClearLoot(w).pend = w.pend
         /\ Common(ClearLoot(w)) /\ ClearLoot(w).loot.open = 0
<1>1. NoLoot.open = 0
  BY DEF NoLoot
<1> QED BY <1>1, LootRooms, NoLootOK DEF ClearLoot

\* A row opened or closed.
LEMMA OpenRooms ==
  ASSUME NEW w, Common(w), NEW i \in 0..Len(w.loot.rows)
  PROVE  LET v == [w EXCEPT !.loot.open = i]
         IN  Stays(w, v) /\ v.run = w.run /\ v.loot.open = i /\ Common(v) /\ v.pend = w.pend
<1> DEFINE l == [w.loot EXCEPT !.open = i]
<1>1. l = [x \in {"rows", "open"} |-> l[x]] /\ l.rows = w.loot.rows /\ l.open = i
  BY DEF Common, LootOK
<1>2. [w EXCEPT !.loot.open = i] = [w EXCEPT !.loot = l]
  BY DEF Common, WShape, WorldFields
<1> HIDE DEF l
<1>3. LootOK(l)
  BY <1>1 DEF Common, LootOK
<1>4. Stays(w, [w EXCEPT !.loot = l]) /\ [w EXCEPT !.loot = l].run = w.run
      /\ [w EXCEPT !.loot = l].loot = l /\ Common([w EXCEPT !.loot = l])
      /\ [w EXCEPT !.loot = l].pend = w.pend
  BY <1>3, LootRooms
<1> QED BY <1>1, <1>2, <1>4

\* An egg hatches the offers on the screen.
LEMMA PreviewRooms ==
  ASSUME NEW w, Common(w)
  PROVE  LET v == apply_egg_preview_to_open_offers(w)
         IN  Roomed(w, v) /\ v.loot.open = w.loot.open /\ Common(v)
<1> DEFINE rows == w.loot.rows
           shown(row) == [row EXCEPT !.cards = {Hatched(w.run, c) : c \in @}]
           s == [i \in DOMAIN rows |-> shown(rows[i])]
           l == [w.loot EXCEPT !.rows = s]
           v == apply_egg_preview_to_open_offers(w)
<1>1. PICK S : rows \in Seq(S) /\ \A x \in S : RowOK(x)
  BY DEF Common, LootOK
<1>2. ASSUME NEW row, RowOK(row) PROVE RowOK(shown(row))
  <2>1. \A c \in row.cards : IsCard(Hatched(w.run, c))
    BY <1>2, HatchedIsCard DEF RowOK
  <2> DEFINE cs == {Hatched(w.run, c) : c \in row.cards}
  <2>2. \A c \in cs : IsCard(c)
    BY <2>1
  <2>3. shown(row) = [row EXCEPT !.cards = cs]
    OBVIOUS
  <2> HIDE DEF cs, shown
  <2> QED BY <1>2, <2>2, <2>3 DEF RowOK, RowFields
<1> DEFINE T == {shown(x) : x \in S}
<1>3. Len(rows) \in Nat /\ DOMAIN rows = 1..Len(rows) /\ \A j \in 1..Len(rows) : rows[j] \in S
  BY <1>1, LenProperties, ElementOfSeq
<1>4. \A x \in T : RowOK(x)
  BY <1>1, <1>2
<1>5. s \in Seq(T) /\ Len(s) = Len(rows)
  <2>1. \A j \in 1..Len(rows) : shown(rows[j]) \in T
    BY <1>3
  <2> HIDE DEF T, shown, rows
  <2> QED BY <1>3, <2>1
<1>6. /\ l = [x \in {"rows", "open"} |-> l[x]] /\ l.rows = s /\ l.open = w.loot.open
  <2> HIDE DEF s
  <2> QED BY DEF Common, LootOK
<1>7. v = [w EXCEPT !.loot = l]
  <2>1. v = [w EXCEPT !.loot.rows = s]
    BY DEF apply_egg_preview_to_open_offers
  <2> HIDE DEF s, v
  <2> QED BY <2>1 DEF Common, LootOK, WShape, WorldFields
<1> HIDE DEF s, l, T, v
<1>8. LootOK(l)
  BY <1>3, <1>4, <1>5, <1>6 DEF LootOK, Common
<1>9. Roomed(w, v) /\ v.loot.open = w.loot.open /\ Common(v)
  BY <1>6, <1>7, <1>8, LootRooms
<1> QED BY <1>9 DEF v

-----------------------------------------------------------------------------
\* A relic claimed from the screen.
LEMMA ClaimRelicRooms ==
  ASSUME NEW w, Common(w), w.loot.open = 0, NEW i
  PROVE  \A v \in ClaimRelic(w, i) : Roomed(w, v) /\ Common(v)
<1> DEFINE claimed == {apply_egg_preview_to_open_offers(v) :
                         v \in AcquireWithScreen(w, w.loot.rows[i].what)}
           lone(v) == IF reward_relic_row_is_key_linked(v, i) THEN NoRow(v, i + 1) ELSE v
<1>1. \A v \in claimed : Roomed(w, v) /\ Common(v) /\ v.loot.open = 0
  <2>1. ASSUME NEW v \in AcquireWithScreen(w, w.loot.rows[i].what)
        PROVE  LET u == apply_egg_preview_to_open_offers(v)
               IN  Roomed(w, u) /\ Common(u) /\ u.loot.open = 0
    <3>1. Roomed(w, v) /\ Common(v) /\ v.loot.open = 0
      BY <2>1, AcquireRooms DEF Roomed, Stays
    <3>2. LET u == apply_egg_preview_to_open_offers(v)
          IN  Roomed(v, u) /\ Common(u) /\ u.loot.open = v.loot.open
      BY <3>1, PreviewRooms
    <3> QED BY <3>1, <3>2, RoomedTwice
  <2> QED BY <2>1
<1>2. ASSUME NEW v \in claimed PROVE Roomed(w, NoRow(lone(v), i)) /\ Common(NoRow(lone(v), i))
  <2>1. Roomed(w, v) /\ Common(v) /\ v.loot.open = 0
    BY <1>1, <1>2
  <2> DEFINE u == NoRow(v, i + 1)
  <2>2. Roomed(v, u) /\ Common(u) /\ u.loot.open = 0
    BY <2>1, NoRowOK
  <2>3. Roomed(v, NoRow(v, i)) /\ Roomed(u, NoRow(u, i))
    <3> HIDE DEF u
    <3> QED BY <2>1, <2>2, NoRowOK
  <2> HIDE DEF u, claimed
  <2>4. Roomed(w, NoRow(v, i)) /\ Roomed(w, NoRow(u, i))
    BY <2>1, <2>2, <2>3, RoomedTwice
  <2>5. lone(v) \in {v, u}
    BY DEF u
  <2> HIDE DEF lone
  <2> QED BY <2>4, <2>5 DEF Roomed, Stays
<1>3. ClaimRelic(w, i) = {NoRow(lone(v), i) : v \in claimed}
  BY Zenon DEF ClaimRelic
<1> HIDE DEF claimed, lone
<1> QED BY <1>2, <1>3

\* Any row claimed.
LEMMA ClaimRooms ==
  ASSUME NEW w, Common(w), NEW i \in DOMAIN w.loot.rows, reward_claim_legal(w, i)
  PROVE  \A v \in claim_reward(w, i) : Stays(w, v) /\ Common(v)
<1> DEFINE row == w.loot.rows[i]
<1>1. w.loot.open = 0 /\ row.kind # "preview"
  BY DEF reward_claim_legal
<1>2. RowOK(row) /\ i \in 0..Len(w.loot.rows)
  BY RowsThere DEF Common
<1>3. ASSUME NEW q, Kept(w.run, q) PROVE Stays(w, NoRow(On(w, q), i)) /\ Common(NoRow(On(w, q), i))
  <2> DEFINE u == On(w, q)
  <2>1. Roomed(w, u) /\ Common(u) /\ u.loot.open = 0
    BY <1>1, <1>3, RunRooms
  <2> HIDE DEF u
  <2>2. Roomed(u, NoRow(u, i)) /\ Common(NoRow(u, i))
    BY <2>1, NoRowOK
  <2> QED BY <2>1, <2>2, RoomedTwice DEF Roomed, u
<1>4. RunOK(w.run) /\ row.n + row.bonus \in Int
  BY <1>2 DEF Common, RowOK
<1>5. /\ Kept(w.run, GainGold(w.run, row.n + row.bonus)) /\ Kept(w.run, PutPotion(w.run, row.what))
      /\ \A k : Kept(w.run, [w.run EXCEPT !.keys = k])
  BY <1>4, Moves, KeyKeeps
<1>6. \A k : [w EXCEPT !.run.keys = k] = On(w, [w.run EXCEPT !.keys = k])
  BY DEF On, Common, WShape, WorldFields
<1>7. CASE row.kind \in {"gold", "stolen"}
  BY <1>3, <1>5, <1>7 DEF claim_reward
<1>8. CASE row.kind = "potion"
  <2>1. Stays(w, NoRow(w, i)) /\ Common(NoRow(w, i))
    BY <1>1, NoRowOK DEF Roomed
  <2>2. claim_reward(w, i) \subseteq {NoRow(w, i), NoRow(On(w, PutPotion(w.run, row.what)), i)}
    BY <1>8 DEF claim_reward
  <2> QED BY <1>3, <1>5, <2>1, <2>2
<1>9. CASE row.kind = "relic"
  BY <1>1, <1>9, ClaimRelicRooms DEF claim_reward, Roomed
<1>10. CASE row.kind = "cards"
  <2> DEFINE u == [w EXCEPT !.loot.open = i]
  <2>1. Stays(w, u) /\ Common(u)
    BY <1>2, OpenRooms
  <2>2. claim_reward(w, i) = {u}
    BY <1>10 DEF claim_reward
  <2> HIDE DEF u
  <2> QED BY <2>1, <2>2
<1>11. CASE row.kind = "emerald"
  <2> DEFINE k == w.run.keys \cup {"emerald"}
             q == [w.run EXCEPT !.keys = k]
  <2>1. claim_reward(w, i) = {NoRow(On(w, q), i)}
    <3>1. claim_reward(w, i) = {NoRow([w EXCEPT !.run.keys = k], i)}
      BY <1>11 DEF claim_reward
    <3> HIDE DEF k
    <3> QED BY <1>6, <3>1
  <2>2. Kept(w.run, q)
    BY <1>5
  <2> HIDE DEF q
  <2> QED BY <1>3, <2>1, <2>2
<1>12. CASE row.kind = "sapphire"
  <2> DEFINE k == w.run.keys \cup {"sapphire"}
             q == [w.run EXCEPT !.keys = k]
             h == On(w, q)
             u == NoRow(h, i)
  <2>1. claim_reward(w, i) \subseteq {NoRow(h, i), NoRow(u, i - 1)}
    <3>1. claim_reward(w, i) = {ClaimSapphire(w, i)}
      BY <1>12 DEF claim_reward
    <3>2. [w EXCEPT !.run.keys = k] = h
      <4> HIDE DEF k
      <4> QED BY <1>6
    <3>3. [w EXCEPT !.run.keys = @ \cup {"sapphire"}] = h
      BY <3>2
    <3> HIDE DEF h, k
    <3> QED BY <3>1, <3>3, Zenon DEF ClaimSapphire, u
  <2>2. Kept(w.run, q)
    BY <1>5
  <2> HIDE DEF q
  <2>3. Roomed(w, h) /\ Common(h) /\ h.loot.open = 0
    BY <1>1, <2>2, RunRooms
  <2> HIDE DEF h
  <2>4. Roomed(h, u) /\ Common(u) /\ u.loot.open = 0
    BY <2>3, NoRowOK
  <2> HIDE DEF u
  <2>5. Roomed(u, NoRow(u, i - 1)) /\ Common(NoRow(u, i - 1))
    BY <2>4, NoRowOK
  <2>6. Roomed(w, u) /\ Roomed(w, NoRow(u, i - 1))
    BY <2>3, <2>4, <2>5, RoomedTwice
  <2> QED BY <2>1, <2>4, <2>5, <2>6 DEF Roomed, u
<1> QED BY <1>1, <1>2, <1>7, <1>8, <1>9, <1>10, <1>11, <1>12 DEF RowOK, RowKinds

\* The open card row: a card, a song, or neither.
LEMMA CardRooms ==
  ASSUME NEW w, Common(w)
  PROVE  /\ \A c : IsCard(c) => Stays(w, reward_take_card(w, c))
         /\ Stays(w, reward_sing(w)) /\ Stays(w, reward_skip_card(w)) /\ Stays(w, CloseRow(w))
<1> DEFINE u == [w EXCEPT !.loot.open = 0]
           v == CloseRow(w)
<1>1. 0 \in 0..Len(w.loot.rows)
  BY RowsThere DEF Common
<1>2. Stays(w, u) /\ Common(u) /\ u.run = w.run /\ u.loot.open = 0
  BY <1>1, OpenRooms
<1>3. v = NoRow(u, w.loot.open)
  BY DEF CloseRow
<1> HIDE DEF u, v
<1>4. Stays(u, v) /\ Common(v) /\ v.run = w.run
  BY <1>2, <1>3, NoRowOK DEF Roomed
<1>5. Stays(w, v)
  BY <1>2, <1>4 DEF Stays
<1>6. ASSUME NEW q, Kept(w.run, q) PROVE Stays(w, On(v, q))
  <2>1. Stays(v, On(v, q)) /\ On(v, q).run = q
    BY <1>4, <1>6, RunRooms DEF Roomed
  <2> QED BY <1>5, <1>6, <2>1 DEF Stays, Kept
<1>7. ASSUME NEW c, IsCard(c) PROVE Stays(w, reward_take_card(w, c))
  <2>1. Kept(w.run, AddCopy(w.run, c))
    BY <1>7, CopyKeeps DEF Common, Doored
  <2> QED BY <1>6, <2>1 DEF reward_take_card, v
<1>8. Stays(w, reward_sing(w))
  <2> DEFINE q == [[w.run EXCEPT !.max = @ + 2] EXCEPT !.hp = Least(@ + 2, w.run.max + 2)]
  <2>0. RunOK(w.run) /\ Vital(w.run)
    BY DEF Common, RunOK, Body
  <2>1. RunShape(q) /\ SameCards(w.run, q) /\ q.hp = Least(w.run.hp + 2, w.run.max + 2)
        /\ q.max = w.run.max + 2 /\ q.gold = w.run.gold /\ q.purge = w.run.purge
    BY <2>0 DEF RunOK, Body, RunShape, RunFields, SameCards
  <2>2. reward_sing(w) = On(v, q)
    <3>1. [w.run EXCEPT !.max = @ + 2].max = w.run.max + 2
      BY <2>0 DEF RunOK, Body, RunShape, RunFields
    <3> QED BY <3>1 DEF reward_sing, v
  <2> HIDE DEF q
  <2>3. Vital(q) /\ Alive(w.run, q)
    BY <2>0, <2>1 DEF Vital, Alive, Least
  <2>4. Kept(w.run, q)
    BY <2>0, <2>1, <2>3, BodyOfSame, KeptOfSame DEF RunOK, Doored
  <2> QED BY <1>6, <2>2, <2>4
<1>9. Stays(w, reward_skip_card(w))
  BY <1>2 DEF reward_skip_card, u
<1> QED BY <1>5, <1>7, <1>8, <1>9 DEF v

(***************************************************************************)
(* The invariant: every phase with what it relies on.                      *)
(***************************************************************************)
Phases == Spoken \cup {"fight", "shop", "neow", "chest", "rest", "treasure"}

\* The screens and grids of Neow's room and of the boss's chest.
NeowScreens == {"blessing", "card", "grid", "items", "done"}
ChestScreens == {"closed", "select", "grid", "items", "done"}
GridModes == {"upgrade", "remove", "transform", "transform_upgrade"} \cup Confirms
GridFields == {"screen", "mode", "needed", "picked"}

GridSite(p, s) ==
  /\ s = [x \in DOMAIN s |-> s[x]] /\ GridFields \subseteq DOMAIN s
  /\ s.screen \in (IF p = "neow" THEN NeowScreens ELSE ChestScreens)
  /\ IsList(s.picked) /\ (s.screen = "grid" => s.mode \in GridModes)

\* A shop's stock.
WareOK(ware) ==
  /\ ware = [x \in {"kind", "what", "up", "sold", "price"} |-> ware[x]]
  /\ ware.kind \in {"card", "relic", "potion"} /\ ware.price \in Int
ShopSite(s) ==
  /\ s = [x \in {"screen", "wares", "purge", "cost"} |-> s[x]] /\ s.cost \in Int
  /\ s.wares = [i \in DOMAIN s.wares |-> s.wares[i]] /\ \A i \in DOMAIN s.wares : WareOK(s.wares[i])

\* A fight's books: in the middle of a command, and between two.
FightFields == {"foes", "hp", "max", "armed", "tail", "charm", "doll", "earned", "banked", "thieves",
                "cards", "potions", "over", "mugged", "smoked", "slain", "mid", "steps"}
ThiefOK(t) ==
  /\ t = [x \in {"amt", "steals", "prev", "taken", "live"} |-> t[x]]
  /\ t.amt \in Int /\ t.prev \in Nat /\ t.taken \in Int
ThievesOK(s) == \E S : s \in Seq(S) /\ \A t \in S : ThiefOK(t)

LedgerOK(f) ==
  /\ f = [x \in FightFields |-> f[x]]
  /\ f.hp \in Nat /\ f.max \in Nat /\ f.max > 0 /\ f.hp <= f.max /\ (f.hp = 0 => f.over)
  /\ f.earned \in Nat /\ f.banked \in Nat /\ f.banked <= f.earned /\ f.armed \in Nat
  /\ ThievesOK(f.thieves) /\ IsList(f.cards) /\ IsList(f.potions)
AgreeOK(r, f) == r.hp <= f.max /\ f.doll = r.doll /\ f.armed <= Cardinality(BeltFairies(r))
Fighting(w) == Common(w) /\ w.phase = "fight" /\ EntryOK(w) /\ LedgerOK(w.fight) /\ AgreeOK(w.run, w.fight)
FightOK(w) ==
  Fighting(w) /\ (~w.fight.mid => ~w.fight.over /\ w.fight.armed = Cardinality(BeltFairies(w.run)))

Sound(w) ==
  /\ Common(w) /\ w.phase \in Phases
  /\ w.phase \notin {"map", "over", "fight"} => w.run.hp > 0
  /\ w.phase = "dialog" => DialogOK(w)
  /\ w.phase = "entering" => EntryOK(w)
  /\ w.phase = "fight" => FightOK(w)
  /\ w.phase = "shop" => ShopSite(w.site)
  /\ w.phase \in {"neow", "chest"} => GridSite(w.phase, w.site)

AllSound(worlds) == \A w \in worlds : Sound(w)

\* What the dialogs leave is sound.
LEMMA SafeIsSound == ASSUME NEW w, Safe(w) PROVE Sound(w)
  BY DEF Safe, Sound, Phases, Spoken

\* So are the map, the end, and the rooms that keep nothing.
LEMMA OutIsSound ==
  ASSUME NEW w, Common(w),
         w.phase \in {"map", "over"} \/ (w.phase \in {"reward", "rest", "treasure"} /\ w.run.hp > 0)
  PROVE  Sound(w)
  BY DEF Sound, Phases, Spoken

\* A step inside a room.
Rooms == {"reward", "rest", "treasure", "shop", "neow", "chest"}

\* A step inside a room keeps it sound.
LEMMA StaysSound ==
  ASSUME NEW w, Sound(w), w.phase \in Rooms \cup {"map", "over"}, NEW v, Stays(w, v)
  PROVE  Sound(v)
<1>1. Common(v) /\ v.phase = w.phase /\ v.site = w.site /\ Alive(w.run, v.run)
  BY DEF Stays
<1>2. v.phase \notin {"dialog", "entering", "fight"}
  BY <1>1 DEF Rooms
<1>3. v.phase \notin {"map", "over"} => v.run.hp > 0
  BY <1>1, <1>2 DEF Sound, Alive
<1> QED BY <1>1, <1>2, <1>3 DEF Sound

\* Another phase and another site.
Moved(w, p, s) == [w EXCEPT !.phase = p, !.site = s]

\* Nothing else changes with them.
LEMMA Housed ==
  ASSUME NEW w, Common(w), NEW p, NEW s
  PROVE  LET v == Moved(w, p, s)
         IN  /\ Common(v) /\ v.phase = p /\ v.site = s /\ v.run = w.run /\ v.loot = w.loot
             /\ v.pend = w.pend /\ v.room = w.room /\ v.ev = w.ev /\ v.fight = w.fight
<1> DEFINE v == Moved(w, p, s)
<1>1. /\ WShape(v) /\ v.phase = p /\ v.site = s /\ v.run = w.run /\ v.loot = w.loot
      /\ v.pend = w.pend /\ v.room = w.room /\ v.ev = w.ev /\ v.fight = w.fight
  BY DEF Moved, Common, WShape, WorldFields
<1> HIDE DEF v
<1>2. Common(v)
  BY <1>1 DEF Common
<1> QED BY <1>1, <1>2 DEF v

\* A room left for the map, with whatever site.
LEMMA LeftSound ==
  ASSUME NEW w, Common(w), NEW s
  PROVE  /\ Sound([ClearLoot(w) EXCEPT !.phase = "map", !.site = s])
         /\ Sound([w EXCEPT !.phase = "map", !.site = s])
         /\ Sound([ClearLoot(w) EXCEPT !.phase = "map"]) /\ Sound([w EXCEPT !.phase = "map"])
<1>1. ASSUME NEW u, Common(u), NEW t PROVE Sound(Moved(u, "map", t))
  BY <1>1, Housed, OutIsSound
<1>2. ASSUME NEW u, Common(u) PROVE Sound([u EXCEPT !.phase = "map"])
  <2>1. Moved(u, "map", u.site) = [u EXCEPT !.phase = "map"]
    BY <1>2 DEF Moved, Common, WShape, WorldFields
  <2>2. Sound(Moved(u, "map", u.site))
    BY <1>1, <1>2
  <2> QED BY <2>1, <2>2
<1>3. Common(ClearLoot(w))
  BY ClearRooms
<1> QED BY <1>1, <1>2, <1>3 DEF Moved

\* The request of a claimed relic, where the screen is in use.
LEMMA RequestSound ==
  ASSUME NEW w, Sound(w), w.phase \in Rooms
  PROVE  Sound(apply_claim_equip_request(w))
<1> DEFINE u == [w EXCEPT !.pend = "none"]
           v == Moved(u, "reward", [screen |-> "none"])
<1>1. Common(u) /\ u.run = w.run
  BY PendRooms DEF Sound
<1>2. [w EXCEPT !.pend = "none", !.phase = "reward", !.site = [screen |-> "none"]] = v
  BY DEF Moved, Sound, Common, WShape, WorldFields
<1> HIDE DEF u
<1>3. Common(v) /\ v.phase = "reward" /\ v.run = w.run
  BY <1>1, Housed
<1> HIDE DEF v
<1>4. w.run.hp > 0
  BY DEF Sound, Rooms
<1>5. Sound(v)
  BY <1>3, <1>4, OutIsSound
<1> QED BY <1>2, <1>5 DEF apply_claim_equip_request

-----------------------------------------------------------------------------
\* Steps that follow one another.
LEMMA StaysTwice ==
  ASSUME NEW w, NEW u, NEW v, Stays(w, u), Stays(u, v) PROVE Stays(w, v) /\ Common(u) /\ Common(v)
  BY DEF Stays, Alive

\* A row more, whatever the step before.
LEMMA RowStays ==
  ASSUME NEW w, NEW u, Stays(w, u), NEW row, RowOK(row)
  PROVE  Stays(w, WithRow(u, row)) /\ WithRow(u, row).run = u.run
<1>1. Common(u)
  BY DEF Stays
<1>2. Stays(u, WithRow(u, row)) /\ WithRow(u, row).run = u.run
  BY <1>1, RowRooms DEF Roomed
<1> QED BY <1>2, StaysTwice

\* A relic drawn for the screen.
LEMMA DrawnStays ==
  ASSUME NEW w, NEW u, Stays(w, u), NEW r, Kept(u.run, r), NEW x
  PROVE  Stays(w, WithRow(On(u, r), Row("relic", 0, x)))
<1>1. Common(u)
  BY DEF Stays
<1>2. Stays(u, On(u, r))
  BY <1>1, RunRooms DEF Roomed
<1>3. Stays(w, On(u, r))
  BY <1>2, StaysTwice
<1>4. RowOK(Row("relic", 0, x))
  BY SomeRows DEF RowKinds
<1> QED BY <1>3, <1>4, RowStays

\* An elite's relics, and the emerald key.
LEMMA EliteStays ==
  ASSUME NEW w, Common(w)
  PROVE  \A v \in EliteRows(w) : Stays(w, v)
<1> DEFINE relic(v, d) == WithRow(On(v, d.run), Row("relic", 0, d.got))
           one == {relic(w, DrawRelic(w.run, t, FALSE)) : t \in RollTiers}
           two == {relic(v, DrawAvoiding(v.run, t, CampfireRelics)) : v \in one, t \in RollTiers}
           key(v) == IF w.room = "burning" /\ "emerald" \notin v.run.keys
                     THEN WithRow(v, Row("emerald", 0, "none")) ELSE v
<1>1. \A v \in one : Stays(w, v)
  <2>1. Stays(w, w) /\ RunOK(w.run)
    BY RoomedNone DEF Roomed, Common
  <2>2. \A t : Kept(w.run, DrawRelic(w.run, t, FALSE).run)
    BY <2>1, Moves
  <2> QED BY <2>1, <2>2, DrawnStays
<1>2. \A v \in two : Stays(w, v)
  <2>1. Cardinality(CampfireRelics) \in Nat
    <3>1. IsFiniteSet(CampfireRelics)
      <4>1. CampfireRelics = (({} \cup {"girya"}) \cup {"peace_pipe"}) \cup {"shovel"}
        BY DEF CampfireRelics
      <4> QED BY <4>1, FS_EmptySet, FS_AddElement
    <3> QED BY <3>1, FS_CardinalityType
  <2>2. \A v \in one : \A t : Kept(v.run, DrawAvoiding(v.run, t, CampfireRelics).run)
    <3> HIDE DEF one
    <3> TAKE v \in one
    <3>1. RunOK(v.run)
      BY <1>1 DEF Stays, Common
    <3> QED BY <2>1, <3>1, AvoidKeeps DEF Doored
  <2> HIDE DEF one
  <2>3. ASSUME NEW v \in one, NEW t PROVE Stays(w, relic(v, DrawAvoiding(v.run, t, CampfireRelics)))
    <3> DEFINE d == DrawAvoiding(v.run, t, CampfireRelics)
    <3>1. Kept(v.run, d.run) /\ Stays(w, v)
      BY <1>1, <2>2
    <3> HIDE DEF d
    <3>2. Stays(w, relic(v, d))
      BY <3>1, DrawnStays
    <3> QED BY <3>2 DEF d
  <2> HIDE DEF relic
  <2> QED BY <2>3
<1>3. ASSUME NEW v, Stays(w, v) PROVE Stays(w, key(v))
  <2>1. RowOK(Row("emerald", 0, "none"))
    BY SomeRows DEF RowKinds
  <2>2. Stays(w, WithRow(v, Row("emerald", 0, "none")))
    BY <1>3, <2>1, RowStays
  <2> QED BY <1>3, <2>2
<1>4. EliteRows(w) = {key(v) : v \in IF Owns(w.run, "black_star") THEN two ELSE one}
  BY DEF EliteRows
<1> HIDE DEF key, one, two
<1> QED BY <1>1, <1>2, <1>3, <1>4

\* A potion that may drop.
LEMMA PotionStays ==
  ASSUME NEW w, NEW u, Stays(w, u), NEW escaped
  PROVE  \A v \in PotionDrops(u, escaped) : Stays(w, v)
<1>1. \A p : RowOK(Row("potion", 0, p))
  BY SomeRows DEF RowKinds
<1>2. \A p : Stays(w, WithRow(u, Row("potion", 0, p)))
  BY <1>1, RowStays
<1> QED BY <1>2 DEF PotionDrops

\* assemble_combat_rewards.
LEMMA RewardsStay ==
  ASSUME NEW w, Common(w), w.room \in FightRooms, NEW outcome, NEW stolen \in Int
  PROVE  \A v \in assemble_combat_rewards(w, outcome, stolen) : Stays(w, v)
<1> DEFINE escaped == outcome = "monsters_escaped"
           base == IF w.room = "event" THEN [w EXCEPT !.loot.open = 0] ELSE ClearLoot(w)
           back == IF stolen > 0 THEN WithRow(base, Row("stolen", stolen, "none")) ELSE base
           paid == IF w.room = "event" \/ (w.room = "monster" /\ escaped) THEN back
                   ELSE WithRow(back, GoldRow(w.run, RoomGold[w.room]))
           won == IF IsElite(w) THEN EliteRows(paid) ELSE {paid}
           dealt(v) == LET once == WithRow(v, CardsRow(v.run))
                       IN  IF w.room = "monster" /\ Owns(w.run, "prayer_wheel")
                           THEN WithRow(once, CardsRow(v.run)) ELSE once
<1>1. Stays(w, base)
  <2>1. 0 \in 0..Len(w.loot.rows)
    BY RowsThere DEF Common
  <2> DEFINE u == [w EXCEPT !.loot.open = 0]
  <2>2. Stays(w, u)
    BY <2>1, OpenRooms
  <2> HIDE DEF u
  <2>3. Stays(w, ClearLoot(w))
    BY ClearRooms DEF Roomed
  <2> QED BY <2>2, <2>3 DEF u
<1>2. Stays(w, back)
  <2> HIDE DEF base
  <2>1. RowOK(Row("stolen", stolen, "none"))
    BY SomeRows DEF RowKinds
  <2>2. Stays(w, WithRow(base, Row("stolen", stolen, "none")))
    BY <1>1, <2>1, RowStays
  <2> QED BY <1>1, <2>2
<1>3. Stays(w, paid)
  <2> HIDE DEF back, base
  <2>1. CASE w.room = "event" \/ (w.room = "monster" /\ escaped)
    BY <1>2, <2>1
  <2>2. CASE ~(w.room = "event" \/ (w.room = "monster" /\ escaped))
    <3>1. RoomGold[w.room] \in Int
      BY <2>2 DEF FightRooms, RoomGold
    <3>2. RowOK(GoldRow(w.run, RoomGold[w.room]))
      BY <3>1, GoldRowOK
    <3>3. Stays(w, WithRow(back, GoldRow(w.run, RoomGold[w.room])))
      BY <1>2, <3>2, RowStays
    <3> QED BY <2>2, <3>3
  <2> QED BY <2>1, <2>2
<1> HIDE DEF base, back, paid
<1>4. \A v \in won : Stays(w, v)
  <2>1. \A v \in EliteRows(paid) : Stays(w, v)
    BY <1>3, EliteStays, StaysTwice DEF Stays
  <2> QED BY <1>3, <2>1
<1>5. ASSUME NEW u, Stays(w, u) PROVE Stays(w, dealt(u)) /\ Stays(w, ClearLoot(u))
  <2> DEFINE once == WithRow(u, CardsRow(u.run))
             twice == WithRow(once, CardsRow(u.run))
  <2>1. RowOK(CardsRow(u.run))
    BY CardsRowOK
  <2>2. Stays(w, once)
    BY <1>5, <2>1, RowStays
  <2> HIDE DEF once
  <2>3. Stays(w, twice)
    BY <2>1, <2>2, RowStays
  <2> HIDE DEF twice
  <2>4. Stays(w, ClearLoot(u))
    <3>1. Stays(u, ClearLoot(u))
      BY <1>5, ClearRooms DEF Roomed, Stays
    <3> QED BY <1>5, <3>1, StaysTwice
  <2>5. dealt(u) = IF w.room = "monster" /\ Owns(w.run, "prayer_wheel") THEN twice ELSE once
    BY Zenon DEF once, twice
  <2> QED BY <2>2, <2>3, <2>4, <2>5
<1>6. assemble_combat_rewards(w, outcome, stolen) =
        UNION {{IF outcome = "player_escaped" THEN ClearLoot(u) ELSE dealt(u) :
                  u \in PotionDrops(v, escaped)} : v \in won}
  BY Zenon DEF assemble_combat_rewards, won, paid, back, base
<1>7. ASSUME NEW v \in won, NEW u \in PotionDrops(v, escaped) PROVE Stays(w, u)
  BY <1>4, <1>7, PotionStays
<1> HIDE DEF won, dealt, escaped
<1> QED BY <1>5, <1>6, <1>7

-----------------------------------------------------------------------------
\* The shop.  Another site in the same phase.
Furnished(w, s) == [w EXCEPT !.site = s]

\* Nothing else changes with it.
LEMMA FurnishedIs ==
  ASSUME NEW w, Common(w), NEW s
  PROVE  LET v == Furnished(w, s)
         IN  /\ Common(v) /\ v.phase = w.phase /\ v.site = s /\ v.run = w.run /\ v.loot = w.loot
             /\ v.pend = w.pend /\ v.room = w.room /\ v.ev = w.ev /\ v.fight = w.fight
<1> DEFINE v == Furnished(w, s)
<1>1. /\ WShape(v) /\ v.phase = w.phase /\ v.site = s /\ v.run = w.run /\ v.loot = w.loot
      /\ v.pend = w.pend /\ v.room = w.room /\ v.ev = w.ev /\ v.fight = w.fight
  BY DEF Common, WShape, WorldFields, Furnished
<1> HIDE DEF v
<1>2. Common(v)
  BY <1>1 DEF Common
<1> QED BY <1>1, <1>2 DEF v

\* A shop with its stock in order, and someone alive in it.
Keeping(w) == Common(w) /\ w.run.hp > 0 /\ w.phase = "shop" /\ ShopSite(w.site)

\* Such a world is sound, and so is the one a relic's rows turn it into.
LEMMA KeepingIsSound ==
  ASSUME NEW w, Keeping(w) PROVE Sound(w) /\ Sound(apply_claim_equip_request(w))
<1>1. Sound(w)
  BY DEF Keeping, Sound, Phases
<1>2. w.phase \in Rooms
  BY DEF Keeping, Rooms
<1> QED BY <1>1, <1>2, RequestSound

\* A step inside the shop, or a change of its stock.
LEMMA ShopKept ==
  ASSUME NEW w, Keeping(w)
  PROVE  /\ \A v : Stays(w, v) => Keeping(v)
         /\ \A r : Kept(w.run, r) => Keeping(On(w, r)) /\ On(w, r).run = r /\ On(w, r).site = w.site
         /\ \A s : ShopSite(s) => /\ Keeping(Furnished(w, s)) /\ Furnished(w, s).run = w.run
                                  /\ Furnished(w, s).site = s
<1>1. ASSUME NEW v, Stays(w, v) PROVE Keeping(v)
  BY <1>1 DEF Keeping, Stays, Alive
<1>2. ASSUME NEW r, Kept(w.run, r)
      PROVE  Keeping(On(w, r)) /\ On(w, r).run = r /\ On(w, r).site = w.site
  <2>1. Stays(w, On(w, r)) /\ On(w, r).run = r
    BY <1>2, RunRooms DEF Keeping, Roomed
  <2> QED BY <1>1, <2>1 DEF Stays
<1>3. ASSUME NEW s, ShopSite(s)
      PROVE  Keeping(Furnished(w, s)) /\ Furnished(w, s).run = w.run /\ Furnished(w, s).site = s
  <2> DEFINE v == Furnished(w, s)
  <2>1. Common(v) /\ v.phase = w.phase /\ v.site = s /\ v.run = w.run
    BY FurnishedIs DEF Keeping
  <2> HIDE DEF v
  <2>2. Keeping(v) /\ v.run = w.run /\ v.site = s
    BY <1>3, <2>1 DEF Keeping
  <2> QED BY <2>2 DEF v
<1> QED BY <1>1, <1>2, <1>3

\* Another stock, screen or price.
LEMMA StockChange ==
  ASSUME NEW s, ShopSite(s)
  PROVE  /\ \A e : e = [j \in DOMAIN e |-> e[j]] /\ (\A j \in DOMAIN e : WareOK(e[j])) =>
              ShopSite([s EXCEPT !.wares = e]) /\ [s EXCEPT !.wares = e].wares = e
         /\ \A c \in Int : ShopSite([s EXCEPT !.cost = c])
         /\ \A c \in Int : \A p, x : ShopSite([s EXCEPT !.cost = c, !.purge = p, !.screen = x])
         /\ \A x : ShopSite([s EXCEPT !.screen = x])
<1>1. ASSUME NEW e, e = [j \in DOMAIN e |-> e[j]], \A j \in DOMAIN e : WareOK(e[j])
      PROVE  ShopSite([s EXCEPT !.wares = e]) /\ [s EXCEPT !.wares = e].wares = e
  <2> DEFINE t == [s EXCEPT !.wares = e]
  <2>1. t = [x \in {"screen", "wares", "purge", "cost"} |-> t[x]] /\ t.wares = e /\ t.cost = s.cost
    BY DEF ShopSite
  <2> HIDE DEF t
  <2>2. ShopSite(t) /\ t.wares = e
    BY <1>1, <2>1 DEF ShopSite
  <2> QED BY <2>2 DEF t
<1>2. ASSUME NEW t, t = [x \in {"screen", "wares", "purge", "cost"} |-> t[x]], t.wares = s.wares,
             t.cost \in Int
      PROVE  ShopSite(t)
  BY <1>2 DEF ShopSite
<1>3. ASSUME NEW c \in Int, NEW p, NEW x
      PROVE  /\ ShopSite([s EXCEPT !.cost = c]) /\ ShopSite([s EXCEPT !.screen = x])
             /\ ShopSite([s EXCEPT !.cost = c, !.purge = p, !.screen = x])
  <2> DEFINE t == [s EXCEPT !.cost = c]
             u == [s EXCEPT !.screen = x]
             z == [s EXCEPT !.cost = c, !.purge = p, !.screen = x]
  <2>1. /\ t = [y \in {"screen", "wares", "purge", "cost"} |-> t[y]] /\ t.wares = s.wares /\ t.cost \in Int
        /\ u = [y \in {"screen", "wares", "purge", "cost"} |-> u[y]] /\ u.wares = s.wares /\ u.cost \in Int
        /\ z = [y \in {"screen", "wares", "purge", "cost"} |-> z[y]] /\ z.wares = s.wares /\ z.cost \in Int
    BY DEF ShopSite
  <2> HIDE DEF t, u, z
  <2>2. ShopSite(t) /\ ShopSite(u) /\ ShopSite(z)
    BY <1>2, <2>1
  <2> QED BY <2>2 DEF t, u, z
<1>4. 0 \in Int
  OBVIOUS
<1> QED BY <1>1, <1>3, <1>4

\* A slot sold or filled again.
LEMMA SlotSold ==
  ASSUME NEW w, Keeping(w), NEW i
  PROVE  /\ Keeping(Sold(w, i)) /\ Sold(w, i).run = w.run
         /\ \A ware : WareOK(ware) => Keeping(Restocked(w, i, ware))
<1> DEFINE s == w.site
           ws == s.wares
           e == [ws EXCEPT ![i].sold = TRUE]
<1>1. ShopSite(s) /\ ws = [j \in DOMAIN ws |-> ws[j]] /\ \A j \in DOMAIN ws : WareOK(ws[j])
  BY DEF Keeping, ShopSite
<1>2. ASSUME NEW f, f = [j \in DOMAIN f |-> f[j]], \A j \in DOMAIN f : WareOK(f[j])
      PROVE  LET v == Furnished(w, [s EXCEPT !.wares = f]) IN Keeping(v) /\ v.run = w.run
  <2> DEFINE t == [s EXCEPT !.wares = f]
  <2>1. ShopSite(t)
    BY <1>1, <1>2, StockChange
  <2> HIDE DEF t
  <2>2. Keeping(Furnished(w, t)) /\ Furnished(w, t).run = w.run
    BY <2>1, ShopKept
  <2> QED BY <2>2 DEF t
<1>3. Keeping(Sold(w, i)) /\ Sold(w, i).run = w.run
  <2>1. e = [j \in DOMAIN e |-> e[j]] /\ DOMAIN e = DOMAIN ws
        /\ \A j \in DOMAIN ws : e[j] = IF j = i THEN [ws[j] EXCEPT !.sold = TRUE] ELSE ws[j]
    OBVIOUS
  <2>2. ASSUME NEW x, WareOK(x) PROVE WareOK([x EXCEPT !.sold = TRUE])
    BY <2>2 DEF WareOK
  <2>3. Sold(w, i) = Furnished(w, [s EXCEPT !.wares = e])
    BY DEF Sold, Furnished, Keeping, Common, WShape, WorldFields, ShopSite
  <2> HIDE DEF e, s, ws
  <2>4. \A j \in DOMAIN e : WareOK(e[j])
    BY <1>1, <2>1, <2>2
  <2> QED BY <1>2, <2>1, <2>3, <2>4
<1>4. ASSUME NEW ware, WareOK(ware) PROVE Keeping(Restocked(w, i, ware))
  <2> DEFINE f == [ws EXCEPT ![i] = ware]
  <2>1. f = [j \in DOMAIN f |-> f[j]] /\ DOMAIN f = DOMAIN ws
        /\ \A j \in DOMAIN ws : f[j] = IF j = i THEN ware ELSE ws[j]
    OBVIOUS
  <2>3. Restocked(w, i, ware) = Furnished(w, [s EXCEPT !.wares = f])
    BY DEF Restocked, Furnished, Keeping, Common, WShape, WorldFields, ShopSite
  <2> HIDE DEF f, s, ws
  <2>4. \A j \in DOMAIN f : WareOK(f[j])
    BY <1>1, <1>4, <2>1
  <2> QED BY <1>2, <2>1, <2>3, <2>4
<1> QED BY <1>3, <1>4

\* Prices are numbers.
LEMMA PricesInt ==
  ASSUME NEW r
  PROVE  /\ \A n \in Int : Discounted(r, n) \in Int
         /\ \A n \in Int : \A p \in Int : RoundedPercent(n, p) \in Int
         /\ r.purge \in Int => shop_purge_cost_at_init(r) \in Int /\ shop_purge_cost_after_purge(r) \in Int
<1>1. \A n \in Int : \A p \in Int : RoundedPercent(n, p) \in Int
  BY DEF RoundedPercent
<1>2. \A n \in Int : Discounted(r, n) \in Int
  <2> TAKE n \in Int
  <2> DEFINE c == IF Owns(r, "the_courier") THEN RoundedPercent(n, 80) ELSE n
  <2>1. c \in Int
    BY <1>1
  <2> HIDE DEF c
  <2>2. RoundedPercent(c, 50) \in Int
    BY <1>1, <2>1
  <2> QED BY <2>1, <2>2 DEF Discounted, c
<1>3. ASSUME r.purge \in Int
      PROVE  shop_purge_cost_at_init(r) \in Int /\ shop_purge_cost_after_purge(r) \in Int
  <2>1. /\ RoundedPercent(r.purge, 50) \in Int /\ RoundedPercent(r.purge, 80) \in Int
        /\ Discounted(r, r.purge) \in Int
    BY <1>2, <1>3 DEF RoundedPercent
  <2> QED BY <1>3, <2>1 DEF shop_purge_cost_at_init, shop_purge_cost_after_purge, kSmilingMaskPurgeCost
<1> QED BY <1>1, <1>2, <1>3

\* The wares that are laid out.
LEMMA WaresOK ==
  ASSUME NEW r
  PROVE  /\ \A kind \in {"card", "relic", "potion"} : \A what, up : WareOK(Ware(r, kind, what, up))
         /\ \A c \in CardWares(r) : WareOK(c)
         /\ \A p \in PotionWares(r) : WareOK(p)
<1>1. ASSUME NEW kind \in {"card", "relic", "potion"}, NEW what, NEW up
      PROVE  WareOK(Ware(r, kind, what, up))
  <2>1. BasePrice[kind] \in Int
    BY DEF BasePrice
  <2>2. Discounted(r, BasePrice[kind]) \in Int
    BY <2>1, PricesInt
  <2> DEFINE price == Discounted(r, BasePrice[kind])
  <2> HIDE DEF price
  <2>3. WareOK([kind |-> kind, what |-> what, up |-> up, sold |-> FALSE, price |-> price])
    BY <2>2 DEF WareOK, price
  <2> QED BY <2>3 DEF Ware, price
<1>2. \A c \in CardWares(r) : WareOK(c)
  BY <1>1 DEF CardWares
<1>3. \A p \in PotionWares(r) : WareOK(p)
  BY <1>1 DEF PotionWares
<1> QED BY <1>1, <1>2, <1>3

-----------------------------------------------------------------------------
\* What the shop's doors make of the run.
LEMMA PaidKeeps ==
  ASSUME NEW r, RunOK(r), NEW n \in Int
  PROVE  /\ Kept(r, SpendGold(r, n))
         /\ \A c : IsCard(c) => Kept(r, AddCopy(SpendGold(r, n), c))
         /\ \A p : Kept(r, SpendGold(PutPotion(r, p), n))
         /\ Kept(r, [SpendGold(r, n) EXCEPT !.purge = @ + kPurgeCostRamp])
<1>1. ASSUME NEW q, RunOK(q) PROVE Kept(q, SpendGold(q, n))
  BY <1>1, LoseKeeps, KeptOfSame DEF RunOK, Doored
<1>2. Kept(r, SpendGold(r, n)) /\ RunOK(SpendGold(r, n))
  BY <1>1 DEF Kept
<1>3. ASSUME NEW c, IsCard(c) PROVE Kept(r, AddCopy(SpendGold(r, n), c))
  BY <1>2, <1>3, CopyKeeps, KeptTwice DEF Doored
<1>4. ASSUME NEW p PROVE Kept(r, SpendGold(PutPotion(r, p), n))
  <2>1. Kept(r, PutPotion(r, p)) /\ RunOK(PutPotion(r, p))
    BY PutKeeps, BeltedIsKept DEF Kept
  <2> QED BY <1>1, <2>1, KeptTwice
<1>5. Kept(r, [SpendGold(r, n) EXCEPT !.purge = @ + kPurgeCostRamp])
  <2> DEFINE p == SpendGold(r, n)
             q == [p EXCEPT !.purge = @ + kPurgeCostRamp]
  <2>1. RunOK(p) /\ Kept(r, p)
    BY <1>2
  <2> HIDE DEF p
  <2>2. RunShape(q) /\ SameCards(p, q) /\ q.hp = p.hp /\ q.max = p.max /\ q.gold = p.gold
        /\ q.purge \in Int
    BY <2>1 DEF RunOK, Body, Vital, RunShape, RunFields, SameCards, kPurgeCostRamp
  <2> HIDE DEF q
  <2>3. Vital(q) /\ Alive(p, q)
    BY <2>1, <2>2 DEF RunOK, Body, Vital, Alive
  <2>4. Kept(p, q)
    BY <2>1, <2>2, <2>3, BodyOfSame, KeptOfSame DEF RunOK, Doored
  <2>5. Kept(r, q)
    BY <2>1, <2>4, KeptTwice
  <2> QED BY <2>5 DEF q, p
<1> QED BY <1>2, <1>3, <1>4, <1>5

\* The door of the shop.
LEMMA ShopEnterSound ==
  ASSUME NEW w, Common(w), w.run.hp > 0
  PROVE  AllSound(ShopEnter(w))
<1> DEFINE fed(r) == IF Owns(r, "meal_ticket") THEN HealOutOfCombat(r, kMealTicketHeal) ELSE r
           stall(ws) == [screen |-> "menu", wares |-> ws, purge |-> TRUE,
                        cost |-> shop_purge_cost_at_init(w.run)]
<1>1. ASSUME NEW s \in generate_shop(w.run)
      PROVE  Kept(w.run, fed(s.run)) /\ s.wares = [i \in DOMAIN s.wares |-> s.wares[i]]
             /\ \A i \in DOMAIN s.wares : WareOK(s.wares[i])
  <2> DEFINE d(t) == DrawFromEnd(w.run, t, TRUE)
             e(t) == DrawFromEnd(d(t).run, "shop", TRUE)
             a(t) == Ware(w.run, "relic", d(t).got, 0)
             b(t) == Ware(w.run, "relic", e(t).got, 0)
             laid(t) == {[run |-> e(t).run, wares |-> <<c, a(t), b(t), p>>] :
                           c \in CardWares(w.run), p \in PotionWares(w.run)}
  <2>1. generate_shop(w.run) = UNION {laid(t) : t \in RollTiers}
    BY DEF generate_shop
  <2>2. PICK t \in RollTiers, c \in CardWares(w.run), p \in PotionWares(w.run) :
          s = [run |-> e(t).run, wares |-> <<c, a(t), b(t), p>>]
    <3> HIDE DEF a, b, d, e
    <3> QED BY <1>1, <2>1
  <2>3. RunOK(w.run) /\ Doored(w.run, d(t).run)
    BY FromEndKeeps DEF Common
  <2>4. Doored(d(t).run, e(t).run)
    <3> HIDE DEF d
    <3> QED BY <2>3, FromEndKeeps DEF Doored, Kept
  <2>5. WareOK(a(t)) /\ WareOK(b(t)) /\ WareOK(c) /\ WareOK(p)
    <3> HIDE DEF d, e
    <3> QED BY WaresOK
  <2> HIDE DEF a, b, e, d
  <2>6. Kept(w.run, s.run) /\ RunOK(s.run)
    BY <2>2, <2>3, <2>4, DooredTwice DEF Doored, Kept
  <2>7. Kept(w.run, fed(s.run))
    <3>1. kMealTicketHeal \in Nat
      BY DEF kMealTicketHeal
    <3>2. Kept(s.run, HealOutOfCombat(s.run, kMealTicketHeal))
      BY <2>6, <3>1, Healing, KeptOfSame DEF RunOK, Doored
    <3> QED BY <2>6, <3>2, KeptTwice
  <2>8. s.wares = <<c, a(t), b(t), p>>
    BY <2>2
  <2>9. /\ DOMAIN <<c, a(t), b(t), p>> = {1, 2, 3, 4}
        /\ <<c, a(t), b(t), p>> = [i \in DOMAIN <<c, a(t), b(t), p>> |-> <<c, a(t), b(t), p>>[i]]
        /\ \A i \in {1, 2, 3, 4} : WareOK(<<c, a(t), b(t), p>>[i])
    BY <2>5
  <2> QED BY <2>7, <2>8, <2>9
<1>2. ASSUME NEW s \in generate_shop(w.run) PROVE Sound(Moved(On(w, fed(s.run)), "shop", stall(s.wares)))
  <2> DEFINE q == fed(s.run)
             u == On(w, q)
             z == stall(s.wares)
             v == Moved(u, "shop", z)
  <2>1. Kept(w.run, q)
    BY <1>1, <1>2
  <2> HIDE DEF q
  <2>2. Common(u) /\ u.run = q
    BY <2>1, RunRooms
  <2>3. ShopSite(z)
    <3>1. shop_purge_cost_at_init(w.run) \in Int
      BY PricesInt DEF Common, RunOK, Body, Vital
    <3> DEFINE cost == shop_purge_cost_at_init(w.run)
    <3> HIDE DEF cost
    <3>2. ShopSite([screen |-> "menu", wares |-> s.wares, purge |-> TRUE, cost |-> cost])
      BY <1>1, <1>2, <3>1 DEF ShopSite, cost
    <3> QED BY <3>2 DEF cost
  <2> HIDE DEF u, z
  <2>4. Common(v) /\ v.phase = "shop" /\ v.site = z /\ v.run = q
    BY <2>2, Housed
  <2>5. Keeping(v)
    <3> HIDE DEF v
    <3> QED BY <2>1, <2>3, <2>4 DEF Keeping, Kept, Alive
  <2> HIDE DEF v
  <2>6. Sound(v)
    BY <2>5, KeepingIsSound
  <2> QED BY <2>6 DEF v, u, z, q
<1>3. ShopEnter(w) = {Moved(On(w, fed(s.run)), "shop", stall(s.wares)) : s \in generate_shop(w.run)}
  BY Zenon DEF ShopEnter, Moved
<1> HIDE DEF fed, stall
<1> QED BY <1>2, <1>3 DEF AllSound

\* A card bought.
LEMMA CardBought ==
  ASSUME NEW w, Keeping(w), NEW i \in DOMAIN w.site.wares
  PROVE  AllSound(shop_buy_card(w, i))
<1> DEFINE ware == w.site.wares[i]
           q == AddCopy(SpendGold(w.run, ware.price), Fresh(ware.what, ware.up))
           v == On(w, q)
<1>1. ware.price \in Int /\ RunOK(w.run)
  BY DEF Keeping, ShopSite, WareOK, Common
<1>2. Kept(w.run, q)
  <2> HIDE DEF ware
  <2> QED BY <1>1, PaidKeeps, FreshIsCard
<1> HIDE DEF q
<1>3. Keeping(v)
  BY <1>2, ShopKept
<1> HIDE DEF v
<1>4. Sound(Sold(v, i)) /\ \A c \in CardWares(v.run) : Sound(Restocked(v, i, c))
  BY <1>3, SlotSold, WaresOK, KeepingIsSound
<1>5. shop_buy_card(w, i) =
        IF Owns(w.run, "the_courier") THEN {Restocked(v, i, c) : c \in CardWares(v.run)} ELSE {Sold(v, i)}
  BY Zenon DEF shop_buy_card, v, q, ware
<1> QED BY <1>4, <1>5 DEF AllSound

\* A potion bought.
LEMMA PotionBought ==
  ASSUME NEW w, Keeping(w), NEW i \in DOMAIN w.site.wares
  PROVE  AllSound(shop_buy_potion(w, i))
<1> DEFINE ware == w.site.wares[i]
           q == SpendGold(PutPotion(w.run, ware.what), ware.price)
           v == On(w, q)
<1>1. ware.price \in Int /\ RunOK(w.run)
  BY DEF Keeping, ShopSite, WareOK, Common
<1>2. Kept(w.run, q)
  <2> HIDE DEF ware
  <2> QED BY <1>1, PaidKeeps
<1> HIDE DEF q
<1>3. Keeping(v)
  BY <1>2, ShopKept
<1> HIDE DEF v
<1>4. Sound(Sold(v, i)) /\ \A c \in PotionWares(v.run) : Sound(Restocked(v, i, c))
  BY <1>3, SlotSold, WaresOK, KeepingIsSound
<1>5. shop_buy_potion(w, i) =
        IF Owns(w.run, "the_courier") THEN {Restocked(v, i, p) : p \in PotionWares(v.run)} ELSE {Sold(v, i)}
  BY Zenon DEF shop_buy_potion, v, q, ware
<1> QED BY <1>4, <1>5 DEF AllSound

\* A relic changes the prices, or hatches the cards.
LEMMA RepricedKept ==
  ASSUME NEW w, Keeping(w), NEW x
  PROVE  Keeping(Repriced(w, x))
<1> DEFINE s == w.site
           ws == s.wares
<1>1. ShopSite(s) /\ ws = [j \in DOMAIN ws |-> ws[j]] /\ \A j \in DOMAIN ws : WareOK(ws[j])
  BY DEF Keeping, ShopSite
<1>2. ASSUME NEW f, f = [j \in DOMAIN ws |-> f[j]], \A j \in DOMAIN ws : WareOK(f[j])
      PROVE  LET v == Furnished(w, [s EXCEPT !.wares = f]) IN Keeping(v) /\ v.run = w.run
  <2> DEFINE t == [s EXCEPT !.wares = f]
  <2>0. DOMAIN f = DOMAIN ws
    BY <1>2
  <2>1. ShopSite(t)
    BY <1>1, <1>2, <2>0, StockChange
  <2> HIDE DEF t
  <2>2. Keeping(Furnished(w, t)) /\ Furnished(w, t).run = w.run
    BY <2>1, ShopKept
  <2> QED BY <2>2 DEF t
<1>3. ASSUME NEW u, Keeping(u), NEW c \in Int PROVE Keeping([u EXCEPT !.site.cost = c])
  <2> DEFINE t == [u.site EXCEPT !.cost = c]
  <2>1. ShopSite(t)
    BY <1>3, StockChange DEF Keeping
  <2>2. [u EXCEPT !.site.cost = c] = Furnished(u, t)
    BY <1>3 DEF Furnished, Keeping, Common, WShape, WorldFields
  <2> HIDE DEF t
  <2> QED BY <1>3, <2>1, <2>2, ShopKept
<1>4. Keeping(apply_price_discount(w, 50))
  <2> DEFINE cheaper(ware) == [ware EXCEPT !.price = RoundedPercent(@, 50)]
             f == [j \in DOMAIN ws |-> IF ws[j].sold THEN ws[j] ELSE cheaper(ws[j])]
  <2>1. ASSUME NEW ware, WareOK(ware) PROVE WareOK(cheaper(ware))
    <3>1. RoundedPercent(ware.price, 50) \in Int
      BY <2>1, PricesInt DEF WareOK
    <3> QED BY <2>1, <3>1 DEF WareOK
  <2>2. f = [j \in DOMAIN ws |-> f[j]] /\ \A j \in DOMAIN ws : WareOK(f[j])
    <3> HIDE DEF cheaper, ws
    <3> QED BY <1>1, <2>1
  <2>3. apply_price_discount(w, 50) = Furnished(w, [s EXCEPT !.wares = f])
    <3>1. apply_price_discount(w, 50) = [w EXCEPT !.site.wares = f]
      BY DEF apply_price_discount
    <3> HIDE DEF f
    <3> QED BY <3>1 DEF Furnished, Keeping, Common, WShape, WorldFields, ShopSite
  <2> HIDE DEF f
  <2> QED BY <1>2, <2>2, <2>3
<1> DEFINE hatched(ware) == IF ware.kind = "card" /\ ~ware.sold
                            THEN [ware EXCEPT !.up = Hatched(w.run, Fresh(ware.what, @)).up] ELSE ware
           g == [j \in DOMAIN ws |-> hatched(ws[j])]
           cost == IF Owns(w.run, "smiling_mask") THEN kSmilingMaskPurgeCost ELSE RoundedPercent(w.run.purge, 50)
<1>5. Keeping(Furnished(w, [s EXCEPT !.wares = g]))
  <2>1. ASSUME NEW ware, WareOK(ware) PROVE WareOK(hatched(ware))
    <3> DEFINE up == Hatched(w.run, Fresh(ware.what, ware.up)).up
    <3>1. hatched(ware) \in {ware, [ware EXCEPT !.up = up]}
      OBVIOUS
    <3> HIDE DEF up, hatched
    <3> QED BY <2>1, <3>1 DEF WareOK
  <2>2. g = [j \in DOMAIN ws |-> g[j]] /\ \A j \in DOMAIN ws : WareOK(g[j])
    <3> HIDE DEF hatched, ws
    <3> QED BY <1>1, <2>1
  <2> HIDE DEF g
  <2> QED BY <1>2, <2>2
<1>6. Keeping([apply_price_discount(w, 50) EXCEPT !.site.cost = cost])
  <2>1. cost \in Int
    BY DEF Keeping, Common, RunOK, Body, Vital, kSmilingMaskPurgeCost, RoundedPercent
  <2> HIDE DEF cost
  <2> QED BY <1>3, <1>4, <2>1
<1>7. Keeping([w EXCEPT !.site.cost = kSmilingMaskPurgeCost])
  BY <1>3 DEF kSmilingMaskPurgeCost
<1>8. [w EXCEPT !.site.wares = g] = Furnished(w, [s EXCEPT !.wares = g])
  <2> HIDE DEF g
  <2> QED BY DEF Furnished, Keeping, Common, WShape, WorldFields, ShopSite
<1>9. Repriced(w, x) \in {[apply_price_discount(w, 50) EXCEPT !.site.cost = cost],
                          [w EXCEPT !.site.cost = kSmilingMaskPurgeCost],
                          [w EXCEPT !.site.wares = g]}
  <2>1. CASE x = "membership_card"
    BY <2>1 DEF Repriced
  <2>2. CASE x = "smiling_mask"
    BY <2>2 DEF Repriced
  <2>3. CASE x \notin {"membership_card", "smiling_mask"}
    BY <2>3 DEF Repriced
  <2> QED BY <2>1, <2>2, <2>3
<1> HIDE DEF g, cost, s, ws, hatched
<1> QED BY <1>5, <1>6, <1>7, <1>8, <1>9

-----------------------------------------------------------------------------
\* A relic bought.
LEMMA RelicBought ==
  ASSUME NEW w, Keeping(w), NEW i \in DOMAIN w.site.wares
  PROVE  AllSound(shop_buy_relic(w, i))
<1> DEFINE ware == w.site.wares[i]
           paid == Sold(On(w, SpendGold(w.run, ware.price)), i)
           d(v, t) == DrawFromEnd(v.run, t, TRUE)
           again(v, t) == Restocked(On(v, d(v, t).run), i, Ware(d(v, t).run, "relic", d(v, t).got, 0))
           stocked(v) == IF Owns(v.run, "the_courier") THEN {again(v, t) : t \in RollTiers} ELSE {v}
           what == ware.what
           all == UNION {stocked(Repriced(v, what)) : v \in AcquireWithScreen(paid, what)}
<1>1. Keeping(paid)
  <2>1. ware.price \in Int /\ RunOK(w.run)
    BY DEF Keeping, ShopSite, WareOK, Common
  <2> HIDE DEF ware
  <2>2. Kept(w.run, SpendGold(w.run, ware.price))
    BY <2>1, PaidKeeps
  <2>3. Keeping(On(w, SpendGold(w.run, ware.price)))
    BY <2>2, ShopKept
  <2> QED BY <2>3, SlotSold
<1>2. ASSUME NEW v, Keeping(v), NEW t PROVE Keeping(again(v, t))
  <2> DEFINE e == d(v, t)
             u == On(v, e.run)
  <2>1. Kept(v.run, e.run)
    BY <1>2, FromEndKeeps DEF Keeping, Common, Doored
  <2> HIDE DEF e, d
  <2>2. Keeping(u)
    BY <1>2, <2>1, ShopKept
  <2> HIDE DEF u
  <2>3. Keeping(Restocked(u, i, Ware(e.run, "relic", e.got, 0)))
    BY <2>2, SlotSold, WaresOK
  <2> QED BY <2>3 DEF u, e
<1> HIDE DEF again, paid, what
<1>3. ASSUME NEW v, Keeping(v) PROVE \A u \in stocked(v) : Keeping(u)
  BY <1>2, <1>3
<1>4. ASSUME NEW v \in AcquireWithScreen(paid, what) PROVE \A u \in stocked(Repriced(v, what)) : Keeping(u)
  <2>1. Stays(paid, v)
    BY <1>1, <1>4, AcquireRooms DEF Keeping, Roomed
  <2>2. Keeping(Repriced(v, what))
    BY <1>1, <2>1, ShopKept, RepricedKept
  <2> QED BY <1>3, <2>2
<1>5. shop_buy_relic(w, i) = {apply_claim_equip_request(u) : u \in all}
  BY DEF shop_buy_relic, paid, again, what
<1> HIDE DEF stocked
<1>6. \A u \in all : Keeping(u)
  BY <1>4
<1> HIDE DEF all
<1> QED BY <1>5, <1>6, KeepingIsSound DEF AllSound

\* Anything bought.
LEMMA BuySound ==
  ASSUME NEW w, Keeping(w), NEW i \in DOMAIN w.site.wares
  PROVE  AllSound(shop_buy(w, i))
<1>1. w.site.wares[i].kind \in {"card", "relic", "potion"}
  BY DEF Keeping, ShopSite, WareOK
<1>2. CASE w.site.wares[i].kind = "card"
  BY <1>2, CardBought DEF shop_buy
<1>3. CASE w.site.wares[i].kind = "relic"
  BY <1>3, RelicBought DEF shop_buy
<1>4. CASE w.site.wares[i].kind = "potion"
  BY <1>4, PotionBought DEF shop_buy
<1> QED BY <1>1, <1>2, <1>3, <1>4

\* The removal of a card, its grid opened and shut, and the way out.
LEMMA PurgeSound ==
  ASSUME NEW w, Keeping(w)
  PROVE  /\ Sound(PurgeOpened(w)) /\ Sound(PurgeClosed(w)) /\ Sound(ShopLeft(w))
         /\ \A i \in PurgeableUnbottled(w.run) : Sound(shop_purge_card(w, i))
<1>1. \A x : Sound([w EXCEPT !.site.screen = x])
  <2> TAKE x
  <2> DEFINE t == [w.site EXCEPT !.screen = x]
  <2>1. ShopSite(t)
    BY StockChange DEF Keeping
  <2>2. [w EXCEPT !.site.screen = x] = Furnished(w, t)
    BY DEF Furnished, Keeping, Common, WShape, WorldFields
  <2> HIDE DEF t
  <2> QED BY <2>1, <2>2, ShopKept, KeepingIsSound
<1>2. Sound(ShopLeft(w))
  BY LeftSound DEF ShopLeft, Keeping
<1>3. ASSUME NEW i \in PurgeableUnbottled(w.run) PROVE Sound(shop_purge_card(w, i))
  <2> DEFINE paid == [SpendGold(w.run, w.site.cost) EXCEPT !.purge = @ + kPurgeCostRamp]
             q == RemoveCard(paid, i)
             u == On(w, q)
             c == shop_purge_cost_after_purge(paid)
             t == [w.site EXCEPT !.cost = c, !.purge = FALSE, !.screen = "menu"]
  <2>1. Kept(w.run, paid)
    BY PaidKeeps DEF Keeping, ShopSite, Common
  <2>2. paid.deck = w.run.deck
    <3> DEFINE p == SpendGold(w.run, w.site.cost)
    <3>1. p.deck = w.run.deck
      BY LoseKeeps DEF Keeping, ShopSite, Common, RunOK, SameCards
    <3> HIDE DEF p
    <3>2. [p EXCEPT !.purge = @ + kPurgeCostRamp].deck = p.deck
      OBVIOUS
    <3> QED BY <3>1, <3>2 DEF p
  <2> HIDE DEF paid
  <2>3. Kept(paid, q)
    BY <2>1, <2>2, RemoveKeeps DEF PurgeableUnbottled, Kept, Doored
  <2>4. Kept(w.run, q) /\ c \in Int
    <3>1. paid.purge \in Int
      BY <2>1 DEF Kept, RunOK, Body, Vital
    <3> QED BY <2>1, <2>3, <3>1, KeptTwice, PricesInt
  <2> HIDE DEF q, c
  <2>5. Keeping(u) /\ u.site = w.site
    BY <2>4, ShopKept
  <2>6. ShopSite(t)
    BY <2>4, StockChange DEF Keeping
  <2> HIDE DEF u
  <2>7. shop_purge_card(w, i) = Furnished(u, t)
    <3>1. shop_purge_card(w, i) = [u EXCEPT !.site.cost = c, !.site.purge = FALSE, !.site.screen = "menu"]
      BY DEF shop_purge_card, u, q, c, paid
    <3> QED BY <2>5, <3>1 DEF Furnished, Keeping, Common, WShape, WorldFields, ShopSite
  <2> HIDE DEF t
  <2> QED BY <2>5, <2>6, <2>7, ShopKept, KeepingIsSound
<1> QED BY <1>1, <1>2, <1>3 DEF PurgeOpened, PurgeClosed

-----------------------------------------------------------------------------
\* Neow's room and the boss's chest: someone alive in it, its screen in order.
GridRoom(w) == Common(w) /\ w.run.hp > 0 /\ w.phase \in {"neow", "chest"} /\ GridSite(w.phase, w.site)

\* Such a world is sound.
LEMMA GridRoomIsSound ==
  ASSUME NEW w, GridRoom(w) PROVE Sound(w)
  BY DEF GridRoom, Sound, Phases

\* A step inside the room, or a change of its screen.
LEMMA GridKept ==
  ASSUME NEW w, GridRoom(w)
  PROVE  /\ \A v : Stays(w, v) => GridRoom(v) /\ v.phase = w.phase
         /\ \A r : Kept(w.run, r) => GridRoom(On(w, r)) /\ On(w, r).run = r /\ On(w, r).phase = w.phase
         /\ \A s : GridSite(w.phase, s) => /\ GridRoom(Furnished(w, s)) /\ Furnished(w, s).run = w.run
                                           /\ Furnished(w, s).phase = w.phase
<1>1. ASSUME NEW v, Stays(w, v) PROVE GridRoom(v) /\ v.phase = w.phase
  BY <1>1 DEF GridRoom, Stays, Alive
<1>2. ASSUME NEW r, Kept(w.run, r)
      PROVE  GridRoom(On(w, r)) /\ On(w, r).run = r /\ On(w, r).phase = w.phase
  <2>1. Stays(w, On(w, r)) /\ On(w, r).run = r
    BY <1>2, RunRooms DEF GridRoom, Roomed
  <2> QED BY <1>1, <2>1 DEF Stays
<1>3. ASSUME NEW s, GridSite(w.phase, s)
      PROVE  GridRoom(Furnished(w, s)) /\ Furnished(w, s).run = w.run /\ Furnished(w, s).phase = w.phase
  <2> DEFINE v == Furnished(w, s)
  <2>1. Common(v) /\ v.phase = w.phase /\ v.site = s /\ v.run = w.run
    BY FurnishedIs DEF GridRoom
  <2> HIDE DEF v
  <2>2. GridRoom(v) /\ v.run = w.run /\ v.phase = w.phase
    BY <1>3, <2>1 DEF GridRoom
  <2> QED BY <2>2 DEF v
<1> QED BY <1>1, <1>2, <1>3

\* The screens a grid room passes through.
LEMMA ScreenChange ==
  ASSUME NEW p \in {"neow", "chest"}, NEW s, GridSite(p, s)
  PROVE  /\ GridSite(p, [s EXCEPT !.screen = "done", !.mode = "none"])
         /\ GridSite(p, [s EXCEPT !.screen = "items", !.mode = "none"])
         /\ GridSite(p, [s EXCEPT !.screen = "items"])
         /\ p = "neow" => GridSite(p, [s EXCEPT !.screen = "card"])
         /\ p = "chest" => /\ GridSite(p, [s EXCEPT !.screen = "select", !.seen = TRUE])
                           /\ GridSite(p, [s EXCEPT !.screen = "closed"])
         /\ \A m \in GridModes : \A n :
              GridSite(p, [s EXCEPT !.screen = "grid", !.mode = m, !.needed = n, !.picked = <<>>])
         /\ \A i : GridSite(p, [s EXCEPT !.picked = Append(@, i)]) /\ IsList(Append(s.picked, i))
<1>1. ASSUME NEW t, t = [x \in DOMAIN t |-> t[x]], DOMAIN t = DOMAIN s,
             t.screen \in (IF p = "neow" THEN NeowScreens ELSE ChestScreens), IsList(t.picked),
             t.screen = "grid" => t.mode \in GridModes
      PROVE  GridSite(p, t)
  BY <1>1 DEF GridSite
<1>2. s = [x \in DOMAIN s |-> s[x]] /\ {"screen", "mode", "needed", "picked"} \subseteq DOMAIN s
      /\ IsList(s.picked) /\ (s.screen = "grid" => s.mode \in GridModes)
      /\ s.screen \in (IF p = "neow" THEN NeowScreens ELSE ChestScreens)
  BY DEF GridSite, GridFields
<1>3. IsList(<<>>)
  <2>1. <<>> \in Seq({})
    OBVIOUS
  <2> QED BY <2>1 DEF IsList
<1>4. \A i : IsList(Append(s.picked, i))
  <2> TAKE i
  <2>1. PICK S : s.picked \in Seq(S)
    BY <1>2 DEF IsList
  <2> DEFINE T == S \cup {i}
  <2>2. s.picked \in Seq(T) /\ i \in T
    BY <2>1
  <2> HIDE DEF T
  <2>3. Append(s.picked, i) \in Seq(T)
    BY <2>2
  <2> QED BY <2>3 DEF IsList
<1>5. GridSite(p, [s EXCEPT !.screen = "done", !.mode = "none"])
  <2> DEFINE t == [s EXCEPT !.screen = "done", !.mode = "none"]
  <2>1. t = [x \in DOMAIN t |-> t[x]] /\ DOMAIN t = DOMAIN s /\ t.screen = "done" /\ t.picked = s.picked
    BY <1>2
  <2> HIDE DEF t
  <2>2. GridSite(p, t)
    BY <1>1, <1>2, <2>1 DEF NeowScreens, ChestScreens
  <2> QED BY <2>2 DEF t
<1>6. GridSite(p, [s EXCEPT !.screen = "items", !.mode = "none"])
  <2> DEFINE t == [s EXCEPT !.screen = "items", !.mode = "none"]
  <2>1. t = [x \in DOMAIN t |-> t[x]] /\ DOMAIN t = DOMAIN s /\ t.screen = "items" /\ t.picked = s.picked
    BY <1>2
  <2> HIDE DEF t
  <2>2. GridSite(p, t)
    BY <1>1, <1>2, <2>1 DEF NeowScreens, ChestScreens
  <2> QED BY <2>2 DEF t
<1>7. ASSUME NEW x \in {"items", "card", "closed"},
             x \in (IF p = "neow" THEN NeowScreens ELSE ChestScreens)
      PROVE  GridSite(p, [s EXCEPT !.screen = x])
  <2> DEFINE t == [s EXCEPT !.screen = x]
  <2>1. t = [y \in DOMAIN t |-> t[y]] /\ DOMAIN t = DOMAIN s /\ t.screen = x /\ t.picked = s.picked
    BY <1>2
  <2> HIDE DEF t
  <2>2. GridSite(p, t)
    BY <1>1, <1>2, <1>7, <2>1
  <2> QED BY <2>2 DEF t
<1>8. p = "chest" => GridSite(p, [s EXCEPT !.screen = "select", !.seen = TRUE])
  <2> DEFINE t == [s EXCEPT !.screen = "select", !.seen = TRUE]
  <2>1. t = [y \in DOMAIN t |-> t[y]] /\ DOMAIN t = DOMAIN s /\ t.screen = "select" /\ t.picked = s.picked
    BY <1>2
  <2> HIDE DEF t
  <2>2. p = "chest" => GridSite(p, t)
    BY <1>1, <1>2, <2>1 DEF ChestScreens
  <2> QED BY <2>2 DEF t
<1>9. ASSUME NEW m \in GridModes, NEW n
      PROVE  GridSite(p, [s EXCEPT !.screen = "grid", !.mode = m, !.needed = n, !.picked = <<>>])
  <2> DEFINE t == [s EXCEPT !.screen = "grid", !.mode = m, !.needed = n, !.picked = <<>>]
  <2>1. /\ t = [y \in DOMAIN t |-> t[y]] /\ DOMAIN t = DOMAIN s /\ t.screen = "grid" /\ t.picked = <<>>
        /\ t.mode = m
    BY <1>2
  <2> HIDE DEF t
  <2>2. GridSite(p, t)
    BY <1>1, <1>3, <1>9, <2>1 DEF NeowScreens, ChestScreens
  <2> QED BY <2>2 DEF t
<1>10. ASSUME NEW i PROVE GridSite(p, [s EXCEPT !.picked = Append(@, i)])
  <2> DEFINE t == [s EXCEPT !.picked = Append(@, i)]
  <2>1. /\ t = [y \in DOMAIN t |-> t[y]] /\ DOMAIN t = DOMAIN s /\ t.screen = s.screen
        /\ t.picked = Append(s.picked, i) /\ t.mode = s.mode
    BY <1>2
  <2> HIDE DEF t
  <2>2. GridSite(p, t)
    BY <1>1, <1>2, <1>4, <2>1
  <2> QED BY <2>2 DEF t
<1>11. /\ "items" \in NeowScreens /\ "items" \in ChestScreens /\ "card" \in NeowScreens
       /\ "closed" \in ChestScreens
  BY DEF NeowScreens, ChestScreens
<1>12. /\ GridSite(p, [s EXCEPT !.screen = "items"])
       /\ p = "neow" => GridSite(p, [s EXCEPT !.screen = "card"])
       /\ p = "chest" => GridSite(p, [s EXCEPT !.screen = "closed"])
  BY <1>7, <1>11
<1> QED BY <1>4, <1>5, <1>6, <1>8, <1>9, <1>10, <1>12

\* The screens of the world.
LEMMA ScreensKept ==
  ASSUME NEW w, GridRoom(w)
  PROVE  /\ GridRoom(Done(w)) /\ Done(w).run = w.run
         /\ GridRoom([w EXCEPT !.site.screen = "items", !.site.mode = "none"])
         /\ GridRoom([w EXCEPT !.site.screen = "items"])
         /\ w.phase = "neow" => GridRoom([w EXCEPT !.site.screen = "card"])
         /\ w.phase = "chest" => GridRoom(open_boss_chest(w)) /\ GridRoom(close_boss_chest(w))
         /\ \A m \in GridModes : \A n : GridRoom(open_grid(w, m, n))
         /\ \A i : GridRoom([w EXCEPT !.site.picked = Append(@, i)]) /\ IsList(Append(w.site.picked, i))
<1>1. /\ w.phase \in {"neow", "chest"} /\ GridSite(w.phase, w.site)
  BY DEF GridRoom
<1>2. /\ Done(w) = Furnished(w, [w.site EXCEPT !.screen = "done", !.mode = "none"])
      /\ [w EXCEPT !.site.screen = "items", !.site.mode = "none"]
           = Furnished(w, [w.site EXCEPT !.screen = "items", !.mode = "none"])
      /\ [w EXCEPT !.site.screen = "items"] = Furnished(w, [w.site EXCEPT !.screen = "items"])
      /\ [w EXCEPT !.site.screen = "card"] = Furnished(w, [w.site EXCEPT !.screen = "card"])
      /\ open_boss_chest(w) = Furnished(w, [w.site EXCEPT !.screen = "select", !.seen = TRUE])
      /\ close_boss_chest(w) = Furnished(w, [w.site EXCEPT !.screen = "closed"])
  BY DEF Done, open_boss_chest, close_boss_chest, Furnished, GridRoom, Common, WShape, WorldFields
<1>3. /\ \A m, n : open_grid(w, m, n) = Furnished(w, [w.site EXCEPT !.screen = "grid", !.mode = m,
                                                          !.needed = n, !.picked = <<>>])
      /\ \A i : [w EXCEPT !.site.picked = Append(@, i)]
                  = Furnished(w, [w.site EXCEPT !.picked = Append(@, i)])
  BY DEF open_grid, Furnished, GridRoom, Common, WShape, WorldFields
<1>4. \A s : GridSite(w.phase, s) => GridRoom(Furnished(w, s)) /\ Furnished(w, s).run = w.run
  BY GridKept
<1>5. /\ GridRoom(Done(w)) /\ Done(w).run = w.run
      /\ GridRoom([w EXCEPT !.site.screen = "items", !.site.mode = "none"])
      /\ GridRoom([w EXCEPT !.site.screen = "items"])
  <2> DEFINE s == [w.site EXCEPT !.screen = "done", !.mode = "none"]
             t == [w.site EXCEPT !.screen = "items", !.mode = "none"]
             u == [w.site EXCEPT !.screen = "items"]
  <2>1. GridSite(w.phase, s) /\ GridSite(w.phase, t) /\ GridSite(w.phase, u)
    BY <1>1, ScreenChange
  <2>2. Done(w) = Furnished(w, s)
    BY <1>2
  <2>3. [w EXCEPT !.site.screen = "items", !.site.mode = "none"] = Furnished(w, t)
    BY <1>2
  <2>4. [w EXCEPT !.site.screen = "items"] = Furnished(w, u)
    BY <1>2
  <2> HIDE DEF s, t, u
  <2> QED BY <1>4, <2>1, <2>2, <2>3, <2>4
<1>6. /\ w.phase = "neow" => GridRoom([w EXCEPT !.site.screen = "card"])
      /\ w.phase = "chest" => GridRoom(open_boss_chest(w)) /\ GridRoom(close_boss_chest(w))
  BY <1>1, <1>2, <1>4, ScreenChange
<1>7. ASSUME NEW m \in GridModes, NEW n PROVE GridRoom(open_grid(w, m, n))
  <2> DEFINE s == [w.site EXCEPT !.screen = "grid", !.mode = m, !.needed = n, !.picked = <<>>]
  <2>1. GridSite(w.phase, s)
    BY <1>1, ScreenChange
  <2>2. open_grid(w, m, n) = Furnished(w, s)
    BY <1>3
  <2> HIDE DEF s
  <2> QED BY <1>4, <2>1, <2>2
<1>8. ASSUME NEW i
      PROVE  GridRoom([w EXCEPT !.site.picked = Append(@, i)]) /\ IsList(Append(w.site.picked, i))
  <2> DEFINE s == [w.site EXCEPT !.picked = Append(@, i)]
  <2>1. GridSite(w.phase, s) /\ IsList(Append(w.site.picked, i))
    BY <1>1, ScreenChange
  <2>2. [w EXCEPT !.site.picked = Append(@, i)] = Furnished(w, s)
    BY <1>3
  <2> HIDE DEF s
  <2> QED BY <1>4, <2>1, <2>2
<1> QED BY <1>5, <1>6, <1>7, <1>8

-----------------------------------------------------------------------------
\* What a boss relic asks for, answered on the room's own screen.
LEMMA RequestKept ==
  ASSUME NEW w, GridRoom(w) PROVE GridRoom(OpenRequest(w))
<1> DEFINE v == [w EXCEPT !.pend = "none"]
<1>1. GridRoom(v)
  <2>1. Stays(w, v)
    BY PendRooms DEF GridRoom, Roomed
  <2> HIDE DEF v
  <2> QED BY <2>1, GridKept
<1>2. \/ OpenRequest(w) \in {open_grid(v, "remove", 2), open_grid(v, "transform_upgrade", 3),
                             [v EXCEPT !.site.screen = "items"], Done(v)}
      \/ w.pend \in Confirms /\ OpenRequest(w) = open_grid(v, w.pend, 0)
  <2> HIDE DEF v
  <2>1. CASE w.pend = "remove"
    BY <2>1 DEF OpenRequest, v, Confirms
  <2>2. CASE w.pend = "transform"
    BY <2>2 DEF OpenRequest, v, Confirms
  <2>3. CASE w.pend \in Confirms
    BY <2>3 DEF OpenRequest, v, Confirms
  <2>4. CASE w.pend = "items"
    BY <2>4 DEF OpenRequest, v, Confirms
  <2>5. CASE w.pend \notin {"remove", "transform", "items"} \cup Confirms
    BY <2>5 DEF OpenRequest, v, Confirms
  <2> QED BY <2>1, <2>2, <2>3, <2>4, <2>5
<1> HIDE DEF v
<1>3. {"remove", "transform_upgrade"} \cup Confirms \subseteq GridModes
  BY DEF GridModes
<1>4. /\ GridRoom(open_grid(v, "remove", 2)) /\ GridRoom(open_grid(v, "transform_upgrade", 3))
      /\ GridRoom([v EXCEPT !.site.screen = "items"]) /\ GridRoom(Done(v))
      /\ w.pend \in Confirms => GridRoom(open_grid(v, w.pend, 0))
  BY <1>1, <1>3, ScreensKept
<1> QED BY <1>2, <1>4

\* The last pick of a grid.
LEMMA GridApplied ==
  ASSUME NEW r, RunOK(r), NEW mode \in GridModes \ Confirms, NEW picked, IsList(picked)
  PROVE  \A q \in apply_grid(r, mode, picked) : Kept(r, q)
<1>1. /\ Kept(r, UpgradeCard(r, picked[1])) /\ Kept(r, Without(r, Range(picked)))
      /\ \A up : \A q \in Renewed(r, picked, up) : Kept(r, q)
  BY UpgradeKeeps, WithoutKeeps, RenewedKeeps DEF Doored
<1>2. CASE mode = "upgrade"
  BY <1>1, <1>2 DEF apply_grid
<1>3. CASE mode = "remove"
  BY <1>1, <1>3 DEF apply_grid
<1>4. CASE mode = "transform"
  BY <1>1, <1>4 DEF apply_grid
<1>5. CASE mode = "transform_upgrade"
  BY <1>1, <1>5 DEF apply_grid, relic_astrolabe_transform_cards
<1> QED BY <1>2, <1>3, <1>4, <1>5 DEF GridModes

\* A pick on Neow's or the boss's chest's grid.
LEMMA GridPickKept ==
  ASSUME NEW w, GridRoom(w), w.site.screen = "grid", w.site.mode \notin Confirms, NEW i
  PROVE  \A v \in neow_grid_pick(w, i) : GridRoom(v)
<1> DEFINE picked == Append(w.site.picked, i)
<1>1. IsList(picked) /\ GridRoom([w EXCEPT !.site.picked = picked])
  BY ScreensKept
<1>2. w.site.mode \in GridModes \ Confirms /\ RunOK(w.run)
  BY DEF GridRoom, GridSite, Common
<1> HIDE DEF picked
<1>3. ASSUME NEW r \in apply_grid(w.run, w.site.mode, picked) PROVE GridRoom(Done(On(w, r)))
  <2>1. Kept(w.run, r)
    BY <1>1, <1>2, <1>3, GridApplied
  <2> QED BY <2>1, GridKept, ScreensKept
<1> QED BY <1>1, <1>3 DEF neow_grid_pick, picked

\* Pandora's cards come.
LEMMA PandoraKept ==
  ASSUME NEW w, GridRoom(w) PROVE GridRoom(PandoraComes(w))
<1> DEFINE rows == Reverse(w.loot.rows)
           r == PreviewFold!Folded(w.run, w.run, rows)
           u == On(w, r)
<1>1. IsList(rows)
  <2>1. PICK S : w.loot.rows \in Seq(S)
    BY DEF GridRoom, Common, LootOK
  <2> DEFINE s == w.loot.rows
  <2>2. s \in Seq(S) /\ Len(s) \in Nat /\ \A j \in 1..Len(s) : s[j] \in S
    BY <2>1, LenProperties, ElementOfSeq
  <2> HIDE DEF s
  <2>3. \A j \in 1..Len(s) : Len(s) - j + 1 \in 1..Len(s)
    BY <2>2
  <2>4. [j \in 1..Len(s) |-> s[Len(s) - j + 1]] \in Seq(S)
    BY <2>2, <2>3
  <2>5. Reverse(s) \in Seq(S)
    BY <2>4 DEF Reverse
  <2> QED BY <2>5 DEF IsList, s
<1>2. Kept(w.run, r)
  <2> HIDE DEF rows
  <2> QED BY <1>1, PreviewsKeep DEF GridRoom, Common, Doored
<1>3. \A p : PandoraComes(w) = Done(ClearLoot(On(w, PreviewFold!Folded(p, w.run, rows))))
  BY Zenon DEF PandoraComes, PreviewFold!Folded, PreviewOp, 
               PreviewFold!MapThenFoldSet, FoldLeft, MapThenFoldSet, PreviewFold!Greatest, Max
<1>4. PandoraComes(w) = Done(ClearLoot(u))
  <2> HIDE DEF rows
  <2> QED BY <1>3
<1> HIDE DEF r
<1>5. GridRoom(u)
  BY <1>2, GridKept
<1> HIDE DEF u
<1>6. GridRoom(ClearLoot(u))
  <2>1. Stays(u, ClearLoot(u))
    BY <1>5, ClearRooms DEF GridRoom, Roomed
  <2> QED BY <1>5, <2>1, GridKept
<1> QED BY <1>4, <1>6, ScreensKept

\* The bell's relics, one of each tier.
BellOp(p, a, t) == WithRow(On(a, DrawScreenless(a.run, t).run), Row("relic", 0, DrawScreenless(a.run, t).got))
BellGood(p, n, a) == Stays(p, a)
BellFold == INSTANCE FoldFacts WITH Op <- BellOp, Good <- BellGood

\* The bell is a fold over the tiers.
LEMMA BellFolds ==
  ASSUME NEW w, NEW p
  PROVE  BellTolls(w) =
           [BellFold!Folded(p, ClearLoot(On(w, AddCard(w.run, "bell"))), <<"common", "uncommon", "rare">>)
              EXCEPT !.site.screen = "items", !.site.mode = "none"]
  BY Zenon DEF BellTolls, BellFold!Folded, BellOp, BellFold!MapThenFoldSet,
               FoldLeft, MapThenFoldSet, BellFold!Greatest, Max

\* The bell's curse and relics.
LEMMA BellKept ==
  ASSUME NEW w, GridRoom(w) PROVE GridRoom(BellTolls(w))
<1> DEFINE q == AddCard(w.run, "bell")
           u == On(w, q)
           base == ClearLoot(u)
           seq == <<"common", "uncommon", "rare">>
           v == BellFold!Folded(base, base, seq)
<1>1. Kept(w.run, q)
  BY AddKeeps DEF GridRoom, Common, Doored
<1> HIDE DEF q
<1>2. GridRoom(u)
  BY <1>1, GridKept
<1> HIDE DEF u
<1>3. Stays(u, base) /\ Common(base)
  BY <1>2, ClearRooms DEF GridRoom, Roomed
<1>4. GridRoom(base)
  BY <1>2, <1>3, GridKept
<1>5. BellTolls(w) = [v EXCEPT !.site.screen = "items", !.site.mode = "none"]
  BY BellFolds, Zenon DEF q, u
<1> HIDE DEF base
<1>6. BellGood(base, 0, base)
  BY <1>3, RoomedNone DEF BellGood, Roomed
<1>7. ASSUME NEW i \in 1..Len(seq), NEW a, BellGood(base, i - 1, a)
      PROVE  BellGood(base, i, BellOp(base, a, seq[i]))
  <2> DEFINE t == seq[i]
             d == DrawScreenless(a.run, t)
  <2>1. Stays(base, a)
    BY <1>7 DEF BellGood
  <2> HIDE DEF t
  <2>2. Kept(a.run, d.run)
    BY <2>1, ScreenlessKeeps DEF Stays, Common, Doored
  <2> HIDE DEF d
  <2>3. Stays(base, WithRow(On(a, d.run), Row("relic", 0, d.got)))
    BY <2>1, <2>2, DrawnStays
  <2> QED BY <2>3 DEF BellGood, BellOp, d, t
<1>8. seq \in Seq({"common", "uncommon", "rare"})
  OBVIOUS
<1>9. BellGood(base, Len(seq), v)
  <2> HIDE DEF seq
  <2> QED BY <1>6, <1>7, <1>8, BellFold!FoldKeeps
<1> HIDE DEF v, seq
<1>10. GridRoom(v)
  BY <1>4, <1>9, GridKept DEF BellGood
<1> QED BY <1>5, <1>10, ScreensKept

\* A grid that only shows.
LEMMA ConfirmKept ==
  ASSUME NEW w, GridRoom(w) PROVE GridRoom(GridConfirm(w))
  BY PandoraKept, BellKept DEF GridConfirm

-----------------------------------------------------------------------------
\* A blessing's relic, whatever screen it opens.
LEMMA SpawnKept ==
  ASSUME NEW w, GridRoom(w), NEW d, Kept(w.run, d.run)
  PROVE  \A v \in spawn_relic_and_obtain(w, d) : GridRoom(v)
<1> DEFINE u == On(w, d.run)
<1>1. GridRoom(u)
  BY GridKept
<1> HIDE DEF u
<1>2. \A v \in AcquireWithScreen(u, d.got) : GridRoom(v)
  <2>1. \A v \in AcquireWithScreen(u, d.got) : Stays(u, v)
    BY <1>1, AcquireRooms DEF GridRoom, Roomed
  <2> QED BY <1>1, <2>1, GridKept
<1>3. spawn_relic_and_obtain(w, d) = {OpenRequest(v) : v \in AcquireWithScreen(u, d.got)}
  BY DEF spawn_relic_and_obtain, u
<1> QED BY <1>2, <1>3, RequestKept

\* The reward screen lent to the room.
LEMMA LentKept ==
  ASSUME NEW w, GridRoom(w), NEW l, LootOK(l)
  PROVE  /\ GridRoom([w EXCEPT !.loot = l, !.site.screen = "items"])
         /\ w.phase = "neow" => GridRoom([w EXCEPT !.loot = l, !.site.screen = "card"])
<1> DEFINE u == [w EXCEPT !.loot = l]
<1>1. GridRoom(u) /\ u.phase = w.phase
  <2>1. Stays(w, u)
    BY LootRooms DEF GridRoom
  <2> HIDE DEF u
  <2> QED BY <2>1, GridKept
<1>2. /\ [w EXCEPT !.loot = l, !.site.screen = "items"] = [u EXCEPT !.site.screen = "items"]
      /\ [w EXCEPT !.loot = l, !.site.screen = "card"] = [u EXCEPT !.site.screen = "card"]
  BY DEF GridRoom, Common, WShape, WorldFields
<1> HIDE DEF u
<1> QED BY <1>1, <1>2, ScreensKept

\* What a blessing pays.
LEMMA PayoutKept ==
  ASSUME NEW w, GridRoom(w), w.phase = "neow", NEW bonus \in Nat, NEW paid \in BOOLEAN,
         NEW type \in FreeBlessings \cup {"remove_two", "rare_relic", "transform_two"}
  PROVE  \A v \in apply_payout(w, type, paid, bonus) : GridRoom(v)
<1> DEFINE r == w.run
           cs == {Fresh(k, 0) : k \in RandomCards}
           offer == [Row("cards", 0, "none") EXCEPT !.cards = cs]
           all == apply_payout(w, type, paid, bonus)
<1> SUFFICES \A v \in all : GridRoom(v)
  OBVIOUS
<1>1. RunOK(r)
  BY DEF GridRoom, Common
<1>2. \A n : /\ GridRoom(open_grid(w, "remove", n)) /\ GridRoom(open_grid(w, "transform", n))
             /\ GridRoom(open_grid(w, "upgrade", n))
  <2>1. {"remove", "transform", "upgrade"} \subseteq GridModes
    BY DEF GridModes
  <2> QED BY <2>1, ScreensKept
<1>3. \A q : Kept(r, q) => GridRoom(Done(On(w, q)))
  BY GridKept, ScreensKept
<1>4. CASE type = "cards"
  <2>1. RowOK(offer)
    <3>1. RowOK(Row("cards", 0, "none"))
      BY SomeRows DEF RowKinds
    <3>2. \A c \in cs : IsCard(c)
      BY FreshIsCard
    <3> DEFINE row == Row("cards", 0, "none")
    <3> HIDE DEF cs, row
    <3>3. RowOK([row EXCEPT !.cards = cs])
      BY <3>1, <3>2 DEF RowOK, RowFields, row
    <3> QED BY <3>3 DEF row
  <2> DEFINE s == <<offer>>
             l == [rows |-> s, open |-> 1]
  <2>2. LootOK(l)
    <3> HIDE DEF offer
    <3>1. s \in Seq({offer}) /\ Len(s) = 1
      OBVIOUS
    <3> HIDE DEF s
    <3> QED BY <2>1, <3>1 DEF LootOK
  <2>3. all = {[w EXCEPT !.loot = l, !.site.screen = "card"]}
    BY <1>4 DEF apply_payout
  <2> HIDE DEF l, s
  <2>4. GridRoom([w EXCEPT !.loot = l, !.site.screen = "card"])
    BY <2>2, LentKept
  <2> HIDE DEF all
  <2> QED BY <2>3, <2>4
<1>5. CASE type = "rare_card"
  <2>1. all = {Done(On(w, AddCard(r, k))) : k \in RandomCards}
    BY <1>5 DEF apply_payout
  <2>2. \A k : Kept(r, AddCard(r, k))
    BY <1>1, Moves
  <2> HIDE DEF all
  <2> QED BY <1>3, <2>1, <2>2
<1>6. CASE type \in {"remove", "remove_two", "transform", "transform_two", "upgrade"}
  <2>1. all \subseteq {open_grid(w, "remove", 1), open_grid(w, "remove", 2), open_grid(w, "transform", 1),
                       open_grid(w, "transform", 2), open_grid(w, "upgrade", 1)}
    BY <1>6 DEF apply_payout
  <2> HIDE DEF all
  <2> QED BY <1>2, <2>1
<1>7. CASE type = "potions"
  <2>1. all = {[w EXCEPT !.loot = [rows |-> p, open |-> 0], !.site.screen = "items"] : p \in PotionRows(3)}
    BY <1>7 DEF apply_payout
  <2>2. ASSUME NEW p \in PotionRows(3)
        PROVE  GridRoom([w EXCEPT !.loot = [rows |-> p, open |-> 0], !.site.screen = "items"])
    <3> DEFINE n == 3
               l == [rows |-> p, open |-> 0]
    <3>1. n \in Nat /\ p \in PotionRows(n)
      BY <2>2
    <3> HIDE DEF n
    <3>2. LootOK(l)
      BY <3>1, PotionRowsOK
    <3> HIDE DEF l
    <3>3. GridRoom([w EXCEPT !.loot = l, !.site.screen = "items"])
      BY <3>2, LentKept
    <3> QED BY <3>3 DEF l
  <2> HIDE DEF all
  <2> QED BY <2>1, <2>2
<1>8. CASE type \in {"common_relic", "rare_relic", "boss_relic"}
  <2> DEFINE a == DrawRelic(r, "common", FALSE)
             b == DrawRelic(r, "rare", FALSE)
             lost == LoseRelic(r, "burning_blood")
             c == DrawRelic(lost, "boss", FALSE)
  <2>1. all \in {spawn_relic_and_obtain(w, a), spawn_relic_and_obtain(w, b), spawn_relic_and_obtain(w, c)}
    BY <1>8 DEF apply_payout
  <2>2. Kept(r, a.run) /\ Kept(r, b.run)
    BY <1>1, DrawKeeps DEF Doored
  <2>3. Kept(r, c.run)
    <3>1. Kept(r, lost)
      BY <1>1, LoseKept
    <3> HIDE DEF lost
    <3>2. Kept(lost, c.run)
      BY <3>1, DrawKeeps DEF Doored, Kept
    <3> QED BY <3>1, <3>2, KeptTwice
  <2> HIDE DEF a, b, c, all
  <2> QED BY <2>1, <2>2, <2>3, SpawnKept
<1>9. CASE type = "lament"
  <2> DEFINE d == [got |-> "neows_lament", run |-> r]
  <2>1. Kept(r, d.run)
    BY <1>1, Moves
  <2>2. all = spawn_relic_and_obtain(w, d)
    BY <1>9 DEF apply_payout
  <2> HIDE DEF all, d
  <2> QED BY <2>1, <2>2, SpawnKept
<1>10. CASE type = "hp_bonus"
  <2> DEFINE n == IF paid THEN 2 * bonus ELSE bonus
  <2>1. n \in Nat
    OBVIOUS
  <2>2. all = {Done(On(w, RaiseMax(r, n)))}
    BY <1>10 DEF apply_payout
  <2> HIDE DEF all, n
  <2>3. Kept(r, RaiseMax(r, n))
    BY <1>1, <2>1, Moves
  <2> QED BY <1>3, <2>2, <2>3
<1>11. CASE type = "gold"
  <2> DEFINE n == IF paid THEN 250 ELSE 100
  <2>1. n \in Int
    OBVIOUS
  <2>2. all = {Done(On(w, GainGold(r, n)))}
    BY <1>11 DEF apply_payout
  <2> HIDE DEF all, n
  <2>3. Kept(r, GainGold(r, n))
    BY <1>1, <2>1, Moves
  <2> QED BY <1>3, <2>2, <2>3
<1> QED BY <1>4, <1>5, <1>6, <1>7, <1>8, <1>9, <1>10, <1>11 DEF FreeBlessings

\* neow_activate: a drawback, the blessing, and the curse.
LEMMA BlessingKept ==
  ASSUME NEW w, GridRoom(w), w.phase = "neow", NEW b \in Blessings
  PROVE  \A v \in neow_activate(w, b[1], b[2]) : GridRoom(v)
<1> DEFINE q == apply_drawback(w.run, b[1])
           u == On(w, q)
           paid == b[1] # "none"
           bonus == hp_bonus(w.run)
           out == apply_payout(u, b[2], paid, bonus)
<1>1. b[2] \in FreeBlessings \cup {"remove_two", "rare_relic", "transform_two"}
  BY DEF Blessings, PaidBlessings, FreeBlessings
<1>2. bonus \in Nat
  <2>1. w.run.max \in Nat
    BY DEF GridRoom, Common, RunOK, Body, Vital
  <2> QED BY <2>1 DEF hp_bonus, Percent
<1>3. GridRoom(u) /\ u.phase = "neow"
  <2>1. Kept(w.run, q)
    BY DrawbackKeeps DEF GridRoom, Common
  <2> HIDE DEF q
  <2> QED BY <2>1, GridKept
<1>4. neow_activate(w, b[1], b[2]) =
        IF b[1] # "curse" THEN out ELSE {On(v, AddCard(v.run, k)) : v \in out, k \in RandomCurses}
  BY DEF neow_activate
<1> HIDE DEF u, bonus
<1>5. paid \in BOOLEAN
  OBVIOUS
<1> HIDE DEF paid
<1>6. \A v \in out : GridRoom(v)
  BY <1>1, <1>2, <1>3, <1>5, PayoutKept
<1> HIDE DEF out
<1>7. ASSUME NEW v, GridRoom(v), NEW k PROVE GridRoom(On(v, AddCard(v.run, k)))
  <2>1. Kept(v.run, AddCard(v.run, k))
    BY <1>7, AddKeeps DEF GridRoom, Common, Doored
  <2> QED BY <1>7, <2>1, GridKept
<1>8. CASE b[1] # "curse"
  BY <1>4, <1>6, <1>8
<1>9. CASE b[1] = "curse"
  <2>1. neow_activate(w, b[1], b[2]) = {On(v, AddCard(v.run, k)) : v \in out, k \in RandomCurses}
    BY <1>4, <1>9
  <2> TAKE x \in neow_activate(w, b[1], b[2])
  <2>2. PICK v \in out, k \in RandomCurses : x = On(v, AddCard(v.run, k))
    BY <2>1
  <2> QED BY <1>6, <1>7, <2>2
<1> QED BY <1>8, <1>9

-----------------------------------------------------------------------------
\* The card that was dealt: taken, sung, or neither; and the items left.
LEMMA DealtKept ==
  ASSUME NEW w, GridRoom(w)
  PROVE  /\ \A c : IsCard(c) => GridRoom(CardTaken(w, c))
         /\ GridRoom(CardSung(w)) /\ GridRoom(neow_skip_card(w)) /\ GridRoom(ItemsLeft(w))
<1>1. \A v : Stays(w, v) => GridRoom(Done(v))
  BY GridKept, ScreensKept
<1>2. /\ \A c : IsCard(c) => Stays(w, reward_take_card(w, c))
      /\ Stays(w, reward_sing(w)) /\ Stays(w, ClearLoot(w))
  BY CardRooms, ClearRooms DEF GridRoom, Roomed
<1> QED BY <1>1, <1>2 DEF CardTaken, CardSung, neow_skip_card, ItemsLeft

\* The way in, and the way out.
LEMMA NeowDoors ==
  ASSUME NEW w, Common(w)
  PROVE  /\ w.run.hp > 0 => AllSound(NeowEnter(w))
         /\ Sound(NeowLeaves(w)) /\ Sound(leave_boss_chest(w)) /\ Sound(TreasureLeft(w))
<1>1. ASSUME w.run.hp > 0 PROVE AllSound(NeowEnter(w))
  <2> DEFINE s == NoGrid("blessing")
             v == Moved(w, "neow", s)
  <2>1. GridSite("neow", s)
    <3>1. <<>> \in Seq({})
      OBVIOUS
    <3>2. s = [x \in DOMAIN s |-> s[x]] /\ DOMAIN s = {"screen", "mode", "needed", "picked"}
          /\ s.screen = "blessing" /\ s.picked = <<>>
      BY DEF NoGrid
    <3> HIDE DEF s
    <3>3. IsList(s.picked)
      BY <3>1, <3>2 DEF IsList
    <3> QED BY <3>2, <3>3 DEF GridSite, GridFields, NeowScreens
  <2>2. NeowEnter(w) = {v}
    BY DEF NeowEnter, Moved
  <2> HIDE DEF s
  <2>3. Common(v) /\ v.phase = "neow" /\ v.site = s /\ v.run = w.run
    BY Housed
  <2> HIDE DEF v
  <2>4. GridRoom(v)
    BY <1>1, <2>1, <2>3 DEF GridRoom
  <2> QED BY <2>2, <2>4, GridRoomIsSound DEF AllSound
<1> QED BY <1>1, LeftSound DEF NeowLeaves, leave_boss_chest, TreasureLeft

\* The boss's chest is put up behind his rewards.
LEMMA ChestEnterSound ==
  ASSUME NEW w, Common(w), w.run.hp > 0
  PROVE  Sound(BossChestEnter(w))
<1> DEFINE rolled == roll_boss_chest(w.run)
           u == On(w, rolled.run)
           s == [screen |-> "closed", mode |-> "none", needed |-> 0, picked |-> <<>>,
                 relics |-> rolled.relics, seen |-> FALSE]
           c == ClearLoot(u)
           v == Moved(c, "chest", s)
<1>1. GridSite("chest", s)
  <2> DEFINE relics == rolled.relics
  <2>1. <<>> \in Seq({})
    OBVIOUS
  <2> HIDE DEF rolled
  <2>2. /\ s = [x \in DOMAIN s |-> s[x]] /\ {"screen", "mode", "needed", "picked"} \subseteq DOMAIN s
        /\ s.screen = "closed" /\ s.picked = <<>>
    OBVIOUS
  <2> HIDE DEF s
  <2>3. IsList(s.picked)
    BY <2>1, <2>2 DEF IsList
  <2> QED BY <2>2, <2>3 DEF GridSite, GridFields, ChestScreens
<1>2. Kept(w.run, rolled.run)
  BY ChestKeeps DEF Common, Doored
<1>3. BossChestEnter(w) = v
  BY DEF BossChestEnter, Moved
<1> HIDE DEF rolled, s
<1>4. Common(u) /\ u.run = rolled.run
  BY <1>2, RunRooms
<1> HIDE DEF u
<1>5. Common(c) /\ c.run = rolled.run
  BY <1>4, ClearRooms
<1> HIDE DEF c
<1>6. Common(v) /\ v.phase = "chest" /\ v.site = s /\ v.run = rolled.run
  BY <1>5, Housed
<1> HIDE DEF v
<1>7. GridRoom(v)
  BY <1>1, <1>2, <1>6 DEF GridRoom, Kept, Alive
<1> QED BY <1>3, <1>7, GridRoomIsSound

\* A relic picked from it.
LEMMA BossRelicKept ==
  ASSUME NEW w, GridRoom(w), NEW i
  PROVE  \A v \in BossRelicPicked(w, i) : GridRoom(v)
<1> DEFINE x == w.site.relics[i]
           q == LoseRelic(w.run, "burning_blood")
           v == IF x = "black_blood" THEN On(w, q) ELSE w
<1>1. GridRoom(v)
  <2>1. Kept(w.run, q)
    BY LoseKept DEF GridRoom, Common
  <2> HIDE DEF q
  <2> QED BY <2>1, GridKept
<1>2. BossRelicPicked(w, i) = {OpenRequest(u) : u \in AcquireWithScreen(v, x)}
  BY DEF BossRelicPicked
<1> HIDE DEF v
<1>3. \A u \in AcquireWithScreen(v, x) : GridRoom(u)
  <2>1. \A u \in AcquireWithScreen(v, x) : Stays(v, u)
    BY <1>1, AcquireRooms DEF GridRoom, Roomed
  <2> QED BY <1>1, <2>1, GridKept
<1> QED BY <1>2, <1>3, RequestKept

-----------------------------------------------------------------------------
\* Counters that nothing else looks at.
LEMMA CountersKeep ==
  ASSUME NEW r, RunOK(r), NEW n
  PROVE  /\ Kept(r, [r EXCEPT !.lifts = n]) /\ Kept(r, [r EXCEPT !.nest = n])
         /\ Kept(r, [r EXCEPT !.mask = n])
<1>1. ASSUME NEW q, RunShape(q), SameCards(r, q), q.hp = r.hp, q.max = r.max, q.gold = r.gold,
             q.purge = r.purge
      PROVE  Kept(r, q)
  <2>1. Vital(q) /\ Alive(r, q)
    BY <1>1 DEF RunOK, Body, Vital, Alive
  <2> QED BY <1>1, <2>1, BodyOfSame, KeptOfSame DEF RunOK, Doored
<1> DEFINE a == [r EXCEPT !.lifts = n]
           b == [r EXCEPT !.nest = n]
           c == [r EXCEPT !.mask = n]
<1>2. /\ RunShape(a) /\ SameCards(r, a) /\ a.hp = r.hp /\ a.max = r.max /\ a.gold = r.gold
      /\ a.purge = r.purge
      /\ RunShape(b) /\ SameCards(r, b) /\ b.hp = r.hp /\ b.max = r.max /\ b.gold = r.gold
      /\ b.purge = r.purge
      /\ RunShape(c) /\ SameCards(r, c) /\ c.hp = r.hp /\ c.max = r.max /\ c.gold = r.gold
      /\ c.purge = r.purge
  BY DEF RunOK, Body, RunShape, RunFields, SameCards
<1> HIDE DEF a, b, c
<1>3. Kept(r, a) /\ Kept(r, b) /\ Kept(r, c)
  BY <1>1, <1>2
<1> QED BY <1>3 DEF a, b, c

\* The rest site's door.
LEMMA RestEnterSound ==
  ASSUME NEW w, Common(w), w.run.hp > 0 PROVE AllSound(RestEnter(w))
<1> DEFINE s == [screen |-> "menu"]
           v == Moved(w, "rest", s)
<1>1. Sound([w EXCEPT !.phase = "map"])
  BY LeftSound
<1>2. RestEnter(w) \subseteq {[w EXCEPT !.phase = "map"], v}
  BY DEF RestEnter, Moved
<1> HIDE DEF s
<1>3. Common(v) /\ v.phase = "rest" /\ v.run = w.run
  BY Housed
<1> HIDE DEF v
<1>4. Sound(v)
  BY <1>3, OutIsSound
<1> QED BY <1>1, <1>2, <1>4 DEF AllSound

\* Its fire goes out.
LEMMA FireOut ==
  ASSUME NEW w, Common(w)
  PROVE  /\ \A v : Stays(w, v) => Sound(finish_rest_site(v))
         /\ \A r : Kept(w.run, r) => Sound(finish_rest_site(On(w, r)))
<1>1. \A v : Common(v) => Sound(finish_rest_site(v))
  BY LeftSound DEF finish_rest_site
<1> QED BY <1>1, RunRooms DEF Stays

\* Sleep, and the dream that may follow.
LEMMA SleepSound ==
  ASSUME NEW w, Common(w), w.run.hp > 0, w.phase = "rest" PROVE Sound(Sleep(w))
<1> DEFINE q == HealOutOfCombat(w.run, rest_heal_amount(w.run))
           u == On(w, q)
           l == [rows |-> <<CardsRow(w.run)>>, open |-> 1]
           v == [u EXCEPT !.loot = l]
           s == [v.site EXCEPT !.screen = "dream"]
<1>1. Kept(w.run, q)
  <2>1. rest_heal_amount(w.run) \in Nat
    <3>1. w.run.max \in Nat
      BY DEF Common, RunOK, Body, Vital
    <3> QED BY <3>1 DEF rest_heal_amount, Percent
  <2> QED BY <2>1, Healing, KeptOfSame DEF Common, RunOK, Doored
<1>2. LootOK(l)
  <2> DEFINE row == CardsRow(w.run)
             rows == <<row>>
  <2>1. RowOK(row)
    BY CardsRowOK
  <2> HIDE DEF row
  <2>2. rows \in Seq({row}) /\ Len(rows) = 1
    OBVIOUS
  <2>3. l = [rows |-> rows, open |-> 1]
    BY DEF row
  <2> HIDE DEF rows, l
  <2> QED BY <2>1, <2>2, <2>3 DEF LootOK
<1>3. Sleep(w) = IF Owns(w.run, "dream_catcher")
                 THEN [u EXCEPT !.loot = l, !.site.screen = "dream"] ELSE finish_rest_site(u)
  BY DEF Sleep
<1>4. Sound(finish_rest_site(u))
  <2> HIDE DEF q
  <2> QED BY <1>1, FireOut
<1> HIDE DEF q, l
<1>5. Common(u) /\ u.run = q /\ u.phase = "rest"
  BY <1>1, RunRooms DEF Roomed, Stays
<1> HIDE DEF u
<1>6. Common(v) /\ v.run = q /\ v.phase = "rest"
  BY <1>2, <1>5, LootRooms DEF Stays
<1>7. [u EXCEPT !.loot = l, !.site.screen = "dream"] = Furnished(v, s)
  BY <1>5 DEF Furnished, Common, WShape, WorldFields
<1> HIDE DEF v, s
<1>8. Sound(Furnished(v, s))
  <2> DEFINE x == Furnished(v, s)
  <2>1. Common(x) /\ x.phase = v.phase /\ x.run = v.run
    BY <1>6, FurnishedIs
  <2> HIDE DEF x
  <2>2. Sound(x)
    BY <1>1, <1>6, <2>1, OutIsSound DEF Kept, Alive
  <2> QED BY <2>2 DEF x
<1> QED BY <1>3, <1>4, <1>7, <1>8

\* What is dug up.
LEMMA DigSound ==
  ASSUME NEW w, Common(w), w.run.hp > 0 PROVE AllSound(Dig(w))
<1> DEFINE d(t) == DrawRelic(w.run, t, FALSE)
           l(t) == [rows |-> <<Row("relic", 0, d(t).got)>>, open |-> 0]
           s == [screen |-> "none"]
           v(t) == [On(w, d(t).run) EXCEPT !.loot = l(t)]
<1>1. Dig(w) = {[On(w, d(t).run) EXCEPT !.loot = l(t), !.phase = "reward", !.site = s] : t \in RollTiers}
  BY DEF Dig
<1>2. ASSUME NEW t
      PROVE  Sound([On(w, d(t).run) EXCEPT !.loot = l(t), !.phase = "reward", !.site = s])
  <2> DEFINE q == d(t).run
             u == On(w, q)
             got == d(t).got
             row == Row("relic", 0, got)
             rows == <<row>>
             k == l(t)
             x == [u EXCEPT !.loot = k]
             y == Moved(x, "reward", s)
  <2>1. Kept(w.run, q)
    BY DrawKeeps DEF Common, Doored
  <2>2. LootOK(k)
    <3> HIDE DEF got
    <3>1. RowOK(row)
      BY SomeRows DEF RowKinds
    <3> HIDE DEF row
    <3>2. rows \in Seq({row}) /\ \A z \in {row} : RowOK(z)
      BY <3>1
    <3>3. k = [rows |-> rows, open |-> 0]
      BY DEF row, got
    <3> HIDE DEF k, rows
    <3> QED BY <3>2, <3>3, RowsLoot
  <2>3. [On(w, d(t).run) EXCEPT !.loot = l(t), !.phase = "reward", !.site = s]
          = [u EXCEPT !.loot = k, !.phase = "reward", !.site = s]
    OBVIOUS
  <2> HIDE DEF q, k, s
  <2>4. Common(u) /\ u.run = q
    BY <2>1, RunRooms
  <2> HIDE DEF u
  <2>5. Common(x) /\ x.run = q
    BY <2>2, <2>4, LootRooms
  <2>6. [u EXCEPT !.loot = k, !.phase = "reward", !.site = s] = y
    BY <2>4 DEF Moved, Common, WShape, WorldFields
  <2> HIDE DEF x
  <2>7. Common(y) /\ y.phase = "reward" /\ y.run = q
    BY <2>5, Housed
  <2> HIDE DEF y
  <2>8. Sound(y)
    BY <2>1, <2>7, OutIsSound DEF Kept, Alive
  <2> QED BY <2>3, <2>6, <2>8
<1> HIDE DEF d, l, s
<1> QED BY <1>1, <1>2 DEF AllSound

\* An option of the campfire's menu.
LEMMA RestOptionSound ==
  ASSUME NEW w, Common(w), w.run.hp > 0, w.phase = "rest", NEW o \in UsableOptions(w.run)
  PROVE  AllSound(RestOption(w, o))
<1>1. o \in RestOptions /\ RunOK(w.run)
  BY DEF UsableOptions, Common
<1>2. CASE o = "rest"
  BY <1>2, SleepSound DEF RestOption, AllSound
<1>3. CASE o \in {"smith", "toke"}
  <2> DEFINE s == [w.site EXCEPT !.screen = o]
             v == Furnished(w, s)
  <2>1. RestOption(w, o) = {v}
    <3>1. RestOption(w, o) = {[w EXCEPT !.site.screen = o]}
      BY <1>3 DEF RestOption
    <3> QED BY <3>1 DEF Furnished, Common, WShape, WorldFields
  <2> HIDE DEF s
  <2>2. Common(v) /\ v.phase = "rest" /\ v.run = w.run
    BY FurnishedIs
  <2> HIDE DEF v
  <2> QED BY <2>1, <2>2, OutIsSound DEF AllSound
<1>4. CASE o = "lift"
  <2> DEFINE n == w.run.lifts + 1
             q == [w.run EXCEPT !.lifts = n]
  <2>1. RestOption(w, o) = {finish_rest_site(On(w, q))}
    <3>1. RestOption(w, o) = {finish_rest_site([w EXCEPT !.run.lifts = n])}
      BY <1>4 DEF RestOption
    <3> QED BY <3>1 DEF On, Common, WShape, WorldFields
  <2> HIDE DEF n
  <2>2. Kept(w.run, q)
    BY <1>1, CountersKeep
  <2> HIDE DEF q
  <2> QED BY <2>1, <2>2, FireOut DEF AllSound
<1>5. CASE o = "dig"
  BY <1>5, DigSound DEF RestOption
<1>6. CASE o = "recall"
  <2> DEFINE k == w.run.keys \cup {"ruby"}
             q == [w.run EXCEPT !.keys = k]
  <2>1. RestOption(w, o) = {finish_rest_site(On(w, q))}
    <3>1. RestOption(w, o) = {finish_rest_site([w EXCEPT !.run.keys = k])}
      BY <1>6 DEF RestOption
    <3> QED BY <3>1 DEF On, Common, WShape, WorldFields
  <2> HIDE DEF k
  <2>2. Kept(w.run, q)
    BY <1>1, KeyKeeps
  <2> HIDE DEF q
  <2> QED BY <2>1, <2>2, FireOut DEF AllSound
<1> QED BY <1>1, <1>2, <1>3, <1>4, <1>5, <1>6 DEF RestOptions

\* The smith, the pipe and the dream.
LEMMA CampfireSound ==
  ASSUME NEW w, Common(w)
  PROVE  /\ \A i \in RestCards(w) : Sound(RestPick(w, i))
         /\ \A c : IsCard(c) => Sound(DreamTaken(w, c))
         /\ Sound(DreamSung(w)) /\ Sound(DreamSkipped(w))
<1>1. ASSUME NEW i \in RestCards(w) PROVE Sound(RestPick(w, i))
  <2>1. i \in DOMAIN w.run.deck /\ RunOK(w.run)
    BY <1>1 DEF RestCards, Upgradeable, PurgeableUnbottled, Common
  <2>2. Kept(w.run, UpgradeCard(w.run, i)) /\ Kept(w.run, RemoveCard(w.run, i))
    BY <2>1, UpgradeKeeps, RemoveKeeps DEF Doored
  <2>3. Sound(finish_rest_site(On(w, UpgradeCard(w.run, i)))) /\ Sound(finish_rest_site(On(w, RemoveCard(w.run, i))))
    BY <2>2, FireOut
  <2> QED BY <2>3 DEF RestPick
<1> QED BY <1>1, FireOut, CardRooms DEF DreamTaken, DreamSung, DreamSkipped

-----------------------------------------------------------------------------
\* A treasure room's door.
LEMMA TreasureEnterSound ==
  ASSUME NEW w, Common(w), w.run.hp > 0 PROVE AllSound(TreasureEnter(w))
<1> DEFINE s(z, c) == [screen |-> "chest", size |-> z, tier |-> c[1], gold |-> c[2]]
           u == [w EXCEPT !.phase = "treasure"]
<1>1. ASSUME NEW z, NEW c PROVE Sound([u EXCEPT !.site = s(z, c)])
  <2> DEFINE t == s(z, c)
             v == Moved(w, "treasure", t)
  <2>1. [u EXCEPT !.site = s(z, c)] = v
    BY DEF Moved, Common, WShape, WorldFields
  <2> HIDE DEF t
  <2>2. Common(v) /\ v.phase = "treasure" /\ v.run = w.run
    BY Housed
  <2> HIDE DEF v
  <2>3. Sound(v)
    BY <2>2, OutIsSound
  <2> QED BY <2>1, <2>3
<1>2. \A z : Filled(u, z) = {[u EXCEPT !.site = s(z, c)] : c \in Contents[z]}
  BY DEF Filled
<1>3. TreasureEnter(w) = UNION {Filled(u, z) : z \in DOMAIN Contents}
  BY DEF TreasureEnter
<1> HIDE DEF u, s
<1>4. \A z : \A v \in Filled(u, z) : Sound(v)
  BY <1>1, <1>2
<1> QED BY <1>3, <1>4 DEF AllSound

\* A relic drawn onto a screen where no row is open.
LEMMA RelicRowRooms ==
  ASSUME NEW w, Common(w), NEW t
  PROVE  Roomed(w, RelicRow(w, t)) /\ Common(RelicRow(w, t))
<1> DEFINE d == DrawRelic(w.run, t, FALSE)
           row == Row("relic", 0, d.got)
<1>1. Kept(w.run, d.run)
  BY Moves DEF Common
<1>2. RelicRow(w, t) = WithRow(On(w, d.run), row)
  BY DEF RelicRow
<1>3. RowOK(row)
  <2> DEFINE got == d.got
  <2> HIDE DEF got
  <2>1. RowOK(Row("relic", 0, got))
    BY SomeRows DEF RowKinds
  <2> QED BY <2>1 DEF got
<1> HIDE DEF d, row
<1>4. Roomed(w, On(w, d.run)) /\ Common(On(w, d.run))
  BY <1>1, RunRooms
<1>5. Roomed(On(w, d.run), WithRow(On(w, d.run), row)) /\ Common(WithRow(On(w, d.run), row))
  BY <1>3, <1>4, RowRooms
<1> QED BY <1>2, <1>4, <1>5, RoomedTwice

\* What the relics make of an opened chest, before and after it is emptied.
LEMMA ChestOpens ==
  ASSUME NEW w, Common(w)
  PROVE  \A v \in dispatch_on_chest_open(w) : Roomed(w, v) /\ Common(v)
<1> DEFINE n == w.run.nest - 1
           q == [w.run EXCEPT !.nest = n]
           u == [w EXCEPT !.run.nest = @ - 1]
           nested == IF w.run.nest = 0 THEN {w} ELSE {RelicRow(u, t) : t \in {"common", "uncommon"}}
<1>1. u = On(w, q)
  BY DEF On, Common, WShape, WorldFields
<1>2. Roomed(w, u) /\ Common(u)
  <2> HIDE DEF n, u
  <2>1. Kept(w.run, q)
    BY CountersKeep DEF Common
  <2> HIDE DEF q
  <2> QED BY <1>1, <2>1, RunRooms
<1> HIDE DEF u
<1>3. \A t : Roomed(w, RelicRow(u, t)) /\ Common(RelicRow(u, t))
  BY <1>2, RelicRowRooms, RoomedTwice
<1>4. \A v \in nested : Roomed(w, v) /\ Common(v)
  BY <1>3, RoomedNone
<1>5. dispatch_on_chest_open(w) =
        IF ~Owns(w.run, "cursed_key") THEN nested
        ELSE {On(v, AddCard(v.run, k)) : v \in nested, k \in RandomCurses}
  BY DEF dispatch_on_chest_open, u
<1> HIDE DEF nested
<1>6. ASSUME NEW v \in nested, NEW k PROVE Roomed(w, On(v, AddCard(v.run, k))) /\ Common(On(v, AddCard(v.run, k)))
  <2>1. Kept(v.run, AddCard(v.run, k))
    BY <1>4, Moves DEF Common
  <2> QED BY <1>4, <2>1, RunRooms, RoomedTwice
<1> QED BY <1>4, <1>5, <1>6

\* The relics that look at a chest once it is empty.
LEMMA ChestMasked ==
  ASSUME NEW w, Common(w), w.loot.open = 0
  PROVE  Roomed(w, dispatch_on_chest_open_after(w)) /\ Common(dispatch_on_chest_open_after(w))
<1> DEFINE at == {i \in DOMAIN w.loot.rows : w.loot.rows[i].kind = "relic"}
           i == CHOOSE i \in at : \A j \in at : i <= j
           lone == IF reward_relic_row_is_key_linked(w, i) THEN NoRow(w, i + 1) ELSE w
           u == NoRow(lone, i)
           off == FALSE
           q == [u.run EXCEPT !.mask = off]
<1>1. dispatch_on_chest_open_after(w) =
        IF ~w.run.mask \/ at = {} THEN w ELSE [NoRow(lone, i) EXCEPT !.run.mask = FALSE]
  BY DEF dispatch_on_chest_open_after
<1> HIDE DEF at, i
<1>2. Roomed(w, lone) /\ Common(lone) /\ lone.loot.open = 0
  BY NoRowOK, RoomedNone
<1> HIDE DEF lone
<1>3. Roomed(lone, u) /\ Common(u)
  BY <1>2, NoRowOK
<1>4. Roomed(w, u)
  BY <1>2, <1>3, RoomedTwice
<1> HIDE DEF u
<1>5. [u EXCEPT !.run.mask = FALSE] = On(u, q)
  BY <1>3 DEF On, Common, WShape, WorldFields
<1>6. Roomed(w, On(u, q)) /\ Common(On(u, q))
  <2> HIDE DEF off
  <2>1. Kept(u.run, q)
    BY <1>3, CountersKeep DEF Common
  <2> HIDE DEF q
  <2> QED BY <1>3, <1>4, <2>1, RunRooms, RoomedTwice
<1> HIDE DEF q
<1> QED BY <1>1, <1>5, <1>6, RoomedNone DEF u

\* A treasure chest opened.
LEMMA TreasureOpenSound ==
  ASSUME NEW w, Common(w), w.run.hp > 0
  PROVE  AllSound(open_treasure_chest(w))
<1> DEFINE c == ClearLoot(w)
           gold(v) == IF w.site.gold THEN WithRow(v, Row("gold", 25, "none")) ELSE v
           key(v) == IF "sapphire" \notin v.run.keys THEN WithRow(v, Row("sapphire", 0, "none")) ELSE v
           opened(v) == dispatch_on_chest_open_after(key(RelicRow(gold(v), w.site.tier)))
           s == [screen |-> "none"]
<1>1. open_treasure_chest(w) =
        {[opened(v) EXCEPT !.phase = "reward", !.site = s] : v \in dispatch_on_chest_open(c)}
  BY DEF open_treasure_chest
<1>2. Roomed(w, c) /\ Common(c) /\ c.loot.open = 0
  BY ClearRooms
<1>3. \A v : Roomed(c, v) => Common(v)
  BY DEF Roomed, Stays
<1>4. RowOK(Row("gold", 25, "none")) /\ RowOK(Row("sapphire", 0, "none"))
  BY SomeRows DEF RowKinds
<1>5. \A v : Roomed(c, v) => Roomed(c, gold(v))
  BY <1>2, <1>3, <1>4, RowRooms, RoomedTwice
<1>6. \A v : Roomed(c, v) => Roomed(c, key(v))
  BY <1>2, <1>3, <1>4, RowRooms, RoomedTwice
<1> HIDE DEF gold, key, c
<1>7. \A v, t : Roomed(c, v) => Roomed(c, RelicRow(v, t))
  BY <1>2, <1>3, RelicRowRooms, RoomedTwice
<1>8. \A v : Roomed(c, v) => Roomed(c, dispatch_on_chest_open_after(v))
  BY <1>2, <1>3, ChestMasked, RoomedTwice DEF Roomed
<1>9. \A v \in dispatch_on_chest_open(c) : Roomed(c, opened(v))
  BY <1>2, <1>5, <1>6, <1>7, <1>8, ChestOpens
<1>10. ASSUME NEW u, Roomed(c, u) PROVE Sound([u EXCEPT !.phase = "reward", !.site = s])
  <2> DEFINE v == Moved(u, "reward", s)
  <2>1. Common(u) /\ u.run.hp > 0
    BY <1>2, <1>10 DEF Roomed, Stays, Alive
  <2> HIDE DEF s
  <2>2. Common(v) /\ v.phase = "reward" /\ v.run = u.run
    BY <2>1, Housed
  <2>3. v = [u EXCEPT !.phase = "reward", !.site = s]
    BY DEF Moved
  <2> HIDE DEF v
  <2>4. Sound(v)
    BY <2>1, <2>2, OutIsSound
  <2> QED BY <2>3, <2>4
<1> HIDE DEF opened, s
<1> QED BY <1>1, <1>9, <1>10 DEF AllSound

-----------------------------------------------------------------------------
\* The card a bottle or Dolly's Mirror asked for.
LEMMA GiveSound ==
  ASSUME NEW w, Sound(w), w.pend # "none", NEW i \in PendCards(w)
  PROVE  Sound(step_deck_pick(w, i)) /\ Sound(step_bottle_pick(w, i))
<1> DEFINE none == "none"
           bottled == [w.run EXCEPT !.deck[i].bottle = TRUE]
           c == [w.run.deck[i] EXCEPT !.bottle = FALSE]
           copied == AddCopy(w.run, c)
<1>1. Common(w) /\ RunOK(w.run)
  BY DEF Sound, Common
<1>2. w.phase \in Rooms \cup {"map", "over"}
  BY DEF Sound, Phases, Spoken, DialogOK, EntryOK, FightOK, Fighting, Rooms
<1>3. i \in DOMAIN w.run.deck
  BY DEF PendCards
<1>4. ASSUME NEW r, Kept(w.run, r) PROVE Sound([On(w, r) EXCEPT !.pend = none])
  <2> DEFINE u == On(w, r)
             v == [u EXCEPT !.pend = none]
  <2>1. Stays(w, u) /\ Common(u)
    BY <1>1, <1>4, RunRooms DEF Roomed
  <2> HIDE DEF u, none
  <2>2. Stays(u, v)
    BY <2>1, PendRooms DEF Roomed
  <2> HIDE DEF v
  <2>3. Sound(v)
    BY <1>2, <2>1, <2>2, StaysTwice, StaysSound
  <2> QED BY <2>3 DEF v, u
<1>5. IsCard(c)
  <2>1. IsCard(w.run.deck[i])
    BY <1>1, <1>3, DeckPlaces DEF RunOK, Body
  <2> QED BY <2>1 DEF IsCard
<1>6. Kept(w.run, bottled) /\ Kept(w.run, copied)
  <2> HIDE DEF c
  <2> QED BY <1>1, <1>5, BottleKeeps, CopyKeeps DEF Doored
<1>7. step_bottle_pick(w, i) = [On(w, bottled) EXCEPT !.pend = none]
  BY <1>1 DEF step_bottle_pick, On, Common, WShape, WorldFields
<1>8. step_deck_pick(w, i) = [On(w, copied) EXCEPT !.pend = none]
  BY DEF step_deck_pick
<1> HIDE DEF bottled, copied, none
<1> QED BY <1>4, <1>6, <1>7, <1>8

\* A run that keeps its deck and its purse may be changed wherever no fight is.
LEMMA OtherRunSound ==
  ASSUME NEW w, Sound(w), w.phase # "fight", NEW r, Kept(w.run, r), r.deck = w.run.deck,
         r.gold = w.run.gold
  PROVE  Sound(On(w, r))
<1> DEFINE v == On(w, r)
<1>1. Stays(w, v) /\ v.run = r /\ v.pend = w.pend
  BY RunRooms DEF Roomed, Sound
<1> HIDE DEF v
<1>2. CASE w.phase \in Rooms \cup {"map", "over"}
  BY <1>1, <1>2, StaysSound DEF v
<1>3. CASE w.phase = "dialog"
  <2>1. SpecialOf(v.ev, v.run)
    <3>1. SpecialOf(w.ev, w.run)
      BY <1>3 DEF Sound, DialogOK, EvOK
    <3> QED BY <1>1, <3>1 DEF SpecialOf, Stays
  <2>2. DialogOK(v)
    BY <1>1, <1>3, <2>1 DEF Sound, DialogOK, EvOK, Stays
  <2> QED BY <1>1, <1>3, <2>2 DEF v, Sound, Stays, Alive
<1>4. CASE w.phase = "entering"
  <2>1. EntryOK(v)
    BY <1>1, <1>4 DEF Sound, EntryOK, Stays, event_combat_reopens
  <2> QED BY <1>1, <1>4, <2>1 DEF v, Sound, Stays, Alive
<1> QED BY <1>2, <1>3, <1>4 DEF Sound, Phases, Spoken, Rooms

\* A belt that changes keeps the deck and the purse.
LEMMA BeltSound ==
  ASSUME NEW w, Sound(w), w.phase # "fight", NEW i
  PROVE  Sound(On(w, ClearSlot(w.run, i)))
<1> DEFINE r == ClearSlot(w.run, i)
<1>1. RunOK(w.run)
  BY DEF Sound, Common
<1>2. Belted(w.run, r)
  BY <1>1, ClearKeeps
<1>3. r.deck = w.run.deck /\ r.gold = w.run.gold /\ Kept(w.run, r)
  BY <1>2, BeltedIsKept DEF Belted
<1> HIDE DEF r
<1> QED BY <1>3, OtherRunSound DEF r

-----------------------------------------------------------------------------
\* Another belt, and health: what a potion may make of a run outside a fight.
Drunk(r, q) == Kept(r, q) /\ q.deck = r.deck /\ q.gold = r.gold

\* Toy Ornithopter.
Toyed(q) == IF Owns(q, "ornithopter") THEN HealOutOfCombat(q, 5) ELSE q

\* A cure after the drink, and Toy Ornithopter's.
LEMMA DrunkAndHealed ==
  ASSUME NEW r, NEW q, Drunk(r, q)
  PROVE  /\ Drunk(r, Toyed(q)) /\ \A n \in Nat : Drunk(r, HealOutOfCombat(q, n))
<1>1. RunOK(q)
  BY DEF Drunk, Kept
<1>2. ASSUME NEW n \in Nat PROVE Drunk(r, HealOutOfCombat(q, n))
  <2> DEFINE p == HealOutOfCombat(q, n)
  <2>1. Body(p) /\ SameCards(q, p) /\ Alive(q, p) /\ p.gold = q.gold
    BY <1>1, Healing DEF RunOK
  <2> HIDE DEF p
  <2>2. Kept(q, p) /\ p.deck = q.deck
    BY <1>1, <2>1, KeptOfSame DEF Doored, SameCards
  <2>3. Drunk(r, p)
    BY <2>1, <2>2, KeptTwice DEF Drunk
  <2> QED BY <2>3 DEF p
<1> QED BY <1>2 DEF Toyed

\* A potion drunk outside a fight.
LEMMA RestDrinkSound ==
  ASSUME NEW w, Sound(w), w.phase # "fight", NEW i, w.run.belt[i] \in {"blood", "fruit", "brew"}
  PROVE  AllSound(DrunkAtRest(w, i))
<1> DEFINE r == w.run
           left == ClearSlot(r, i)
           juice == Potency(r, 5)
           fed == [left EXCEPT !.max = @ + juice, !.hp = @ + juice]
           bled == HealOutOfCombat(left, Percent(r.max, Potency(r, 20)))
           brewed == IF Owns(r, "sozu") THEN {left} ELSE {FoldLeft(PutPotion, left, f) : f \in Rolls(r)}
<1>1. RunOK(r) /\ r.max \in Nat /\ IsList(r.belt)
  BY DEF Sound, Common, RunOK, Body, Vital
<1>2. Drunk(r, left) /\ Belted(r, left)
  BY <1>1, ClearKeeps, BeltedIsKept DEF Drunk, Belted
<1>3. Drunk(r, bled)
  <2>1. Percent(r.max, Potency(r, 20)) \in Nat
    BY <1>1 DEF Percent, Potency
  <2> HIDE DEF left
  <2> QED BY <1>2, <2>1, DrunkAndHealed
<1>4. Drunk(r, fed)
  <2>1. juice \in Nat
    BY DEF Potency
  <2> HIDE DEF juice, left
  <2>2. Doored(left, fed)
    BY <1>2, <2>1, GrownKeeps DEF Drunk, Kept
  <2>3. fed.deck = left.deck /\ fed.gold = left.gold
    BY <1>2 DEF Drunk, Kept, RunOK, Body, RunShape, RunFields
  <2> HIDE DEF fed
  <2> QED BY <1>2, <2>2, <2>3, KeptTwice DEF Drunk, Doored
<1>5. \A q \in brewed : Drunk(r, q)
  <2>1. \A f \in Rolls(r) : IsList(f)
    <3>1. DOMAIN r.belt = 1..Len(r.belt) /\ Len(r.belt) \in Nat
      BY <1>1, SlotChange
    <3>2. \A f \in Rolls(r) : f \in [1..Len(r.belt) -> RandomPotions]
      BY <3>1 DEF Rolls
    <3>3. \A f \in [1..Len(r.belt) -> RandomPotions] : f \in Seq(RandomPotions)
      BY <3>1
    <3> QED BY <3>2, <3>3 DEF IsList
  <2> HIDE DEF left
  <2>2. \A f \in Rolls(r) : Belted(left, FoldLeft(PutPotion, left, f))
    BY <1>2, <2>1, BrewsKeep DEF Drunk, Kept
  <2>3. \A q : Belted(left, q) => Drunk(r, q)
    BY <1>2, BeltedIsKept, KeptTwice DEF Drunk, Belted
  <2> DEFINE put(f) == FoldLeft(PutPotion, left, f)
  <2> HIDE DEF put
  <2>4. \A f \in Rolls(r) : Belted(left, put(f))
    BY <2>2 DEF put
  <2>5. brewed = IF Owns(r, "sozu") THEN {left} ELSE {put(f) : f \in Rolls(r)}
    BY Zenon DEF put
  <2> HIDE DEF brewed
  <2> QED BY <1>2, <2>3, <2>4, <2>5
<1>6. \A q : Drunk(r, q) => Sound(On(w, Toyed(q)))
  BY DrunkAndHealed, OtherRunSound DEF Drunk
<1>7. DrunkAtRest(w, i) =
        CASE r.belt[i] = "blood" -> {On(w, Toyed(bled))}
          [] r.belt[i] = "fruit" -> {On(w, Toyed(fed))}
          [] r.belt[i] = "brew" -> {On(w, Toyed(q)) : q \in brewed}
  BY Zenon DEF DrunkAtRest, Toyed
<1> HIDE DEF bled, fed, brewed
<1>8. CASE r.belt[i] = "blood"
  <2>1. DrunkAtRest(w, i) = {On(w, Toyed(bled))}
    BY <1>7, <1>8
  <2> QED BY <1>3, <1>6, <2>1 DEF AllSound
<1>9. CASE r.belt[i] = "fruit"
  <2>1. DrunkAtRest(w, i) = {On(w, Toyed(fed))}
    BY <1>7, <1>9
  <2> QED BY <1>4, <1>6, <2>1 DEF AllSound
<1>10. CASE r.belt[i] = "brew"
  <2>1. DrunkAtRest(w, i) = {On(w, Toyed(q)) : q \in brewed}
    BY <1>7, <1>10
  <2> QED BY <1>5, <1>6, <2>1 DEF AllSound
<1> QED BY <1>8, <1>9, <1>10

(***************************************************************************)
(* The fight.                                                              *)
(***************************************************************************)

\* The Fairies of a belt can be counted.
LEMMA FairiesCount ==
  ASSUME NEW r, RunOK(r)
  PROVE  IsFiniteSet(BeltFairies(r)) /\ Cardinality(BeltFairies(r)) \in Nat
<1>1. IsList(r.belt)
  BY DEF RunOK, Body
<1>2. DOMAIN r.belt = 1..Len(r.belt) /\ Len(r.belt) \in Nat
  BY <1>1, SlotChange
<1>3. BeltFairies(r) \subseteq 1..Len(r.belt)
  BY <1>2 DEF BeltFairies
<1>4. IsFiniteSet(1..Len(r.belt))
  <2> DEFINE n == Len(r.belt)
  <2>1. n \in Int /\ 1 \in Int
    BY <1>2
  <2> HIDE DEF n
  <2>2. IsFiniteSet(1..n)
    BY <2>1, FS_Interval
  <2> QED BY <2>2 DEF n
<1>5. IsFiniteSet(BeltFairies(r))
  BY <1>3, <1>4, FS_Subset
<1> QED BY <1>5, FS_CardinalityType

\* Another phase and other books.
Fought(w, f) == [w EXCEPT !.phase = "fight", !.fight = f]

\* Nothing else changes with them.
LEMMA FoughtIs ==
  ASSUME NEW w, Common(w), NEW f
  PROVE  LET v == Fought(w, f)
         IN  /\ Common(v) /\ v.phase = "fight" /\ v.site = w.site /\ v.run = w.run /\ v.loot = w.loot
             /\ v.pend = w.pend /\ v.room = w.room /\ v.ev = w.ev /\ v.fight = f
<1> DEFINE v == Fought(w, f)
<1>1. /\ WShape(v) /\ v.phase = "fight" /\ v.site = w.site /\ v.run = w.run /\ v.loot = w.loot
      /\ v.pend = w.pend /\ v.room = w.room /\ v.ev = w.ev /\ v.fight = f
  BY DEF Fought, Common, WShape, WorldFields
<1> HIDE DEF v
<1>2. Common(v)
  BY <1>1 DEF Common
<1> QED BY <1>1, <1>2 DEF v

\* The thieves of a fight that begins.
LEMMA ThievesStart ==
  ASSUME NEW foes, NEW e, DOMAIN e = DOMAIN ThievesOf(foes), e = [i \in DOMAIN e |-> e[i]],
         \A i \in DOMAIN e : \E n \in {15} :
           e[i] = [amt |-> n, steals |-> 0, prev |-> 0, taken |-> 0, live |-> "in"]
  PROVE  ThievesOK(e)
<1> DEFINE x == [amt |-> 15, steals |-> 0, prev |-> 0, taken |-> 0, live |-> "in"]
<1>1. ThiefOK(x)
  BY DEF ThiefOK
<1>2. \A i \in DOMAIN e : e[i] = x
  OBVIOUS
<1>3. PICK n \in Nat : DOMAIN e = 1..n
  <2> HIDE DEF x
  <2>1. ThievesOf(foes) \in Seq({15})
    <3>1. <<15>> \in Seq({15}) /\ <<15, 15>> \in Seq({15}) /\ <<>> \in Seq({15})
      OBVIOUS
    <3>2. ThievesOf(foes) \in {<<15>>, <<15, 15>>, <<>>}
      BY DEF ThievesOf
    <3> QED BY <3>1, <3>2
  <2> HIDE DEF x
  <2>2. DOMAIN ThievesOf(foes) = 1..Len(ThievesOf(foes)) /\ Len(ThievesOf(foes)) \in Nat
    BY <2>1, LenProperties
  <2> QED BY <2>2
<1> HIDE DEF x
<1>4. e \in Seq({x})
  BY <1>2, <1>3
<1> QED BY <1>1, <1>4 DEF ThievesOK

\* enter_combat.
LEMMA CombatEntered ==
  ASSUME NEW w, Common(w), w.run.hp > 0, EntryOK(w)
  PROVE  Sound(enter_combat(w))
<1> DEFINE foes == w.fight.foes
           thief(n) == [amt |-> n, steals |-> 0, prev |-> 0, taken |-> 0, live |-> "in"]
           e == [i \in DOMAIN ThievesOf(foes) |-> thief(ThievesOf(foes)[i])]
           fairies == Cardinality(BeltFairies(w.run))
           f == [foes |-> foes, hp |-> w.run.hp, max |-> w.run.max,
                 armed |-> fairies,
                 tail |-> w.run.tail, charm |-> w.run.charm, doll |-> w.run.doll,
                 earned |-> 0, banked |-> 0,
                 thieves |-> e,
                 cards |-> <<>>, potions |-> <<>>, over |-> FALSE, mugged |-> FALSE,
                 smoked |-> FALSE, slain |-> FALSE, mid |-> FALSE, steps |-> 0]
           v == Fought(w, f)
<1>1. enter_combat(w) = v
  BY DEF enter_combat, Fought
<1>2. ThievesOK(e)
  <2>1. \A i \in DOMAIN ThievesOf(foes) : ThievesOf(foes)[i] = 15
    BY DEF ThievesOf
  <2> QED BY <2>1, ThievesStart
<1>3. RunOK(w.run) /\ fairies \in Nat /\ Vital(w.run)
  BY FairiesCount DEF Common, RunOK, Body
<1> HIDE DEF e, fairies
<1>4. IsList(<<>>)
  <2>1. <<>> \in Seq({})
    OBVIOUS
  <2> QED BY <2>1 DEF IsList
<1>5. LedgerOK(f)
  BY <1>2, <1>3, <1>4 DEF LedgerOK, FightFields, Vital
<1>6. AgreeOK(w.run, f) /\ f.mid = FALSE /\ f.over = FALSE /\ f.armed = fairies
  BY <1>3 DEF AgreeOK, Vital, fairies
<1> HIDE DEF f
<1>7. /\ Common(v) /\ v.phase = "fight" /\ v.run = w.run /\ v.pend = w.pend /\ v.room = w.room
      /\ v.ev = w.ev /\ v.fight = f
  BY FoughtIs
<1> HIDE DEF v
<1>8. EntryOK(v)
  BY <1>7 DEF EntryOK, event_combat_reopens
<1> QED BY <1>1, <1>5, <1>6, <1>7, <1>8 DEF Sound, Phases, Fighting, FightOK, fairies

-----------------------------------------------------------------------------
\* Other books of the same fight.
Booked(w, g) == [w EXCEPT !.fight = g]
BookStep(f, g) == LedgerOK(g) /\ g.doll = f.doll /\ g.armed <= f.armed /\ g.max >= f.max
BattleStep(w, v) ==
  /\ Fighting(v) /\ v.run = w.run /\ v.loot = w.loot /\ v.pend = w.pend /\ v.room = w.room /\ v.ev = w.ev
Standing(w) == Fighting(w) /\ w.fight.hp > 0

\* Books that are in order keep the fight in order.
LEMMA BookedIs ==
  ASSUME NEW w, Fighting(w), NEW g, BookStep(w.fight, g)
  PROVE  BattleStep(w, Booked(w, g)) /\ Booked(w, g).fight = g
<1> DEFINE v == Booked(w, g)
<1>1. /\ WShape(v) /\ v.phase = "fight" /\ v.site = w.site /\ v.run = w.run /\ v.loot = w.loot
      /\ v.pend = w.pend /\ v.room = w.room /\ v.ev = w.ev /\ v.fight = g
  BY DEF Booked, Fighting, Common, WShape, WorldFields
<1> HIDE DEF v
<1>2. AgreeOK(v.run, v.fight)
  <2>1. /\ w.run.hp \in Nat /\ w.fight.max \in Nat /\ w.fight.armed \in Nat /\ RunOK(w.run)
        /\ g.max \in Nat /\ g.armed \in Nat
    BY DEF Fighting, Common, RunOK, Body, Vital, LedgerOK, BookStep
  <2>2. Cardinality(BeltFairies(w.run)) \in Nat
    BY <2>1, FairiesCount
  <2> QED BY <1>1, <2>1, <2>2 DEF AgreeOK, Fighting, BookStep
<1>3. EntryOK(v)
  BY <1>1 DEF EntryOK, event_combat_reopens, Fighting
<1> QED BY <1>1, <1>2, <1>3 DEF v, BattleStep, Fighting, Common, BookStep

\* Two steps are one.
LEMMA BattleTwice ==
  ASSUME NEW w, NEW u, NEW v, BattleStep(w, u), BattleStep(u, v) PROVE BattleStep(w, v)
  BY DEF BattleStep

\* A thief of the fight.
LEMMA ThiefThere ==
  ASSUME NEW s, ThievesOK(s)
  PROVE  /\ DOMAIN s = 1..Len(s) /\ Len(s) \in Nat /\ s = [i \in DOMAIN s |-> s[i]]
         /\ \A t \in DOMAIN s : ThiefOK(s[t])
<1>1. PICK S : s \in Seq(S) /\ \A t \in S : ThiefOK(t)
  BY DEF ThievesOK
<1> QED BY <1>1, LenProperties, ElementOfSeq

\* One of them changes.
LEMMA ThiefChange ==
  ASSUME NEW s, ThievesOK(s), NEW t, NEW x, ThiefOK(x)
  PROVE  /\ ThievesOK([s EXCEPT ![t] = x]) /\ DOMAIN [s EXCEPT ![t] = x] = DOMAIN s
         /\ Len([s EXCEPT ![t] = x]) = Len(s)
<1>1. PICK S : s \in Seq(S) /\ \A y \in S : ThiefOK(y)
  BY DEF ThievesOK
<1> DEFINE e == [s EXCEPT ![t] = x]
<1>2. e \in Seq(S \cup {x}) /\ DOMAIN e = DOMAIN s /\ Len(e) = Len(s)
  <2>1. Len(s) \in Nat /\ DOMAIN s = 1..Len(s) /\ \A i \in 1..Len(s) : s[i] \in S
    BY <1>1, LenProperties, ElementOfSeq
  <2>2. DOMAIN e = 1..Len(s) /\ e = [i \in 1..Len(s) |-> e[i]] /\ \A i \in 1..Len(s) : e[i] \in S \cup {x}
    BY <2>1
  <2> HIDE DEF e
  <2>3. e \in [1..Len(s) -> S \cup {x}]
    BY <2>2
  <2>4. e \in Seq(S \cup {x})
    BY <2>1, <2>3
  <2>5. Len(e) = Len(s)
    BY <2>1, <2>2, <2>4, LenProperties
  <2> QED BY <2>1, <2>2, <2>4, <2>5
<1> HIDE DEF e
<1>3. ThievesOK(e)
  BY <1>1, <1>2 DEF ThievesOK
<1> QED BY <1>2, <1>3 DEF e

\* The blows and the cures.
LEMMA HealthBooks ==
  ASSUME NEW f, LedgerOK(f), NEW h \in Nat, h <= f.max
  PROVE  /\ h > 0 => /\ BookStep(f, [f EXCEPT !.hp = h]) /\ [f EXCEPT !.hp = h].hp = h
                     /\ [f EXCEPT !.hp = h].over = f.over
         /\ h > 0 => BookStep(f, [f EXCEPT !.tail = FALSE, !.hp = h])
         /\ h > 0 /\ f.armed > 0 => BookStep(f, [f EXCEPT !.armed = f.armed - 1, !.hp = h])
         /\ BookStep(f, [f EXCEPT !.hp = 0, !.over = TRUE, !.slain = TRUE])
<1>1. h > 0 => /\ BookStep(f, [f EXCEPT !.hp = h]) /\ [f EXCEPT !.hp = h].hp = h
               /\ [f EXCEPT !.hp = h].over = f.over
  BY DEF LedgerOK, BookStep, FightFields
<1>2. ASSUME h > 0 PROVE BookStep(f, [f EXCEPT !.tail = FALSE, !.hp = h])
  <2> DEFINE g == [f EXCEPT !.tail = FALSE, !.hp = h]
  <2>1. /\ g = [z \in FightFields |-> g[z]]
        /\ g.hp = h /\ g.max = f.max /\ g.armed = f.armed /\ g.doll = f.doll /\ g.earned = f.earned /\ g.banked = f.banked
        /\ g.thieves = f.thieves /\ g.cards = f.cards /\ g.potions = f.potions /\ g.over = f.over /\ g.mid = f.mid
      BY DEF LedgerOK, FightFields
  <2> HIDE DEF g
  <2>2. BookStep(f, g)
      BY <1>2, <2>1 DEF LedgerOK, BookStep
  <2> QED BY <2>1, <2>2 DEF g
<1>3. ASSUME h > 0, f.armed > 0 PROVE BookStep(f, [f EXCEPT !.armed = f.armed - 1, !.hp = h])
  <2> DEFINE g == [f EXCEPT !.armed = f.armed - 1, !.hp = h]
  <2>1. /\ g = [z \in FightFields |-> g[z]]
        /\ g.hp = h /\ g.max = f.max /\ g.armed = f.armed - 1 /\ g.doll = f.doll /\ g.earned = f.earned /\ g.banked = f.banked
        /\ g.thieves = f.thieves /\ g.cards = f.cards /\ g.potions = f.potions /\ g.over = f.over /\ g.mid = f.mid
      BY DEF LedgerOK, FightFields
  <2> HIDE DEF g
  <2>2. BookStep(f, g)
      BY <1>3, <2>1 DEF LedgerOK, BookStep
  <2> QED BY <2>1, <2>2 DEF g
<1>4. BookStep(f, [f EXCEPT !.hp = 0, !.over = TRUE, !.slain = TRUE])
  <2> DEFINE g == [f EXCEPT !.hp = 0, !.over = TRUE, !.slain = TRUE]
  <2>1. /\ g = [z \in FightFields |-> g[z]]
        /\ g.hp = 0 /\ g.max = f.max /\ g.armed = f.armed /\ g.doll = f.doll /\ g.earned = f.earned /\ g.banked = f.banked
        /\ g.thieves = f.thieves /\ g.cards = f.cards /\ g.potions = f.potions /\ g.over = TRUE /\ g.mid = f.mid
      BY DEF LedgerOK, FightFields
  <2> HIDE DEF g
  <2>2. BookStep(f, g)
      BY <2>1 DEF LedgerOK, BookStep
  <2> QED BY <2>1, <2>2 DEF g
<1> QED BY <1>1, <1>2, <1>3, <1>4

\* A fight that ends, a thief fled or not.
LEMMA GoneBooks ==
  ASSUME NEW f, LedgerOK(f), f.hp > 0, NEW x, NEW y
  PROVE  BookStep(f, [f EXCEPT !.over = x, !.mugged = y]) /\ [f EXCEPT !.over = x, !.mugged = y].hp = f.hp
<1> DEFINE g == [f EXCEPT !.over = x, !.mugged = y]
<1>1. /\ g = [z \in FightFields |-> g[z]]
      /\ g.hp = f.hp /\ g.max = f.max /\ g.armed = f.armed /\ g.doll = f.doll /\ g.earned = f.earned
      /\ g.banked = f.banked /\ g.thieves = f.thieves /\ g.cards = f.cards /\ g.potions = f.potions
  BY DEF LedgerOK, FightFields
<1> HIDE DEF g
<1>2. BookStep(f, g)
  BY <1>1 DEF LedgerOK, BookStep
<1> QED BY <1>1, <1>2 DEF g

\* Or in smoke.
LEMMA SmokeBooks ==
  ASSUME NEW f, LedgerOK(f), f.hp > 0, NEW x, NEW y
  PROVE  BookStep(f, [f EXCEPT !.over = x, !.smoked = y]) /\ [f EXCEPT !.over = x, !.smoked = y].hp = f.hp
<1> DEFINE g == [f EXCEPT !.over = x, !.smoked = y]
<1>1. /\ g = [z \in FightFields |-> g[z]]
      /\ g.hp = f.hp /\ g.max = f.max /\ g.armed = f.armed /\ g.doll = f.doll /\ g.earned = f.earned
      /\ g.banked = f.banked /\ g.thieves = f.thieves /\ g.cards = f.cards /\ g.potions = f.potions
  BY DEF LedgerOK, FightFields
<1> HIDE DEF g
<1>2. BookStep(f, g)
  BY <1>1 DEF LedgerOK, BookStep
<1> QED BY <1>1, <1>2 DEF g

\* The count of a fight's steps.
LEMMA StepBooks ==
  ASSUME NEW f, LedgerOK(f), NEW x, NEW n
  PROVE  BookStep(f, [f EXCEPT !.mid = x, !.steps = n]) /\ [f EXCEPT !.mid = x, !.steps = n].mid = x
<1> DEFINE g == [f EXCEPT !.mid = x, !.steps = n]
<1>1. /\ g = [z \in FightFields |-> g[z]]
      /\ g.hp = f.hp /\ g.max = f.max /\ g.armed = f.armed /\ g.doll = f.doll /\ g.earned = f.earned
      /\ g.banked = f.banked /\ g.thieves = f.thieves /\ g.cards = f.cards /\ g.potions = f.potions
      /\ g.over = f.over /\ g.mid = x
  BY DEF LedgerOK, FightFields
<1> HIDE DEF g
<1>2. BookStep(f, g)
  BY <1>1 DEF LedgerOK, BookStep
<1> QED BY <1>1, <1>2 DEF g

\* What else is written in the books.
LEMMA OtherBooks ==
  ASSUME NEW f, LedgerOK(f)
  PROVE  /\ \A s : ThievesOK(s) => /\ BookStep(f, [f EXCEPT !.thieves = s])
                                   /\ [f EXCEPT !.thieves = s].hp = f.hp /\ [f EXCEPT !.thieves = s].over = f.over
         /\ \A x : f.hp > 0 => /\ BookStep(f, [f EXCEPT !.over = x])
                               /\ [f EXCEPT !.over = x].hp = f.hp
         /\ BookStep(f, [f EXCEPT !.earned = f.earned + 20]) /\ [f EXCEPT !.earned = f.earned + 20].hp = f.hp
         /\ \A s : IsList(s) => /\ BookStep(f, [f EXCEPT !.cards = s]) /\ BookStep(f, [f EXCEPT !.potions = s])
                                /\ [f EXCEPT !.potions = s].hp = f.hp
<1>1. ASSUME NEW s, ThievesOK(s)
      PROVE  /\ BookStep(f, [f EXCEPT !.thieves = s])
             /\ [f EXCEPT !.thieves = s].hp = f.hp /\ [f EXCEPT !.thieves = s].over = f.over
  BY <1>1 DEF LedgerOK, BookStep, FightFields
<1>2. ASSUME NEW x, f.hp > 0 PROVE BookStep(f, [f EXCEPT !.over = x]) /\ [f EXCEPT !.over = x].hp = f.hp
  BY <1>2 DEF LedgerOK, BookStep, FightFields
<1>3. BookStep(f, [f EXCEPT !.earned = f.earned + 20]) /\ [f EXCEPT !.earned = f.earned + 20].hp = f.hp
  BY DEF LedgerOK, BookStep, FightFields
<1>4. ASSUME NEW s, IsList(s)
      PROVE  /\ BookStep(f, [f EXCEPT !.cards = s]) /\ BookStep(f, [f EXCEPT !.potions = s])
             /\ [f EXCEPT !.potions = s].hp = f.hp
  BY <1>4 DEF LedgerOK, BookStep, FightFields
<1> QED BY <1>1, <1>2, <1>3, <1>4

-----------------------------------------------------------------------------
\* A step of the fight that the player survives.
Survives(w, v) == BattleStep(w, v) /\ Standing(v)

\* Two such steps are one.
LEMMA SurvivesTwice ==
  ASSUME NEW w, NEW u, NEW v, Survives(w, u), Survives(u, v) PROVE Survives(w, v)
  BY BattleTwice DEF Survives

\* A new value of the books is a step of the fight.
LEMMA BookSurvives ==
  ASSUME NEW w, Standing(w), NEW g, BookStep(w.fight, g), g.hp = w.fight.hp
  PROVE  Survives(w, Booked(w, g))
  BY BookedIs DEF Standing, Survives, BattleStep

\* A cure.
LEMMA FightHeal ==
  ASSUME NEW w, Standing(w), NEW n \in Nat
  PROVE  Survives(w, heal_player_with_relics(w, n)) /\ heal_player_with_relics(w, n).fight.over = w.fight.over
<1> DEFINE h == Least(w.fight.max, w.fight.hp + n)
           g == [w.fight EXCEPT !.hp = h]
           v == Booked(w, g)
<1>1. LedgerOK(w.fight) /\ w.fight.hp \in Nat /\ w.fight.max \in Nat /\ w.fight.max > 0
  BY DEF Standing, Fighting, LedgerOK
<1>2. heal_player_with_relics(w, n) = IF Owns(w.run, "bloom") THEN w ELSE v
  BY DEF heal_player_with_relics, Booked, Standing, Fighting, Common, WShape, WorldFields
<1>3. h \in Nat /\ h > 0 /\ h <= w.fight.max
  BY <1>1 DEF Least, Standing
<1> HIDE DEF h
<1>4. BookStep(w.fight, g) /\ g.hp = h /\ g.over = w.fight.over
  BY <1>1, <1>3, HealthBooks
<1> HIDE DEF g
<1>5. BattleStep(w, v) /\ v.fight = g
  BY <1>4, BookedIs DEF Standing
<1>6. Survives(w, w)
  BY DEF Survives, BattleStep, Standing
<1> HIDE DEF v
<1> QED BY <1>2, <1>3, <1>4, <1>5, <1>6 DEF Survives, Standing, BattleStep

\* A wound, and what may save the player from it.
LEMMA HurtStep ==
  ASSUME NEW w, Standing(w), NEW n \in Nat
  PROVE  BattleStep(w, Hurt(w, n))
<1> DEFINE f == w.fight
           potency == IF Owns(w.run, "bark") THEN 60 ELSE 30
           less == f.hp - n
           fairy == Most(1, Percent(f.max, potency))
           lizard == Most(1, f.max \div 2)
           hurt == Booked(w, [f EXCEPT !.hp = less])
           fallen == Booked(w, [f EXCEPT !.hp = 0, !.over = TRUE, !.slain = TRUE])
           revived == Booked(w, [f EXCEPT !.armed = f.armed - 1, !.hp = fairy])
           tailed == Booked(w, [f EXCEPT !.tail = FALSE, !.hp = lizard])
<1>1. LedgerOK(f) /\ f.hp \in Nat /\ f.max \in Nat /\ f.max > 0 /\ f.hp <= f.max /\ f.armed \in Nat
  BY DEF Standing, Fighting, LedgerOK
<1>3. /\ f.hp > n => less \in Nat /\ less > 0 /\ less <= f.max
      /\ fairy \in Nat /\ fairy > 0 /\ fairy <= f.max /\ lizard \in Nat /\ lizard > 0 /\ lizard <= f.max
  BY <1>1 DEF Most, Percent
<1> HIDE DEF less, fairy, lizard
<1>4. f.hp > n => BattleStep(w, hurt)
  BY <1>1, <1>3, HealthBooks, BookedIs DEF Standing
<1>5. BattleStep(w, fallen)
  BY <1>1, <1>3, HealthBooks, BookedIs DEF Standing
<1>6. f.armed > 0 => BattleStep(w, revived)
  BY <1>1, <1>3, HealthBooks, BookedIs DEF Standing
<1>7. BattleStep(w, tailed)
  BY <1>1, <1>3, HealthBooks, BookedIs DEF Standing
<1>8. WShape(w) /\ f = [x \in FightFields |-> f[x]]
  BY DEF Standing, Fighting, Common, LedgerOK
<1>9. /\ [w EXCEPT !.fight.hp = @ - n] = hurt
      /\ [w EXCEPT !.fight.hp = 0, !.fight.over = TRUE, !.fight.slain = TRUE] = fallen
      /\ [w EXCEPT !.fight.armed = @ - 1, !.fight.hp = Most(1, Percent(f.max, potency))] = revived
      /\ [w EXCEPT !.fight.tail = FALSE, !.fight.hp = Most(1, f.max \div 2)] = tailed
  <2> HIDE DEF f, potency
  <2>1. [w EXCEPT !.fight.hp = @ - n] = hurt
    BY <1>8 DEF Booked, WShape, WorldFields, FightFields, less, f
  <2>2. [w EXCEPT !.fight.hp = 0, !.fight.over = TRUE, !.fight.slain = TRUE] = fallen
    BY <1>8 DEF Booked, WShape, WorldFields, FightFields, f
  <2>3. [w EXCEPT !.fight.armed = @ - 1, !.fight.hp = Most(1, Percent(f.max, potency))] = revived
    BY <1>8 DEF Booked, WShape, WorldFields, FightFields, fairy, f
  <2>4. [w EXCEPT !.fight.tail = FALSE, !.fight.hp = Most(1, f.max \div 2)] = tailed
    BY <1>8 DEF Booked, WShape, WorldFields, FightFields, lizard, f
  <2> QED BY <2>1, <2>2, <2>3, <2>4
<1>10. Hurt(w, n) = IF f.hp > n THEN hurt
                    ELSE CASE Owns(w.run, "bloom") -> fallen [] f.armed > 0 -> revived
                           [] f.tail -> tailed [] OTHER -> fallen
  <2> DEFINE a == [w EXCEPT !.fight.hp = @ - n]
             b == [w EXCEPT !.fight.hp = 0, !.fight.over = TRUE, !.fight.slain = TRUE]
             c == [w EXCEPT !.fight.armed = @ - 1, !.fight.hp = Most(1, Percent(f.max, potency))]
             d == [w EXCEPT !.fight.tail = FALSE, !.fight.hp = Most(1, f.max \div 2)]
  <2>1. Hurt(w, n) = IF f.hp > n THEN a
                     ELSE CASE Owns(w.run, "bloom") -> b [] f.armed > 0 -> c [] f.tail -> d [] OTHER -> b
    BY Zenon DEF Hurt, try_player_revive
  <2> HIDE DEF hurt, fallen, revived, tailed
  <2>2. a = hurt /\ b = fallen /\ c = revived /\ d = tailed
    BY <1>9
  <2> HIDE DEF a, b, c, d
  <2> QED BY <2>1, <2>2
<1> HIDE DEF hurt, fallen, revived, tailed
<1> QED BY <1>4, <1>5, <1>6, <1>7, <1>10

-----------------------------------------------------------------------------
\* A thief leaves, or steals.
LEMMA ThiefStep ==
  ASSUME NEW w, Standing(w), NEW t \in InFight(w)
  PROVE  Survives(w, ThiefSteals(w, t)) /\ \A how : Survives(w, ThiefGone(w, t, how))
<1> DEFINE f == w.fight
           s == f.thieves
<1>1. LedgerOK(f) /\ ThievesOK(s) /\ WShape(w) /\ f = [x \in FightFields |-> f[x]]
  BY DEF Standing, Fighting, Common, LedgerOK
<1>2. t \in DOMAIN s /\ ThiefOK(s[t])
  BY <1>1, ThiefThere DEF InFight
<1>3. ASSUME NEW e, ThievesOK(e)
      PROVE  LET v == [w EXCEPT !.fight.thieves = e]
             IN  Survives(w, v) /\ v.fight = [f EXCEPT !.thieves = e]
  <2> DEFINE g == [f EXCEPT !.thieves = e]
  <2>1. BookStep(f, g) /\ g.hp = f.hp
    BY <1>1, <1>3, OtherBooks
  <2>2. [w EXCEPT !.fight.thieves = e] = Booked(w, g)
    BY <1>1 DEF Booked, WShape, WorldFields
  <2> HIDE DEF g, f
  <2>3. Survives(w, Booked(w, g)) /\ Booked(w, g).fight = g
    BY <2>1, BookSurvives, BookedIs DEF f, Standing
  <2> QED BY <2>2, <2>3 DEF g, f
<1>4. Survives(w, ThiefSteals(w, t))
  <2> DEFINE n == s[t].steals + 1
             x == [s[t] EXCEPT !.steals = n]
             e == [s EXCEPT ![t] = x]
  <2>1. ThiefOK(x)
    BY <1>2 DEF ThiefOK
  <2>2. ThiefSteals(w, t) = [w EXCEPT !.fight.thieves = e]
    BY <1>1, <1>2 DEF ThiefSteals, WShape, WorldFields, FightFields
  <2> HIDE DEF x
  <2>3. ThievesOK(e)
    BY <1>1, <2>1, ThiefChange
  <2> HIDE DEF e
  <2> QED BY <1>3, <2>2, <2>3
<1>5. ASSUME NEW how PROVE Survives(w, ThiefGone(w, t, how))
  <2> DEFINE x == [s[t] EXCEPT !.live = how]
             e == [s EXCEPT ![t] = x]
             v == [w EXCEPT !.fight.thieves = e]
             over == \A i \in DOMAIN v.fight.thieves : v.fight.thieves[i].live # "in"
             mugged == v.fight.mugged \/ how = "fled"
             g == [v.fight EXCEPT !.over = over, !.mugged = mugged]
  <2>1. ThiefOK(x)
    BY <1>2 DEF ThiefOK
  <2>2. [w EXCEPT !.fight.thieves[t].live = how] = v
    BY <1>1, <1>2 DEF WShape, WorldFields, FightFields
  <2> HIDE DEF x
  <2>3. ThievesOK(e)
    BY <1>1, <2>1, ThiefChange
  <2> HIDE DEF e
  <2>4. Survives(w, v)
    BY <1>3, <2>3
  <2>5. ThiefGone(w, t, how) = [v EXCEPT !.fight.over = over, !.fight.mugged = @ \/ how = "fled"]
    <3> HIDE DEF v
    <3>1. ThiefGone(w, t, how) =
            LET u == [w EXCEPT !.fight.thieves[t].live = how]
            IN  [u EXCEPT !.fight.over = \A i \in DOMAIN u.fight.thieves : u.fight.thieves[i].live # "in",
                          !.fight.mugged = @ \/ how = "fled"]
      BY Zenon DEF ThiefGone
    <3> QED BY <2>2, <3>1
  <2> HIDE DEF v
  <2>6. WShape(v) /\ v.fight = [y \in FightFields |-> v.fight[y]] /\ Standing(v)
    BY <2>4 DEF Survives, Standing, Fighting, Common, LedgerOK
  <2>7. [v EXCEPT !.fight.over = over, !.fight.mugged = @ \/ how = "fled"] = Booked(v, g)
    <3> HIDE DEF over
    <3> QED BY <2>6 DEF Booked, WShape, WorldFields, FightFields
  <2> HIDE DEF over, mugged
  <2>8. BookStep(v.fight, g) /\ g.hp = v.fight.hp
    <3>1. LedgerOK(v.fight) /\ v.fight.hp > 0
      BY <2>6 DEF Standing, Fighting
    <3> QED BY <3>1, GoneBooks
  <2> HIDE DEF g
  <2>9. Survives(v, Booked(v, g))
    BY <2>6, <2>8, BookSurvives
  <2> QED BY <2>4, <2>5, <2>7, <2>9, SurvivesTwice
<1> QED BY <1>4, <1>5

-----------------------------------------------------------------------------
\* The gold of a kill.
LEMMA GreedStep ==
  ASSUME NEW w, Standing(w), NEW t \in InFight(w)
  PROVE  Survives(w, Greed(w, t))
<1> DEFINE dead == ThiefGone(w, t, "dead")
           f == dead.fight
           g == [f EXCEPT !.earned = f.earned + 20]
           paid == Booked(dead, g)
           healed == heal_player_with_relics(paid, 5)
<1>1. Survives(w, dead)
  BY ThiefStep
<1>2. Greed(w, t) = CASE Owns(w.run, "ectoplasm") -> dead
                      [] Owns(w.run, "bloody_idol") -> healed
                      [] OTHER -> paid
  <2>1. paid = [dead EXCEPT !.fight.earned = @ + 20]
    <3>1. WShape(dead)
      BY <1>1 DEF Survives, Standing, Fighting, Common
    <3> HIDE DEF dead
    <3> QED BY <3>1 DEF Booked, WShape, WorldFields
  <2>2. Greed(w, t) = LET u == [dead EXCEPT !.fight.earned = @ + 20]
                      IN  CASE Owns(w.run, "ectoplasm") -> dead
                            [] Owns(w.run, "bloody_idol") -> heal_player_with_relics(u, 5)
                            [] OTHER -> u
    BY Zenon DEF Greed
  <2> HIDE DEF dead, paid
  <2> QED BY <2>1, <2>2
<1> HIDE DEF dead
<1>3. Survives(w, paid)
  <2>1. LedgerOK(f) /\ Standing(dead)
    BY <1>1 DEF Survives, Standing, Fighting
  <2> HIDE DEF f
  <2>2. BookStep(f, g) /\ g.hp = f.hp
    BY <2>1, OtherBooks
  <2> HIDE DEF g
  <2>3. Survives(dead, paid)
    BY <2>1, <2>2, BookSurvives DEF f
  <2> QED BY <1>1, <2>3, SurvivesTwice
<1> HIDE DEF paid
<1>4. Survives(w, healed)
  <2>1. Standing(paid) /\ 5 \in Nat
    BY <1>3 DEF Survives
  <2> QED BY <1>3, <2>1, FightHeal, SurvivesTwice
<1> HIDE DEF healed
<1> QED BY <1>1, <1>2, <1>3, <1>4

\* What comes to the deck or the belt, and a fight won.
LEMMA PrizeStep ==
  ASSUME NEW w, Standing(w)
  PROVE  /\ Survives(w, Implant(w)) /\ \A p : Survives(w, Alchemize(w, p))
         /\ Survives(w, Won(w))
<1> DEFINE f == w.fight
<1>1. LedgerOK(f) /\ WShape(w) /\ f = [x \in FightFields |-> f[x]] /\ IsList(f.cards) /\ IsList(f.potions)
  BY DEF Standing, Fighting, Common, LedgerOK
<1>2. ASSUME NEW g, BookStep(f, g), g.hp = f.hp PROVE Survives(w, Booked(w, g))
  BY <1>2, BookSurvives
<1>3. ASSUME NEW s, IsList(s), NEW x PROVE IsList(Append(s, x))
  <2>1. PICK S : s \in Seq(S)
    BY <1>3 DEF IsList
  <2>2. Append(s, x) \in Seq(S \cup {x})
    <3> DEFINE T == S \cup {x}
    <3>1. s \in Seq(T) /\ x \in T
      BY <2>1
    <3> HIDE DEF T
    <3>2. Append(s, x) \in Seq(T)
      BY <3>1, AppendProperties
    <3> QED BY <3>2 DEF T
  <2> QED BY <2>2 DEF IsList
<1>4. Survives(w, Implant(w))
  <2> DEFINE s == Append(f.cards, "parasite")
             g == [f EXCEPT !.cards = s]
  <2>1. IsList(s)
    BY <1>1, <1>3
  <2>2. Implant(w) = Booked(w, g)
    BY <1>1 DEF Implant, Booked, WShape, WorldFields
  <2> HIDE DEF s
  <2>3. BookStep(f, g) /\ g.hp = f.hp
    <3> HIDE DEF f
    <3> QED BY <1>1, <2>1, OtherBooks DEF LedgerOK, FightFields
  <2> HIDE DEF g
  <2> QED BY <1>2, <2>2, <2>3
<1>5. ASSUME NEW p PROVE Survives(w, Alchemize(w, p))
  <2> DEFINE s == Append(f.potions, p)
             g == [f EXCEPT !.potions = s]
  <2>1. IsList(s)
    BY <1>1, <1>3
  <2>2. Alchemize(w, p) = Booked(w, g)
    BY <1>1 DEF Alchemize, Booked, WShape, WorldFields
  <2> HIDE DEF s
  <2>3. BookStep(f, g) /\ g.hp = f.hp
    <3> HIDE DEF f
    <3> QED BY <1>1, <2>1, OtherBooks
  <2> HIDE DEF g
  <2> QED BY <1>2, <2>2, <2>3
<1>6. Survives(w, Won(w))
  <2> DEFINE yes == TRUE
             g == [f EXCEPT !.over = yes]
  <2>1. Won(w) = Booked(w, g)
    BY <1>1 DEF Won, Booked, WShape, WorldFields
  <2> HIDE DEF yes
  <2>2. BookStep(f, g) /\ g.hp = f.hp
    <3> HIDE DEF f
    <3> QED BY <1>1, OtherBooks DEF f, Standing
  <2> HIDE DEF g
  <2> QED BY <1>2, <2>1, <2>2
<1> QED BY <1>4, <1>5, <1>6

\* What may happen.
LEMMA HappensIs ==
  ASSUME NEW w, NEW x \in Happenings(w)
  PROVE  \/ \E n \in {3, 50} : x = Hurt(w, n)
         \/ \E t \in InFight(w) : x \in {ThiefSteals(w, t), Greed(w, t), ThiefGone(w, t, "dead"),
                                         ThiefGone(w, t, "fled")}
         \/ x = Implant(w) \/ x = Won(w)
         \/ \E p : x = Alchemize(w, p)
<1>1. /\ x \in Steals(w) => \E t \in InFight(w) : x = ThiefSteals(w, t)
      /\ x \in Brews(w) => \E p : x = Alchemize(w, p)
  BY DEF Steals, Brews
<1>2. \/ \E n \in {3, 50} : x = Hurt(w, n)
      \/ x \in Steals(w) \/ x = Implant(w) \/ x = Won(w) \/ x \in Brews(w) \/ x \in Goes(w)
  BY DEF Happenings
<1>3. x \in Goes(w) => \E t \in InFight(w) :
        x \in {Greed(w, t), ThiefGone(w, t, "dead"), ThiefGone(w, t, "fled")}
  BY DEF Goes
<1> QED BY <1>1, <1>2, <1>3

\* Whatever happens in a fight, its books stay in order.
LEMMA HappenedSound ==
  ASSUME NEW w, FightOK(w), FightGoesOn(w)
  PROVE  AllSound(Happened(w))
<1>1. Standing(w)
  BY DEF FightOK, Fighting, LedgerOK, FightGoesOn, Standing
<1>2. ASSUME NEW v \in Happenings(w) PROVE BattleStep(w, v)
  <2>1. \A n \in {3, 50} : BattleStep(w, Hurt(w, n))
    BY <1>1, HurtStep
  <2>2. \A t \in InFight(w) : /\ BattleStep(w, ThiefSteals(w, t)) /\ BattleStep(w, Greed(w, t))
                              /\ BattleStep(w, ThiefGone(w, t, "dead")) /\ BattleStep(w, ThiefGone(w, t, "fled"))
    BY <1>1, ThiefStep, GreedStep DEF Survives
  <2>3. /\ BattleStep(w, Implant(w)) /\ BattleStep(w, Won(w))
        /\ \A p : BattleStep(w, Alchemize(w, p))
    BY <1>1, PrizeStep DEF Survives
  <2>4. \/ \E n \in {3, 50} : v = Hurt(w, n)
        \/ \E t \in InFight(w) : v \in {ThiefSteals(w, t), Greed(w, t), ThiefGone(w, t, "dead"),
                                        ThiefGone(w, t, "fled")}
        \/ v = Implant(w) \/ v = Won(w)
        \/ \E p : v = Alchemize(w, p)
    BY <1>2, HappensIs
  <2> QED BY <2>1, <2>2, <2>3, <2>4
<1>3. ASSUME NEW v, BattleStep(w, v)
      PROVE  Sound([v EXCEPT !.fight.mid = TRUE, !.fight.steps = @ + 1])
  <2> DEFINE f == v.fight
             yes == TRUE
             n == f.steps + 1
             g == [f EXCEPT !.mid = yes, !.steps = n]
             u == Booked(v, g)
  <2>1. LedgerOK(f) /\ WShape(v) /\ Fighting(v)
    BY <1>3 DEF BattleStep, Fighting, Common
  <2>2. [v EXCEPT !.fight.mid = TRUE, !.fight.steps = @ + 1] = u
    BY <2>1 DEF Booked, WShape, WorldFields, LedgerOK, FightFields
  <2>3. BookStep(f, g) /\ g.mid = yes
    <3> HIDE DEF f, n, yes
    <3> QED BY <2>1, StepBooks DEF f
  <2> HIDE DEF g
  <2>4. BattleStep(v, u) /\ u.fight = g
    BY <2>1, <2>3, BookedIs
  <2> HIDE DEF u
  <2>5. FightOK(u)
    BY <2>3, <2>4 DEF BattleStep, FightOK
  <2>6. Sound(u)
    BY <2>5 DEF Sound, FightOK, Fighting, Phases
  <2> QED BY <2>2, <2>6
<1> QED BY <1>2, <1>3 DEF Happened, AllSound

-----------------------------------------------------------------------------
\* What the end of a command leaves alone of a fight.
Held(w, v) ==
  /\ v.room = w.room /\ v.ev = w.ev /\ v.pend = w.pend
  /\ v.fight.hp = w.fight.hp /\ v.fight.over = w.fight.over /\ v.fight.mid = w.fight.mid

\* A fight whose Fairies are counted.
Settled(w) == Fighting(w) /\ w.fight.armed = Cardinality(BeltFairies(w.run))

\* Another run and other books in the same fight.
Refought(w, r, g) == [w EXCEPT !.run = r, !.fight = g]

\* They make a fight where they agree.
LEMMA RefoughtIs ==
  ASSUME NEW w, Fighting(w), NEW r, RunOK(r), NEW g, LedgerOK(g), AgreeOK(r, g)
  PROVE  LET v == Refought(w, r, g)
         IN  /\ Fighting(v) /\ v.run = r /\ v.fight = g /\ v.room = w.room /\ v.ev = w.ev
             /\ v.pend = w.pend /\ v.loot = w.loot
<1> DEFINE v == Refought(w, r, g)
<1>1. /\ WShape(v) /\ v.phase = "fight" /\ v.run = r /\ v.loot = w.loot
      /\ v.pend = w.pend /\ v.room = w.room /\ v.ev = w.ev /\ v.fight = g
  BY DEF Refought, Fighting, Common, WShape, WorldFields
<1> HIDE DEF v
<1>2. Common(v)
  BY <1>1 DEF Common, Fighting
<1>3. EntryOK(v)
  BY <1>1 DEF EntryOK, event_combat_reopens, Fighting
<1> QED BY <1>1, <1>2, <1>3 DEF v, Fighting

-----------------------------------------------------------------------------
\* One thief of those due is the first.
LEMMA NextIsDue ==
  ASSUME NEW v, ThievesOK(v.fight.thieves), Due(v) # {}
  PROVE  NextThief(v) \in Due(v)
<1> DEFINE s == v.fight.thieves
           due == Due(v)
           P == {n \in Nat : \E t \in due : s[t].prev = n}
<1>1. DOMAIN s = 1..Len(s) /\ Len(s) \in Nat /\ due \subseteq DOMAIN s /\ \A t \in DOMAIN s : s[t].prev \in Nat
  BY ThiefThere DEF Due, ThiefOK
<1>2. P \in SUBSET Nat /\ P # {}
  <2> HIDE DEF due, s
  <2> QED BY <1>1 DEF due
<1>3. PICK n \in P : \A m \in P : n <= m
  <2> HIDE DEF P
  <2> QED BY <1>2, AddFold!LeastOf
<1> DEFINE Q == {t \in due : s[t].prev = n}
<1>4. Q \in SUBSET Nat /\ Q # {}
  <2> HIDE DEF due, s
  <2> QED BY <1>1, <1>3
<1>5. PICK t \in Q : \A u \in Q : t <= u
  <2> HIDE DEF Q
  <2> QED BY <1>4, AddFold!LeastOf
<1>6. \A u \in due : s[t].prev < s[u].prev \/ (s[t].prev = s[u].prev /\ t <= u)
  <2> HIDE DEF due, s
  <2>1. ASSUME NEW u \in due PROVE s[t].prev < s[u].prev \/ (s[t].prev = s[u].prev /\ t <= u)
    <3>1. s[u].prev \in P /\ s[u].prev \in Nat /\ n \in Nat /\ s[t].prev = n
      BY <1>1, <1>3, <1>5
    <3>2. n <= s[u].prev
      BY <1>3, <3>1
    <3>3. s[u].prev = n => u \in Q
      OBVIOUS
    <3> HIDE DEF Q, P
    <3> QED BY <1>5, <3>1, <3>2, <3>3
  <2> QED BY <2>1
<1>7. t \in due
  BY <1>5
<1> HIDE DEF Q, P
<1> QED BY <1>6, <1>7 DEF NextThief

\* Gold and health of a run in a fight.
LEMMA GoldSet ==
  ASSUME NEW r, RunOK(r), NEW n \in Nat
  PROVE  LET q == [r EXCEPT !.gold = n]
         IN  RunOK(q) /\ q.hp = r.hp /\ q.belt = r.belt /\ q.doll = r.doll /\ q.gold = n
<1> DEFINE q == [r EXCEPT !.gold = n]
<1>1. /\ RunShape(q) /\ Vital(q) /\ SameCards(r, q) /\ q.hp = r.hp /\ q.belt = r.belt /\ q.doll = r.doll
      /\ q.gold = n
  BY DEF RunOK, Body, RunShape, RunFields, Vital, SameCards
<1> HIDE DEF q
<1>2. RunOK(q)
  BY <1>1, BodyOfSame DEF RunOK, DollTrue, SameCards, Owns
<1> QED BY <1>1, <1>2 DEF q

\* A steal is booked.
LEMMA StolenIs ==
  ASSUME NEW v, Fighting(v), NEW t \in DOMAIN v.fight.thieves
  PROVE  /\ Fighting(Stolen(v, t)) /\ Held(v, Stolen(v, t))
         /\ Stolen(v, t).fight.earned = v.fight.earned
<1> DEFINE f == v.fight
           s == f.thieves
           r == v.run
           take == Least(s[t].amt, r.gold)
           n == r.gold - take
           a == s[t].taken + take
           b == s[t].prev + 1
           x == [s[t] EXCEPT !.taken = a, !.prev = b]
           e == [s EXCEPT ![t] = x]
           g == [f EXCEPT !.thieves = e]
           q == [r EXCEPT !.gold = n]
<1>1. /\ LedgerOK(f) /\ ThievesOK(s) /\ WShape(v) /\ f = [y \in FightFields |-> f[y]] /\ RunOK(r)
      /\ RunShape(r) /\ r.gold \in Nat /\ AgreeOK(r, f)
  BY DEF Fighting, Common, LedgerOK, RunOK, Body, Vital
<1>2. ThiefOK(s[t]) /\ s = [i \in DOMAIN s |-> s[i]] /\ t \in DOMAIN s
  <2> HIDE DEF s
  <2> QED BY <1>1, ThiefThere DEF s
<1>3. take \in Int /\ n \in Nat
  BY <1>1, <1>2 DEF Least, ThiefOK
<1>4. ThiefOK(x)
  <2>1. a \in Int /\ b \in Nat
    BY <1>2, <1>3 DEF ThiefOK
  <2> HIDE DEF a, b
  <2> QED BY <1>2, <2>1 DEF ThiefOK
<1>5. Stolen(v, t) = Refought(v, q, g)
  <2> DEFINE y == [s[t] EXCEPT !.taken = a]
             v1 == [v EXCEPT !.run = q]
             v2 == [v1 EXCEPT !.fight.thieves[t].taken = a]
             v3 == [v2 EXCEPT !.fight.thieves[t].prev = b]
  <2>1. Stolen(v, t) = [v EXCEPT !.run.gold = @ - take, !.fight.thieves[t].taken = @ + take,
                                 !.fight.thieves[t].prev = @ + 1]
    BY Zenon DEF Stolen
  <2>2. v1 = [v EXCEPT !.run.gold = n] /\ v1.run = q /\ v1.fight = f /\ WShape(v1)
    <3> HIDE DEF n
    <3> QED BY <1>1 DEF WShape, WorldFields, RunShape, RunFields
  <2> HIDE DEF v1, q
  <2>3. v2 = Refought(v, q, [f EXCEPT !.thieves = [s EXCEPT ![t] = y]])
    <3> HIDE DEF a
    <3>1. v2 = [v1 EXCEPT !.fight = [f EXCEPT !.thieves = [s EXCEPT ![t] = y]]]
      BY <1>1, <1>2, <2>2 DEF WShape, WorldFields, FightFields
    <3> HIDE DEF y, f
    <3> QED BY <1>1, <2>2, <3>1 DEF Refought, WShape, WorldFields, v1
  <2>4. v3 = Refought(v, q, g)
    <3> DEFINE s2 == [s EXCEPT ![t] = y]
               f2 == [f EXCEPT !.thieves = s2]
    <3> HIDE DEF v2
    <3>1. [y EXCEPT !.prev = b] = x
      <4> HIDE DEF a, b
      <4> QED BY <1>2 DEF ThiefOK
    <3> HIDE DEF y, b
    <3>2. s2[t] = y /\ [s2 EXCEPT ![t] = x] = e /\ s2 = [i \in DOMAIN s2 |-> s2[i]] /\ t \in DOMAIN s2
      <4> HIDE DEF x, s
      <4> QED BY <1>2
    <3>3. f2.thieves = s2 /\ [f2 EXCEPT !.thieves = e] = g /\ f2 = [i \in FightFields |-> f2[i]]
      <4> HIDE DEF s2, e, f
      <4> QED BY <1>1 DEF FightFields
    <3>4. v2.run = q /\ v2.fight = f2 /\ WShape(v2) /\ [v2 EXCEPT !.fight = g] = Refought(v, q, g)
      <4> HIDE DEF f2, g, f
      <4> QED BY <1>1, <2>3 DEF Refought, WShape, WorldFields, f2
    <3> HIDE DEF f2, s2
    <3>5. v3 = [v2 EXCEPT !.fight.thieves[t] = [y EXCEPT !.prev = b]]
      BY <3>2, <3>3, <3>4 DEF WShape, WorldFields, FightFields
    <3>6. [v2 EXCEPT !.fight.thieves[t] = x] = [v2 EXCEPT !.fight = [f2 EXCEPT !.thieves = [s2 EXCEPT ![t] = x]]]
      <4> HIDE DEF x
      <4> QED BY <3>3, <3>4 DEF WShape, WorldFields, FightFields
    <3> QED BY <3>1, <3>2, <3>3, <3>4, <3>5, <3>6
  <2>5. [v EXCEPT !.run.gold = @ - take, !.fight.thieves[t].taken = @ + take,
                  !.fight.thieves[t].prev = @ + 1] = v3
    <3> HIDE DEF take
    <3> QED BY <2>2 DEF v2, v3
  <2> HIDE DEF v3
  <2> QED BY <2>1, <2>4, <2>5
<1> HIDE DEF x, n
<1>6. ThievesOK(e)
  BY <1>1, <1>4, ThiefChange
<1>7. BookStep(f, g)
  <2> HIDE DEF e, f
  <2> QED BY <1>1, <1>6, OtherBooks
<1>8. /\ g.hp = f.hp /\ g.over = f.over /\ g.mid = f.mid /\ g.max = f.max /\ g.doll = f.doll /\ g.armed = f.armed
      /\ g.earned = f.earned
  BY <1>1 DEF FightFields
<1>9. RunOK(q) /\ q.hp = r.hp /\ q.belt = r.belt /\ q.doll = r.doll
  BY <1>1, <1>3, GoldSet
<1> HIDE DEF g, q, f, r
<1>10. AgreeOK(q, g)
  BY <1>1, <1>8, <1>9 DEF AgreeOK, BeltFairies
<1>11. LedgerOK(g)
  BY <1>7 DEF BookStep
<1> QED BY <1>5, <1>8, <1>9, <1>10, <1>11, RefoughtIs DEF Held, f, r

\* The steals of a command, one after another.
RobOp(p, a, x) == IF Due(a) = {} THEN a ELSE Stolen(a, NextThief(a))
RobGood(p, n, a) == Fighting(a) /\ Held(p, a) /\ a.fight.earned = p.fight.earned
RobFold == INSTANCE FoldFacts WITH Op <- RobOp, Good <- RobGood

\* Robbed is such a fold.
LEMMA RobsFold ==
  ASSUME NEW w, NEW p
  PROVE  Robbed(w) = RobFold!Folded(p, w, [i \in 1..(2 * Len(w.fight.thieves)) |-> i])
  BY Zenon DEF Robbed, RobFold!Folded, RobOp, RobFold!MapThenFoldSet, FoldLeft,
               MapThenFoldSet, RobFold!Greatest, Max

\* The steals leave the fight what it was.
LEMMA RobsKeep ==
  ASSUME NEW w, Fighting(w)
  PROVE  RobGood(w, 0, Robbed(w))
<1> DEFINE n == 2 * Len(w.fight.thieves)
           seq == [i \in 1..n |-> i]
<1>1. n \in Nat
  BY ThiefThere DEF Fighting, LedgerOK
<1> HIDE DEF n
<1>2. seq \in Seq(Int)
  BY <1>1
<1>3. RobGood(w, 0, w)
  BY DEF RobGood, Held
<1>4. ASSUME NEW i \in 1..Len(seq), NEW a, RobGood(w, i - 1, a)
      PROVE  RobGood(w, i, RobOp(w, a, seq[i]))
  <2>1. CASE Due(a) = {}
    BY <1>4, <2>1 DEF RobOp, RobGood
  <2>2. CASE Due(a) # {}
    <3> DEFINE t == NextThief(a)
    <3>1. t \in DOMAIN a.fight.thieves
      BY <1>4, <2>2, NextIsDue DEF RobGood, Fighting, LedgerOK, Due
    <3> HIDE DEF t
    <3>2. Fighting(Stolen(a, t)) /\ Held(a, Stolen(a, t)) /\ Stolen(a, t).fight.earned = a.fight.earned
      BY <1>4, <3>1, StolenIs DEF RobGood
    <3> QED BY <1>4, <2>2, <3>2 DEF RobOp, RobGood, Held, t
  <2> QED BY <2>1, <2>2
<1> HIDE DEF seq
<1>5. RobGood(w, Len(seq), RobFold!Folded(w, w, seq))
  BY <1>2, <1>3, <1>4, RobFold!FoldKeeps
<1> QED BY <1>5, RobsFold DEF RobGood, seq, n

\* sync_live_gold.
LEMMA SyncIs ==
  ASSUME NEW w, Fighting(w)
  PROVE  LET v == sync_live_gold(w)
         IN  Fighting(v) /\ Held(w, v)
<1> DEFINE u == Robbed(w)
           m == w.fight.earned
           d == m - w.fight.banked
           r == u.run
           f == u.fight
           n == r.gold + d
           q == [r EXCEPT !.gold = n]
           g == [f EXCEPT !.banked = m]
<1>1. Fighting(u) /\ Held(w, u) /\ f.earned = m
  BY RobsKeep DEF RobGood
<1>2. sync_live_gold(w) = [u EXCEPT !.run.gold = @ + (m - w.fight.banked), !.fight.banked = m]
  BY Zenon DEF sync_live_gold
<1> HIDE DEF u
<1>3. /\ LedgerOK(f) /\ WShape(u) /\ f = [y \in FightFields |-> f[y]] /\ RunOK(r)
      /\ RunShape(r) /\ r.gold \in Nat /\ AgreeOK(r, f) /\ m \in Nat /\ d \in Nat
  BY <1>1 DEF Fighting, Common, LedgerOK, RunOK, Body, Vital
<1>4. sync_live_gold(w) = Refought(u, q, g)
  <2>1. sync_live_gold(w) = [u EXCEPT !.run.gold = @ + d, !.fight.banked = m]
    BY <1>2
  <2> HIDE DEF d, m
  <2>2. [u EXCEPT !.run.gold = @ + d, !.fight.banked = m] = Refought(u, q, g)
    BY <1>3 DEF Refought, WShape, WorldFields, FightFields, RunShape, RunFields
  <2> QED BY <2>1, <2>2
<1>5. n \in Nat
  BY <1>3
<1> HIDE DEF n, m
<1>6. RunOK(q) /\ q.hp = r.hp /\ q.belt = r.belt /\ q.doll = r.doll
  BY <1>3, <1>5, GoldSet
<1>7. /\ g = [y \in FightFields |-> g[y]] /\ g.hp = f.hp /\ g.over = f.over /\ g.mid = f.mid
      /\ g.max = f.max /\ g.doll = f.doll /\ g.armed = f.armed /\ g.earned = f.earned /\ g.banked = m
      /\ g.thieves = f.thieves /\ g.cards = f.cards /\ g.potions = f.potions
  BY <1>3 DEF FightFields
<1> HIDE DEF g, q
<1>8. LedgerOK(g)
  BY <1>1, <1>3, <1>7 DEF LedgerOK
<1>9. AgreeOK(q, g)
  BY <1>3, <1>6, <1>7 DEF AgreeOK, BeltFairies
<1>10. Fighting(Refought(u, q, g)) /\ Held(u, Refought(u, q, g))
  BY <1>1, <1>6, <1>7, <1>8, <1>9, RefoughtIs DEF Held
<1> QED BY <1>1, <1>4, <1>10 DEF Held

-----------------------------------------------------------------------------
\* One Fairy less on the belt.
LEMMA FairyCleared ==
  ASSUME NEW r, RunOK(r), NEW i
  PROVE  LET q == ClearSlot(r, i)
         IN  /\ Belted(r, q) /\ DOMAIN q.belt = DOMAIN r.belt
             /\ BeltFairies(q) = BeltFairies(r) \ {i}
             /\ i \in DOMAIN r.belt => q.belt[i] = "none"
             /\ \A j : j # i => q.belt[j] = r.belt[j]
             /\ i \in BeltFairies(r) =>
                  Cardinality(BeltFairies(q)) = Cardinality(BeltFairies(r)) - 1
             /\ i \notin BeltFairies(r) => Cardinality(BeltFairies(q)) = Cardinality(BeltFairies(r))
<1> DEFINE q == ClearSlot(r, i)
<1>1. Belted(r, q) /\ q.belt = [r.belt EXCEPT ![i] = "none"]
  BY ClearKeeps
<1>2. IsList(r.belt) /\ IsFiniteSet(BeltFairies(r)) /\ Cardinality(BeltFairies(r)) \in Nat
  BY FairiesCount DEF RunOK, Body
<1>3. DOMAIN q.belt = DOMAIN r.belt
  BY <1>1, <1>2, SlotChange
<1>4. PICK S : r.belt \in Seq(S)
  BY <1>2 DEF IsList
<1>5. r.belt = [j \in DOMAIN r.belt |-> r.belt[j]]
  BY <1>4
<1> HIDE DEF q
<1>6. (i \in DOMAIN r.belt => q.belt[i] = "none") /\ \A j : j # i => q.belt[j] = r.belt[j]
  BY <1>1, <1>5
<1>7. BeltFairies(q) = BeltFairies(r) \ {i}
  BY <1>3, <1>6 DEF BeltFairies
<1>8. i \in BeltFairies(r) => Cardinality(BeltFairies(q)) = Cardinality(BeltFairies(r)) - 1
  BY <1>2, <1>7, FS_RemoveElement
<1>9. i \notin BeltFairies(r) => BeltFairies(q) = BeltFairies(r)
  BY <1>7
<1> QED BY <1>1, <1>3, <1>6, <1>7, <1>8, <1>9 DEF q

\* The Fairies used up leave the belt, slot by slot: a fold.
BurnOp(p, a, x) == IF Cardinality(BeltFairies(a)) > p.fight.armed /\ a.belt[x] = "fairy"
                   THEN ClearSlot(a, x) ELSE a
BurnGood(p, n, a) ==
  /\ Belted(p.run, a) /\ DOMAIN a.belt = DOMAIN p.run.belt
  /\ Cardinality(BeltFairies(a)) >= p.fight.armed
  /\ Cardinality(BeltFairies(a)) > p.fight.armed => \A i \in 1..n : a.belt[i] # "fairy"
BurnFold == INSTANCE FoldFacts WITH Op <- BurnOp, Good <- BurnGood

\* It is one.
LEMMA BurnFolds ==
  ASSUME NEW w
  PROVE  burn_consumed_fairies(w) =
           On(w, BurnFold!Folded(w, w.run, [i \in DOMAIN w.run.belt |-> i]))
  BY Zenon DEF burn_consumed_fairies, BurnFold!Folded, BurnOp, 
               BurnFold!MapThenFoldSet, FoldLeft, MapThenFoldSet, BurnFold!Greatest, Max

\* What is left on the belt is armed.
LEMMA BurnKeeps ==
  ASSUME NEW w, Fighting(w)
  PROVE  LET r == BurnFold!Folded(w, w.run, [i \in DOMAIN w.run.belt |-> i])
         IN  Belted(w.run, r) /\ Cardinality(BeltFairies(r)) = w.fight.armed
<1> DEFINE n == Len(w.run.belt)
           seq == [i \in DOMAIN w.run.belt |-> i]
           r == BurnFold!Folded(w, w.run, seq)
<1>1. RunOK(w.run) /\ w.fight.armed \in Nat /\ w.fight.armed <= Cardinality(BeltFairies(w.run))
  BY DEF Fighting, Common, LedgerOK, AgreeOK
<1>2. n \in Nat /\ DOMAIN w.run.belt = 1..n
  BY <1>1, SlotChange DEF RunOK, Body
<1>3. seq \in Seq(Int) /\ Len(seq) = n /\ \A i \in 1..n : seq[i] = i
  <2> HIDE DEF n
  <2> QED BY <1>2
<1>4. BurnGood(w, 0, w.run)
  <2>1. Belted(w.run, w.run)
    BY <1>1 DEF Belted
  <2>2. Cardinality(BeltFairies(w.run)) >= w.fight.armed
    BY <1>1, FairiesCount
  <2> QED BY <2>1, <2>2 DEF BurnGood
<1>5. ASSUME NEW i \in 1..n, NEW a, BurnGood(w, i - 1, a)
      PROVE  BurnGood(w, i, BurnOp(w, a, i))
  <2>1. RunOK(a) /\ DOMAIN a.belt = 1..n
    BY <1>2, <1>5 DEF BurnGood, Belted
  <2>2. Cardinality(BeltFairies(a)) \in Nat
    BY <2>1, FairiesCount
  <2>3. CASE Cardinality(BeltFairies(a)) > w.fight.armed /\ a.belt[i] = "fairy"
    <3> DEFINE q == ClearSlot(a, i)
    <3>1. i \in BeltFairies(a)
      BY <2>1, <2>3 DEF BeltFairies
    <3>2. /\ Belted(a, q) /\ DOMAIN q.belt = DOMAIN a.belt /\ q.belt[i] = "none"
          /\ \A j : j # i => q.belt[j] = a.belt[j]
          /\ Cardinality(BeltFairies(q)) = Cardinality(BeltFairies(a)) - 1
      BY <1>2, <2>1, <3>1, FairyCleared
    <3> HIDE DEF q, n
    <3>3. \A j \in 1..i : q.belt[j] # "fairy"
      <4> TAKE j \in 1..i
      <4>1. CASE j = i
        BY <3>2, <4>1
      <4>2. CASE j # i
        <5>1. j \in 1..(i - 1)
          BY <1>5, <4>2
        <5> QED BY <1>5, <2>3, <3>2, <4>2, <5>1 DEF BurnGood
      <4> QED BY <4>1, <4>2
    <3>4. Belted(w.run, q) /\ DOMAIN q.belt = DOMAIN w.run.belt
      BY <1>5, <3>2, BeltedTwice DEF BurnGood
    <3>5. Cardinality(BeltFairies(q)) >= w.fight.armed
      BY <1>1, <2>2, <2>3, <3>2
    <3>6. BurnGood(w, i, q)
      BY <3>3, <3>4, <3>5 DEF BurnGood
    <3> QED BY <2>3, <3>6 DEF BurnOp, q
  <2>4. CASE ~(Cardinality(BeltFairies(a)) > w.fight.armed /\ a.belt[i] = "fairy")
    <3> HIDE DEF n
    <3>1. Cardinality(BeltFairies(a)) > w.fight.armed => \A j \in 1..i : a.belt[j] # "fairy"
      <4> SUFFICES ASSUME Cardinality(BeltFairies(a)) > w.fight.armed, NEW j \in 1..i
                   PROVE  a.belt[j] # "fairy"
        OBVIOUS
      <4>1. j = i \/ j \in 1..(i - 1)
        BY <1>5
      <4> QED BY <1>5, <2>4, <4>1 DEF BurnGood
    <3> QED BY <1>5, <2>4, <3>1 DEF BurnGood, BurnOp
  <2> QED BY <2>3, <2>4
<1> HIDE DEF seq, n
<1>6. BurnGood(w, n, r)
  <2>1. \A i \in 1..Len(seq) : \A a : BurnGood(w, i - 1, a) => BurnGood(w, i, BurnOp(w, a, seq[i]))
    BY <1>3, <1>5
  <2>2. BurnGood(w, Len(seq), BurnFold!Folded(w, w.run, seq))
    BY <1>3, <1>4, <2>1, BurnFold!FoldKeeps
  <2> QED BY <1>3, <2>2
<1> HIDE DEF r
<1>7. Belted(w.run, r) /\ RunOK(r) /\ DOMAIN r.belt = 1..n
  BY <1>2, <1>6 DEF BurnGood, Belted
<1>8. Cardinality(BeltFairies(r)) \in Nat
  BY <1>7, FairiesCount
<1>9. Cardinality(BeltFairies(r)) = w.fight.armed
  <2> SUFFICES ASSUME Cardinality(BeltFairies(r)) > w.fight.armed PROVE FALSE
    BY <1>1, <1>6, <1>8 DEF BurnGood
  <2>1. BeltFairies(r) = {}
    BY <1>6, <1>7 DEF BurnGood, BeltFairies
  <2> QED BY <1>1, <2>1, FS_EmptySet
<1> QED BY <1>7, <1>9 DEF r, seq

\* burn_consumed_fairies.
LEMMA BurnIs ==
  ASSUME NEW w, Fighting(w)
  PROVE  LET v == burn_consumed_fairies(w)
         IN  Settled(v) /\ Held(w, v)
<1> DEFINE r == BurnFold!Folded(w, w.run, [i \in DOMAIN w.run.belt |-> i])
<1>1. Belted(w.run, r) /\ Cardinality(BeltFairies(r)) = w.fight.armed
  BY BurnKeeps
<1>2. burn_consumed_fairies(w) = On(w, r)
  BY BurnFolds, Zenon
<1> HIDE DEF r
<1>3. On(w, r) = Refought(w, r, w.fight)
  BY DEF On, Refought, Fighting, Common, WShape, WorldFields
<1>4. RunOK(r) /\ AgreeOK(r, w.fight) /\ LedgerOK(w.fight)
  BY <1>1 DEF Belted, AgreeOK, Fighting, LedgerOK
<1> QED BY <1>1, <1>2, <1>3, <1>4, RefoughtIs DEF Settled, Held

-----------------------------------------------------------------------------
\* The run as the relics that answer a card see it in a fight.
InFightRun(w) == [w.run EXCEPT !.hp = w.fight.hp, !.max = w.fight.max, !.tail = w.fight.tail,
                               !.charm = w.fight.charm, !.doll = w.fight.doll]

\* It is a run like any other.
LEMMA FightRunIs ==
  ASSUME NEW w, Fighting(w)
  PROVE  LET q == InFightRun(w)
         IN  RunOK(q) /\ q.belt = w.run.belt /\ q.hp = w.fight.hp /\ q.max = w.fight.max /\ q.doll = w.run.doll
<1> DEFINE r == w.run
           q == InFightRun(w)
<1>1. RunOK(r) /\ Body(r) /\ RunShape(r) /\ Vital(r) /\ LedgerOK(w.fight) /\ w.fight.doll = r.doll
  BY DEF Fighting, Common, AgreeOK, RunOK, Body
<1>2. /\ RunShape(q) /\ SameCards(r, q) /\ q.belt = r.belt /\ q.hp = w.fight.hp /\ q.max = w.fight.max
      /\ q.gold = r.gold /\ q.purge = r.purge /\ q.doll = r.doll
  BY <1>1 DEF InFightRun, RunShape, RunFields, SameCards
<1> HIDE DEF q
<1>3. Vital(q)
  BY <1>1, <1>2 DEF Vital, LedgerOK
<1>4. RunOK(q)
  BY <1>1, <1>2, <1>3, BodyOfSame DEF RunOK, DollTrue, SameCards, Owns
<1> QED BY <1>2, <1>4 DEF q

\* The cards of a command come to the deck; what they do to health and counters
\* comes back to the fight.
LEMMA ObtainsIs ==
  ASSUME NEW w, Settled(w)
  PROVE  Settled(drain_pending_obtains(w))
<1> DEFINE live == InFightRun(w)
           f == w.fight
           r == FoldLeft(AddCard, live, f.cards)
           g == [f EXCEPT !.cards = <<>>, !.hp = r.hp, !.max = r.max,
                          !.tail = r.tail, !.charm = r.charm, !.doll = r.doll]
           v == Refought(w, r, g)
<1>1. Fighting(w) /\ LedgerOK(f) /\ IsList(f.cards) /\ WShape(w) /\ f = [x \in FightFields |-> f[x]]
  BY DEF Settled, Fighting, LedgerOK, Common
<1>2. RunOK(live) /\ live.belt = w.run.belt /\ live.hp = f.hp
  BY <1>1, FightRunIs
<1>3. drain_pending_obtains(w) = w \/ drain_pending_obtains(w) = v
  <2>1. drain_pending_obtains(w) =
          IF f.cards = <<>> THEN w
          ELSE [On(w, r) EXCEPT !.fight.cards = <<>>, !.fight.hp = r.hp, !.fight.max = r.max,
                                !.fight.tail = r.tail, !.fight.charm = r.charm, !.fight.doll = r.doll]
    BY Zenon DEF drain_pending_obtains, InFightRun
  <2> HIDE DEF r
  <2>2. [On(w, r) EXCEPT !.fight.cards = <<>>, !.fight.hp = r.hp, !.fight.max = r.max,
                         !.fight.tail = r.tail, !.fight.charm = r.charm, !.fight.doll = r.doll] = v
    BY <1>1 DEF On, Refought, WShape, WorldFields, FightFields
  <2> QED BY <2>1, <2>2
<1> HIDE DEF live
<1>4. Doored(live, r)
  BY <1>1, <1>2, CardsKeep
<1> HIDE DEF r
<1>5. RunOK(r) /\ Vital(r) /\ r.belt = w.run.belt /\ (f.hp > 0 => r.hp > 0)
  BY <1>2, <1>4 DEF Doored, Kept, SamePack, Alive, RunOK, Body
<1>6. /\ g = [x \in FightFields |-> g[x]] /\ g.hp = r.hp /\ g.max = r.max /\ g.doll = r.doll
      /\ g.armed = f.armed /\ g.earned = f.earned /\ g.banked = f.banked /\ g.thieves = f.thieves
      /\ g.cards = <<>> /\ g.potions = f.potions /\ g.over = f.over
  BY <1>1 DEF FightFields
<1> HIDE DEF g
<1>7. IsList(<<>>)
  <2>1. <<>> \in Seq({})
    OBVIOUS
  <2> QED BY <2>1 DEF IsList
<1>8. LedgerOK(g)
  BY <1>1, <1>5, <1>6, <1>7 DEF LedgerOK, Vital
<1>9. BeltFairies(r) = BeltFairies(w.run)
  BY <1>5 DEF BeltFairies
<1>10. AgreeOK(r, g)
  BY <1>1, <1>5, <1>6, <1>9 DEF AgreeOK, Fighting, Vital
<1>11. Fighting(v) /\ v.run = r /\ v.fight = g
  BY <1>1, <1>5, <1>8, <1>10, RefoughtIs
<1> HIDE DEF v
<1>12. Settled(v)
  BY <1>6, <1>9, <1>11 DEF Settled
<1> QED BY <1>3, <1>12

\* The potions of a command come to the belt, and its new Fairies are armed.
LEMMA PotionsIs ==
  ASSUME NEW w, Settled(w)
  PROVE  LET v == drain_pending_potions(w)
         IN  Settled(v) /\ Held(w, v)
<1> DEFINE f == w.fight
           r == IF Owns(w.run, "sozu") THEN w.run ELSE FoldLeft(PutPotion, w.run, f.potions)
           n == Cardinality(BeltFairies(r))
           m == Cardinality(BeltFairies(w.run))
           k == f.armed + (n - m)
           g == [f EXCEPT !.potions = <<>>, !.armed = k]
           v == Refought(w, r, g)
<1>1. /\ Fighting(w) /\ LedgerOK(f) /\ IsList(f.potions) /\ WShape(w) /\ f = [x \in FightFields |-> f[x]]
      /\ RunOK(w.run) /\ f.armed = m
  BY DEF Settled, Fighting, LedgerOK, Common
<1>2. Belted(w.run, r)
  <2>1. Belted(w.run, FoldLeft(PutPotion, w.run, f.potions))
    BY <1>1, BrewsKeep
  <2>2. Belted(w.run, w.run)
    BY <1>1 DEF Belted
  <2> QED BY <2>1, <2>2
<1>3. drain_pending_potions(w) = v
  <2>1. drain_pending_potions(w) = [On(w, r) EXCEPT !.fight.potions = <<>>, !.fight.armed = @ + (n - m)]
    BY Zenon DEF drain_pending_potions
  <2> HIDE DEF r, n, m
  <2>2. [On(w, r) EXCEPT !.fight.potions = <<>>, !.fight.armed = @ + (n - m)] = v
    BY <1>1 DEF On, Refought, WShape, WorldFields, FightFields
  <2> QED BY <2>1, <2>2
<1> HIDE DEF r
<1>4. RunOK(r) /\ r.hp = w.run.hp /\ r.doll = w.run.doll /\ n \in Nat /\ m \in Nat
  BY <1>1, <1>2, FairiesCount DEF Belted
<1>5. k = n
  <2> HIDE DEF n, m
  <2> QED BY <1>1, <1>4
<1> HIDE DEF k
<1>6. /\ g = [x \in FightFields |-> g[x]] /\ g.hp = f.hp /\ g.max = f.max /\ g.doll = f.doll
      /\ g.armed = k /\ g.earned = f.earned /\ g.banked = f.banked /\ g.thieves = f.thieves
      /\ g.cards = f.cards /\ g.potions = <<>> /\ g.over = f.over /\ g.mid = f.mid
  BY <1>1 DEF FightFields
<1> HIDE DEF g
<1>7. IsList(<<>>)
  <2>1. <<>> \in Seq({})
    OBVIOUS
  <2> QED BY <2>1 DEF IsList
<1>8. LedgerOK(g)
  <2> HIDE DEF n, m
  <2> QED BY <1>1, <1>4, <1>5, <1>6, <1>7 DEF LedgerOK
<1>9. AgreeOK(r, g)
  BY <1>1, <1>4, <1>5, <1>6 DEF AgreeOK, Fighting
<1>10. /\ Fighting(v) /\ v.run = r /\ v.fight = g /\ v.room = w.room /\ v.ev = w.ev /\ v.pend = w.pend
  BY <1>1, <1>4, <1>8, <1>9, RefoughtIs
<1> HIDE DEF v
<1>11. Settled(v) /\ Held(w, v)
  BY <1>5, <1>6, <1>10 DEF Settled, Held
<1> QED BY <1>3, <1>11

-----------------------------------------------------------------------------
\* What the dead thieves give back: a fold over the thieves.
SettleOp(p, a, t) == a + (IF t.live = "dead" THEN t.taken ELSE 0)
SettleGood(p, n, a) == a \in Int
SettleFold == INSTANCE FoldFacts WITH Op <- SettleOp, Good <- SettleGood

\* settle_stolen_gold is one.
LEMMA SettlesFold ==
  ASSUME NEW f, NEW p
  PROVE  settle_stolen_gold(f) = SettleFold!Folded(p, 0, f.thieves)
  BY Zenon DEF settle_stolen_gold, SettleFold!Folded, SettleOp, 
               SettleFold!MapThenFoldSet, FoldLeft, MapThenFoldSet, SettleFold!Greatest, Max

\* It is an amount of gold.
LEMMA SettledGold ==
  ASSUME NEW f, ThievesOK(f.thieves) PROVE settle_stolen_gold(f) \in Int
<1> DEFINE s == f.thieves
<1>1. PICK S : s \in Seq(S) /\ \A t \in S : ThiefOK(t)
  BY DEF ThievesOK
<1>2. DOMAIN s = 1..Len(s) /\ \A t \in DOMAIN s : ThiefOK(s[t])
  BY ThiefThere
<1>3. ASSUME NEW i \in 1..Len(s), NEW a, SettleGood(0, i - 1, a)
      PROVE  SettleGood(0, i, SettleOp(0, a, s[i]))
  <2>1. s[i].taken \in Int
    BY <1>2 DEF ThiefOK
  <2> HIDE DEF s
  <2> QED BY <1>3, <2>1 DEF SettleGood, SettleOp
<1>4. SettleGood(0, 0, 0)
  BY DEF SettleGood
<1> HIDE DEF s
<1>5. SettleGood(0, Len(s), SettleFold!Folded(0, 0, s))
  <2> DEFINE p == 0
  <2>1. \A i \in 1..Len(s) : \A a : SettleGood(p, i - 1, a) => SettleGood(p, i, SettleOp(p, a, s[i]))
    BY <1>3
  <2>2. SettleGood(p, 0, p)
    BY <1>4
  <2> HIDE DEF p
  <2>3. SettleGood(p, Len(s), SettleFold!Folded(p, p, s))
    BY <1>1, <2>1, <2>2, SettleFold!FoldKeeps
  <2> QED BY <2>3 DEF p
<1> QED BY <1>5, SettlesFold DEF SettleGood, s

-----------------------------------------------------------------------------
\* The fight is brought home: the run has its health and its counters, and the
\* doll's count is the run's own.
LEMMA FoldedBack ==
  ASSUME NEW w, Settled(w)
  PROVE  LET v == fold_back_combat(w)
         IN  /\ Common(v) /\ v.room = w.room /\ v.ev = w.ev /\ v.pend = w.pend
             /\ v.run.hp = w.fight.hp /\ ThievesOK(v.fight.thieves)
<1> DEFINE u == sync_live_gold(burn_consumed_fairies(drain_pending_potions(w)))
           f == u.fight
           q == InFightRun(u)
           g == [f EXCEPT !.earned = 0, !.banked = 0]
           v == Refought(u, q, g)
<1>1. Fighting(u) /\ Held(w, u)
  <2>1. Settled(drain_pending_potions(w)) /\ Held(w, drain_pending_potions(w))
    BY PotionsIs
  <2> DEFINE x == drain_pending_potions(w)
  <2> HIDE DEF x
  <2>2. Settled(burn_consumed_fairies(x)) /\ Held(x, burn_consumed_fairies(x))
    BY <2>1, BurnIs DEF Settled, x
  <2> DEFINE y == burn_consumed_fairies(x)
  <2> HIDE DEF y
  <2>3. Fighting(sync_live_gold(y)) /\ Held(y, sync_live_gold(y))
    BY <2>2, SyncIs DEF Settled, y
  <2> QED BY <2>1, <2>2, <2>3 DEF Held, x, y
<1>2. fold_back_combat(w) =
        [u EXCEPT !.run.hp = f.hp, !.run.max = f.max, !.run.tail = f.tail,
                  !.run.charm = f.charm, !.run.doll = f.doll, !.fight.earned = 0, !.fight.banked = 0]
  BY Zenon DEF fold_back_combat
<1> HIDE DEF u
<1>3. /\ LedgerOK(f) /\ f = [x \in FightFields |-> f[x]] /\ WShape(u) /\ RunOK(u.run) /\ RunShape(u.run)
      /\ AgreeOK(u.run, f)
  BY <1>1 DEF Fighting, LedgerOK, Common, RunOK, Body
<1>4. fold_back_combat(w) = v
  <2>1. [u EXCEPT !.run.hp = f.hp, !.run.max = f.max, !.run.tail = f.tail,
                  !.run.charm = f.charm, !.run.doll = f.doll, !.fight.earned = 0, !.fight.banked = 0] = v
    BY <1>3 DEF Refought, InFightRun, WShape, WorldFields, FightFields, RunShape, RunFields
  <2> QED BY <1>2, <2>1
<1>5. RunOK(q) /\ q.belt = u.run.belt /\ q.hp = f.hp /\ q.max = f.max /\ q.doll = u.run.doll
  BY <1>1, FightRunIs
<1>6. /\ g = [x \in FightFields |-> g[x]] /\ g.hp = f.hp /\ g.max = f.max /\ g.doll = f.doll
      /\ g.armed = f.armed /\ g.earned = 0 /\ g.banked = 0 /\ g.thieves = f.thieves
      /\ g.cards = f.cards /\ g.potions = f.potions /\ g.over = f.over
  BY <1>3 DEF FightFields
<1> HIDE DEF g, q
<1>7. LedgerOK(g)
  BY <1>3, <1>6 DEF LedgerOK
<1>8. AgreeOK(q, g)
  BY <1>3, <1>5, <1>6 DEF AgreeOK, BeltFairies, LedgerOK
<1>9. Fighting(v) /\ v.run = q /\ v.fight = g /\ v.room = u.room /\ v.ev = u.ev /\ v.pend = u.pend
  BY <1>1, <1>5, <1>7, <1>8, RefoughtIs
<1> HIDE DEF v
<1> QED BY <1>1, <1>4, <1>5, <1>6, <1>7, <1>9 DEF Held, Fighting, LedgerOK

-----------------------------------------------------------------------------
\* A cure arms and disarms nobody.
LEMMA HealSettled ==
  ASSUME NEW w, Settled(w), Standing(w), NEW n \in Nat
  PROVE  LET v == heal_player_with_relics(w, n)
         IN  Settled(v) /\ Standing(v) /\ BattleStep(w, v)
<1> DEFINE v == heal_player_with_relics(w, n)
<1>1. Survives(w, v)
  BY FightHeal
<1>2. v.fight.armed = w.fight.armed
  <2>1. WShape(w) /\ w.fight = [x \in FightFields |-> w.fight[x]]
    BY DEF Standing, Fighting, Common, LedgerOK
  <2> QED BY <2>1 DEF heal_player_with_relics, WShape, WorldFields, FightFields
<1> HIDE DEF v
<1> QED BY <1>1, <1>2 DEF v, Survives, BattleStep, Settled, Standing

\* The relics of a victory.
LEMMA VictoryIs ==
  ASSUME NEW w, Settled(w), Standing(w)
  PROVE  LET v == Victorious(w)
         IN  Settled(v) /\ Standing(v) /\ BattleStep(w, v)
<1> DEFINE bloodied == w.fight.hp > 0 /\ 2 * w.fight.hp <= w.fight.max
           meat == IF Owns(w.run, "meat_on_the_bone") /\ bloodied
                   THEN heal_player_with_relics(w, 12) ELSE w
           blood == CASE meat.fight.hp <= 0 -> meat
                      [] Owns(w.run, "burning_blood") -> heal_player_with_relics(meat, 6)
                      [] Owns(w.run, "black_blood") -> heal_player_with_relics(meat, 12)
                      [] OTHER -> meat
           m == blood.fight.max + 1
           h == Least(blood.fight.hp + 1, m)
           g == [blood.fight EXCEPT !.max = m, !.hp = h]
           v == Booked(blood, g)
<1>1. Victorious(w) = IF Owns(w.run, "face_of_cleric")
                      THEN [blood EXCEPT !.fight.max = @ + 1, !.fight.hp = Least(@ + 1, blood.fight.max + 1)]
                      ELSE blood
  BY Zenon DEF Victorious
<1>2. BattleStep(w, w)
  BY DEF BattleStep, Settled
<1>3. Settled(meat) /\ Standing(meat) /\ BattleStep(w, meat)
  <2>1. LET u == heal_player_with_relics(w, 12) IN Settled(u) /\ Standing(u) /\ BattleStep(w, u)
    BY HealSettled
  <2> QED BY <1>2, <2>1
<1>4. Settled(blood) /\ Standing(blood) /\ BattleStep(w, blood)
  <2> HIDE DEF meat
  <2>1. ASSUME NEW n \in Nat
        PROVE  LET u == heal_player_with_relics(meat, n) IN Settled(u) /\ Standing(u) /\ BattleStep(w, u)
    BY <1>3, HealSettled, BattleTwice
  <2>2. blood \in {meat, heal_player_with_relics(meat, 6), heal_player_with_relics(meat, 12)}
    <3>1. ~(meat.fight.hp <= 0)
      BY <1>3 DEF Standing, Fighting, LedgerOK
    <3> QED BY <3>1
  <2> HIDE DEF blood
  <2> QED BY <1>3, <2>1, <2>2
<1> HIDE DEF blood
<1>5. LedgerOK(blood.fight) /\ WShape(blood) /\ blood.fight = [x \in FightFields |-> blood.fight[x]]
  BY <1>4 DEF Standing, Fighting, Common, LedgerOK
<1>6. [blood EXCEPT !.fight.max = @ + 1, !.fight.hp = Least(@ + 1, blood.fight.max + 1)] = v
  BY <1>5 DEF Booked, WShape, WorldFields, FightFields
<1>7. m \in Nat /\ h \in Nat /\ h > 0 /\ h <= m /\ m >= blood.fight.max
  BY <1>4, <1>5 DEF LedgerOK, Least, Standing
<1> HIDE DEF m, h
<1>8. /\ g = [x \in FightFields |-> g[x]] /\ g.hp = h /\ g.max = m /\ g.doll = blood.fight.doll
      /\ g.armed = blood.fight.armed /\ g.earned = blood.fight.earned /\ g.banked = blood.fight.banked
      /\ g.thieves = blood.fight.thieves /\ g.cards = blood.fight.cards
      /\ g.potions = blood.fight.potions /\ g.over = blood.fight.over
  BY <1>5 DEF FightFields
<1> HIDE DEF g
<1>9. BookStep(blood.fight, g)
  BY <1>5, <1>7, <1>8 DEF BookStep, LedgerOK
<1>10. BattleStep(blood, v) /\ v.fight = g
  BY <1>4, <1>9, BookedIs DEF Standing
<1> HIDE DEF v
<1>11. Settled(v) /\ Standing(v) /\ BattleStep(w, v)
  <2>1. v.run = blood.run /\ Fighting(v)
    BY <1>10 DEF BattleStep
  <2>2. Settled(v) /\ Standing(v)
    BY <1>4, <1>7, <1>8, <1>10, <2>1 DEF Settled, Standing
  <2> QED BY <1>4, <1>10, <2>2, BattleTwice
<1> QED BY <1>1, <1>4, <1>6, <1>11

-----------------------------------------------------------------------------
\* Another phase.
InPhase(w, p) == [w EXCEPT !.phase = p]

\* Nothing else changes with it.
LEMMA PhasedIs ==
  ASSUME NEW w, Common(w), NEW p
  PROVE  LET v == InPhase(w, p)
         IN  /\ Common(v) /\ v.phase = p /\ v.run = w.run /\ v.loot = w.loot /\ v.pend = w.pend
             /\ v.room = w.room /\ v.ev = w.ev /\ v.fight = w.fight
<1> DEFINE v == InPhase(w, p)
<1>1. /\ WShape(v) /\ v.phase = p /\ v.run = w.run /\ v.loot = w.loot /\ v.pend = w.pend
      /\ v.room = w.room /\ v.ev = w.ev /\ v.fight = w.fight
  BY DEF InPhase, Common, WShape, WorldFields
<1> HIDE DEF v
<1> QED BY <1>1 DEF v, Common

\* The rewards of a fight that the player has come through.
LEMMA RewardsSound ==
  ASSUME NEW w, Settled(w), Standing(w)
  PROVE  AllSound(RewardsOf(w))
<1> DEFINE u == Victorious(w)
           v == fold_back_combat(u)
           x == InPhase(v, "reward")
           outcome == CASE w.fight.mugged /\ have_monsters_escaped(w.fight) -> "monsters_escaped"
                        [] w.fight.smoked /\ ~w.fight.mugged -> "player_escaped"
                        [] OTHER -> "killed"
           n == settle_stolen_gold(v.fight)
<1>1. Settled(u) /\ Standing(u) /\ BattleStep(w, u)
  BY VictoryIs
<1>2. RewardsOf(w) = assemble_combat_rewards([v EXCEPT !.phase = "reward"], outcome, n)
  BY Zenon DEF RewardsOf
<1> HIDE DEF outcome, u
<1>3. /\ Common(v) /\ v.room = u.room /\ v.run.hp = u.fight.hp /\ ThievesOK(v.fight.thieves)
  BY <1>1, FoldedBack
<1> HIDE DEF v
<1>4. n \in Int
  BY <1>3, SettledGold
<1>5. Common(x) /\ x.phase = "reward" /\ x.room = v.room /\ x.run = v.run
  BY <1>3, PhasedIs
<1>6. x.room \in FightRooms /\ x.run.hp > 0
  BY <1>1, <1>3, <1>5 DEF Standing, Fighting, EntryOK
<1>7. RewardsOf(w) = assemble_combat_rewards(x, outcome, n)
  BY <1>2 DEF InPhase
<1> HIDE DEF x, n
<1>8. ASSUME NEW y \in RewardsOf(w) PROVE Sound(y)
  <2>1. Stays(x, y)
    BY <1>4, <1>5, <1>6, <1>7, <1>8, RewardsStay
  <2> QED BY <1>5, <1>6, <2>1, OutIsSound DEF Stays, Alive
<1> QED BY <1>8 DEF AllSound

\* The first fight of the Colosseum opens its dialog again.
LEMMA ReopenSound ==
  ASSUME NEW w, Settled(w), Standing(w), event_combat_reopens(w)
  PROVE  Sound(event_combat_reopen(fold_back_combat(Victorious(w))))
<1> DEFINE u == Victorious(w)
           v == fold_back_combat(u)
           c == ClearLoot(v)
           x == InPhase(c, "dialog")
<1>1. Settled(u) /\ Standing(u) /\ BattleStep(w, u)
  BY VictoryIs
<1> HIDE DEF u
<1>2. Common(v) /\ v.room = u.room /\ v.run.hp = u.fight.hp /\ v.ev = u.ev /\ v.pend = u.pend
  BY <1>1, FoldedBack
<1> HIDE DEF v
<1>3. Common(c) /\ c.run = v.run /\ c.pend = v.pend /\ c.room = v.room /\ c.ev = v.ev
  BY <1>2, ClearRooms DEF Roomed, Stays
<1> HIDE DEF c
<1>4. Common(x) /\ x.phase = "dialog" /\ x.run = v.run /\ x.pend = v.pend /\ x.room = v.room /\ x.ev = v.ev
  BY <1>3, PhasedIs
<1>5. event_combat_reopen(v) = x
  BY DEF event_combat_reopen, InPhase, c
<1> HIDE DEF x
<1>6. x.run.hp > 0 /\ x.ev = w.ev /\ x.pend = w.pend /\ x.room = w.room
  BY <1>1, <1>2, <1>4 DEF Standing, BattleStep
<1>7. x.ev.id = "colosseum" /\ x.ev.screen = 2 /\ x.ev.grid = "none" /\ x.pend = "none" /\ x.room = "event"
  BY <1>6 DEF event_combat_reopens, Settled, Fighting, EntryOK
<1>8. SpecialOf(x.ev, x.run)
  BY <1>7, PlainPage DEF Plain
<1>9. DialogOK(x)
  BY <1>7, <1>8 DEF DialogOK, EvOK, Events, FinalPage, GridsOf
<1>10. Sound(x)
  BY <1>4, <1>6, <1>9 DEF Sound, Phases, Spoken
<1> QED BY <1>5, <1>10 DEF v, u

\* A fight lost, won in a dialog that goes on, or won.
LEMMA FinishSound ==
  ASSUME NEW w, Settled(w)
  PROVE  AllSound(finish_combat_after_action(w))
<1>1. w.fight.hp \in Nat
  BY DEF Settled, Fighting, LedgerOK
<1>2. CASE ~w.fight.over
  <2>1. Sound(w)
    BY <1>2 DEF Sound, Settled, FightOK, Fighting, Phases
  <2>2. finish_combat_after_action(w) = {w}
    BY <1>2 DEF finish_combat_after_action
  <2> QED BY <2>1, <2>2 DEF AllSound
<1>3. CASE w.fight.over /\ w.fight.hp <= 0
  <2> DEFINE v == fold_back_combat(w)
             x == InPhase(v, "over")
  <2>1. {x} = finish_combat_after_action(w)
    <3>1. w.fight.over /\ w.fight.hp <= 0 /\ ~(w.fight.hp > 0)
      BY <1>1, <1>3
    <3> DEFINE y == [fold_back_combat(w) EXCEPT !.phase = "over"]
    <3>2. x = y
      BY Zenon DEF InPhase
    <3> HIDE DEF x
    <3>3. finish_combat_after_action(w) = {[fold_back_combat(w) EXCEPT !.phase = "over"]}
      BY <3>1 DEF finish_combat_after_action
    <3> QED BY <3>2, <3>3 DEF y
  <2>2. Common(v)
    BY FoldedBack
  <2> HIDE DEF v
  <2>3. Common(x) /\ x.phase = "over"
    BY <2>2, PhasedIs
  <2> HIDE DEF x
  <2> QED BY <2>1, <2>3, OutIsSound DEF AllSound
<1>4. CASE w.fight.over /\ w.fight.hp > 0
  <2>1. Standing(w)
    BY <1>4 DEF Standing, Settled
  <2>2. CASE w.room = "event" /\ event_combat_reopens(w)
    <3> DEFINE x == event_combat_reopen(fold_back_combat(Victorious(w)))
    <3>1. Sound(x)
      BY <2>1, <2>2, ReopenSound
    <3>2. finish_combat_after_action(w) = {x}
      <4>1. w.fight.over /\ w.fight.hp > 0 /\ ~(w.fight.hp <= 0)
        BY <1>1, <1>4
      <4> HIDE DEF x
      <4>2. finish_combat_after_action(w) = {event_combat_reopen(fold_back_combat(Victorious(w)))}
        BY <2>2, <4>1 DEF finish_combat_after_action
      <4> QED BY <4>2 DEF x
    <3> HIDE DEF x
    <3> QED BY <3>1, <3>2 DEF AllSound
  <2>3. CASE ~(w.room = "event" /\ event_combat_reopens(w))
    <3>1. finish_combat_after_action(w) = RewardsOf(w)
      <4>1. w.fight.over /\ w.fight.hp > 0 /\ ~(w.fight.hp <= 0)
        BY <1>1, <1>4
      <4> QED BY <2>3, <4>1 DEF finish_combat_after_action
    <3> QED BY <2>1, <3>1, RewardsSound
  <2> QED BY <2>2, <2>3
<1> QED BY <1>1, <1>2, <1>3, <1>4

\* The command's end, in the order of its calls.
LEMMA EndsSound ==
  ASSUME NEW w, Fighting(w)
  PROVE  AllSound(CommandEnds(w))
<1> DEFINE booked == burn_consumed_fairies(sync_live_gold(w))
           drained == drain_pending_potions(drain_pending_obtains(booked))
           no == FALSE
           f == drained.fight
           g == [f EXCEPT !.mid = no]
           v == Booked(drained, g)
<1>1. Settled(booked)
  <2>1. Fighting(sync_live_gold(w))
    BY SyncIs
  <2> DEFINE x == sync_live_gold(w)
  <2> HIDE DEF x
  <2>2. Settled(burn_consumed_fairies(x))
    BY <2>1, BurnIs DEF x
  <2> QED BY <2>2 DEF x
<1>2. CommandEnds(w) = finish_combat_after_action([drained EXCEPT !.fight.mid = FALSE])
  BY Zenon DEF CommandEnds
<1> HIDE DEF booked
<1>3. Settled(drained)
  BY <1>1, ObtainsIs, PotionsIs
<1> HIDE DEF drained
<1>4. LedgerOK(f) /\ f = [x \in FightFields |-> f[x]] /\ WShape(drained)
  BY <1>3 DEF Settled, Fighting, LedgerOK, Common
<1>5. [drained EXCEPT !.fight.mid = FALSE] = v
  BY <1>4 DEF Booked, WShape, WorldFields
<1>6. BookStep(f, g) /\ g.armed = f.armed
  <2> HIDE DEF no
  <2> QED BY <1>4 DEF LedgerOK, BookStep, FightFields
<1> HIDE DEF g, no
<1>7. BattleStep(drained, v) /\ v.fight = g
  BY <1>3, <1>6, BookedIs DEF Settled
<1> HIDE DEF v
<1>8. Settled(v)
  BY <1>3, <1>6, <1>7 DEF Settled, BattleStep
<1> QED BY <1>2, <1>5, <1>8, FinishSound

-----------------------------------------------------------------------------
\* A slot that holds no Fairy is emptied.
LEMMA EmptiedIs ==
  ASSUME NEW w, Settled(w), NEW i, i \notin BeltFairies(w.run)
  PROVE  LET v == Emptied(w, i)
         IN  Settled(v) /\ v.fight = w.fight /\ Held(w, v) /\ Belted(w.run, v.run)
<1> DEFINE r == ClearSlot(w.run, i)
           f == w.fight
           v == Refought(w, r, f)
<1>1. /\ Fighting(w) /\ LedgerOK(f) /\ WShape(w) /\ RunOK(w.run) /\ AgreeOK(w.run, f)
      /\ f.armed = Cardinality(BeltFairies(w.run))
  BY DEF Settled, Fighting, Common
<1>2. Belted(w.run, r) /\ Cardinality(BeltFairies(r)) = Cardinality(BeltFairies(w.run))
  BY <1>1, FairyCleared
<1>3. Emptied(w, i) = v
  BY <1>1 DEF Emptied, On, Refought, WShape, WorldFields
<1> HIDE DEF r
<1>4. RunOK(r) /\ AgreeOK(r, f)
  BY <1>1, <1>2 DEF AgreeOK, Belted
<1>5. /\ Fighting(v) /\ v.run = r /\ v.fight = f /\ v.room = w.room /\ v.ev = w.ev /\ v.pend = w.pend
  BY <1>1, <1>4, RefoughtIs
<1> HIDE DEF v
<1>6. Settled(v) /\ Held(w, v) /\ Belted(w.run, v.run)
  BY <1>1, <1>2, <1>5 DEF Settled, Held
<1> QED BY <1>3, <1>5, <1>6

\* Toy Ornithopter in a fight.
ToyedFight(v) == IF Owns(v.run, "ornithopter") THEN heal_player_with_relics(v, 5) ELSE v

\* It cures, or does nothing.
LEMMA ToyStands ==
  ASSUME NEW w, Standing(w)
  PROVE  Standing(ToyedFight(w)) /\ (Settled(w) => Settled(ToyedFight(w)))
<1> DEFINE v == heal_player_with_relics(w, 5)
<1>1. Standing(v) /\ (Settled(w) => Settled(v))
  BY FightHeal, HealSettled DEF Survives
<1> HIDE DEF v
<1>2. ToyedFight(w) = v \/ ToyedFight(w) = w
  BY DEF ToyedFight, v
<1> QED BY <1>1, <1>2

\* Smoke Bomb goes to the rewards.
LEMMA SmokedSound ==
  ASSUME NEW w, Settled(w), Standing(w), NEW i, w.run.belt[i] = "smoke"
  PROVE  AllSound(Smoked(w, i))
<1> DEFINE e == Emptied(w, i)
           f == e.fight
           g == [f EXCEPT !.over = TRUE, !.smoked = TRUE]
           out == Booked(e, g)
<1>1. i \notin BeltFairies(w.run)
  BY DEF BeltFairies
<1>2. Settled(e) /\ e.fight = w.fight /\ Belted(w.run, e.run)
  BY <1>1, EmptiedIs
<1>3. Smoked(w, i) = LET o == [e EXCEPT !.fight.over = TRUE, !.fight.smoked = TRUE]
                     IN  RewardsOf(IF Owns(w.run, "ornithopter") THEN heal_player_with_relics(o, 5) ELSE o)
  BY Zenon DEF Smoked
<1> HIDE DEF e
<1>4. LedgerOK(f) /\ f.hp > 0 /\ WShape(e) /\ f = [x \in FightFields |-> f[x]] /\ Fighting(e)
  BY <1>2 DEF Standing, Settled, Fighting, Common, LedgerOK
<1>5. [e EXCEPT !.fight.over = TRUE, !.fight.smoked = TRUE] = out
  BY <1>4 DEF Booked, WShape, WorldFields, FightFields
<1>6. BookStep(f, g) /\ g.hp = f.hp
  BY <1>4, SmokeBooks
<1>7. g.armed = f.armed
  BY <1>4 DEF FightFields
<1> HIDE DEF g
<1>8. BattleStep(e, out) /\ out.fight = g
  BY <1>4, <1>6, BookedIs
<1> HIDE DEF out
<1>9. Settled(out) /\ Standing(out) /\ out.run = e.run
  BY <1>2, <1>4, <1>6, <1>7, <1>8 DEF Settled, Standing, BattleStep
<1>10. Settled(ToyedFight(out)) /\ Standing(ToyedFight(out))
  BY <1>9, ToyStands
<1>11. Owns(w.run, "ornithopter") = Owns(out.run, "ornithopter")
  BY <1>2, <1>9 DEF Owns, Belted
<1>12. Smoked(w, i) = RewardsOf(ToyedFight(out))
  BY <1>3, <1>5, <1>11, Zenon DEF ToyedFight
<1> QED BY <1>10, <1>12, RewardsSound

\* Fruit Juice in a fight.
LEMMA JuicedIs ==
  ASSUME NEW w, Standing(w)
  PROVE  Standing(Juiced(w))
<1> DEFINE f == w.fight
           n == Potency(w.run, 5)
           m == f.max + n
           g == [f EXCEPT !.max = m, !.hp = f.hp + n]
           r == [w.run EXCEPT !.max = m]
           v == Refought(w, r, g)
<1>1. /\ Fighting(w) /\ LedgerOK(f) /\ WShape(w) /\ RunOK(w.run) /\ AgreeOK(w.run, f) /\ f.hp > 0
      /\ f = [x \in FightFields |-> f[x]] /\ w.run = [x \in RunFields |-> w.run[x]] /\ Vital(w.run)
      /\ f.hp \in Nat /\ f.max \in Nat /\ f.hp <= f.max /\ w.run.hp <= f.max /\ w.run.hp \in Nat
  BY DEF Standing, Fighting, Common, LedgerOK, RunOK, Body, RunShape, AgreeOK, Vital
<1>2. n \in Nat /\ n > 0
  BY DEF Potency
<1>3. Juiced(w) = v
  <2>1. Juiced(w) = [w EXCEPT !.fight.max = @ + n, !.fight.hp = @ + n, !.run.max = w.fight.max + n]
    BY Zenon DEF Juiced
  <2> HIDE DEF n
  <2>2. [w EXCEPT !.fight.max = @ + n, !.fight.hp = @ + n, !.run.max = w.fight.max + n] = v
    BY <1>1 DEF Refought, WShape, WorldFields, FightFields, RunFields
  <2> QED BY <2>1, <2>2
<1> HIDE DEF n
<1>4. /\ RunShape(r) /\ SameCards(w.run, r) /\ r.hp = w.run.hp /\ r.max = m /\ r.gold = w.run.gold
      /\ r.purge = w.run.purge
  BY <1>1 DEF RunShape, RunFields, SameCards
<1>5. /\ g = [x \in FightFields |-> g[x]] /\ g.hp = f.hp + n /\ g.max = m /\ g.doll = f.doll
      /\ g.armed = f.armed /\ g.earned = f.earned /\ g.banked = f.banked /\ g.thieves = f.thieves
      /\ g.cards = f.cards /\ g.potions = f.potions /\ g.over = f.over
  BY <1>1 DEF FightFields
<1>6. m \in Nat /\ m > 0 /\ f.hp + n \in Nat /\ f.hp + n > 0 /\ f.hp + n <= m /\ w.run.hp <= m
  BY <1>1, <1>2
<1> HIDE DEF g, r, m
<1>7. LedgerOK(g) /\ g.hp > 0
  BY <1>1, <1>5, <1>6 DEF LedgerOK
<1>8. Vital(r)
  BY <1>1, <1>4, <1>6 DEF Vital
<1>9. RunOK(r)
  BY <1>1, <1>4, <1>8, BodyOfSame DEF RunOK, DollTrue, SameCards, Owns
<1>10. BeltFairies(r) = BeltFairies(w.run)
  BY <1>4 DEF BeltFairies, SameCards
<1>11. AgreeOK(r, g)
  BY <1>1, <1>4, <1>5, <1>6, <1>10 DEF AgreeOK, SameCards
<1>12. Fighting(v) /\ v.fight = g
  BY <1>1, <1>7, <1>9, <1>11, RefoughtIs
<1> HIDE DEF v
<1> QED BY <1>3, <1>7, <1>12 DEF Standing

-----------------------------------------------------------------------------
\* The rolls of an Entropic Brew fill a list.
LEMMA RollsList ==
  ASSUME NEW r, IsList(r.belt), NEW f \in Rolls(r)
  PROVE  IsList(f)
<1>1. DOMAIN r.belt = 1..Len(r.belt) /\ Len(r.belt) \in Nat
  BY SlotChange
<1>2. f \in [1..Len(r.belt) -> RandomPotions]
  BY <1>1 DEF Rolls
<1>3. f \in Seq(RandomPotions)
  BY <1>1, <1>2
<1> QED BY <1>3 DEF IsList

\* A potion drunk in a fight leaves the player standing.
LEMMA FightDrinkStands ==
  ASSUME NEW w, Settled(w), Standing(w), NEW i, w.run.belt[i] # "fairy"
  PROVE  \A v \in DrunkInFight(w, i) : Standing(v)
<1> DEFINE left == Emptied(w, i)
           p == w.run.belt[i]
           bled == heal_player_with_relics(left, Percent(w.fight.max, Potency(w.run, 20)))
           fed == Juiced(left)
           brewed(f) == [left EXCEPT !.fight.potions = f]
           gone(t) == ThiefGone(left, t, "dead")
           won == Won(left)
<1>1. i \notin BeltFairies(w.run)
  BY DEF BeltFairies
<1>2. Standing(left) /\ InFight(left) = InFight(w)
  BY <1>1, EmptiedIs DEF Standing, Settled, InFight
<1>3. /\ LedgerOK(w.fight) /\ IsList(w.run.belt) /\ w.fight.max \in Nat /\ LedgerOK(left.fight)
      /\ left.fight.hp > 0 /\ WShape(left) /\ left.fight = [x \in FightFields |-> left.fight[x]]
  BY <1>2 DEF Standing, Fighting, Common, RunOK, Body, LedgerOK
<1>4. DrunkInFight(w, i) =
        CASE p = "blood" -> {ToyedFight(bled)}
          [] p = "fruit" -> {ToyedFight(fed)}
          [] p = "brew" -> {ToyedFight(brewed(f)) : f \in Rolls(w.run)}
          [] OTHER -> {ToyedFight(left)} \cup {ToyedFight(gone(t)) : t \in InFight(w)}
               \cup {ToyedFight(won) : t \in {t \in {0} : w.fight.thieves = <<>>}}
  BY Zenon DEF DrunkInFight, ToyedFight
<1>5. Standing(bled)
  <2>1. Percent(w.fight.max, Potency(w.run, 20)) \in Nat
    BY <1>3 DEF Percent, Potency
  <2> HIDE DEF left
  <2> QED BY <1>2, <2>1, FightHeal DEF Survives
<1>6. Standing(fed)
  BY <1>2, JuicedIs
<1>7. \A f \in Rolls(w.run) : Standing(brewed(f))
  <2> TAKE f \in Rolls(w.run)
  <2> DEFINE g == [left.fight EXCEPT !.potions = f]
  <2>1. BookStep(left.fight, g) /\ g.hp = left.fight.hp
    BY <1>3, RollsList, OtherBooks
  <2> HIDE DEF left
  <2>2. brewed(f) = Booked(left, g)
    BY <1>3 DEF Booked, WShape, WorldFields
  <2> HIDE DEF g, brewed
  <2>3. Survives(left, Booked(left, g))
    BY <1>2, <2>1, BookSurvives
  <2> QED BY <2>2, <2>3 DEF Survives
<1>8. \A t \in InFight(w) : Standing(gone(t))
  <2> HIDE DEF left
  <2> QED BY <1>2, ThiefStep DEF Survives
<1>9. Standing(won)
  <2> HIDE DEF left
  <2> QED BY <1>2, PrizeStep DEF Survives
<1> HIDE DEF left, bled, fed, brewed, gone, won
<1>10. \A v : Standing(v) => Standing(ToyedFight(v))
  BY ToyStands
<1>11. CASE p = "blood"
  <2>1. DrunkInFight(w, i) = {ToyedFight(bled)}
    BY <1>4, <1>11
  <2> QED BY <1>5, <1>10, <2>1
<1>12. CASE p = "fruit"
  <2>1. DrunkInFight(w, i) = {ToyedFight(fed)}
    BY <1>4, <1>12
  <2> QED BY <1>6, <1>10, <2>1
<1>13. CASE p = "brew"
  <2>1. DrunkInFight(w, i) = {ToyedFight(brewed(f)) : f \in Rolls(w.run)}
    BY <1>4, <1>13
  <2> QED BY <1>7, <1>10, <2>1
<1>14. CASE p \notin {"blood", "fruit", "brew"}
  <2>1. DrunkInFight(w, i) = {ToyedFight(left)} \cup {ToyedFight(gone(t)) : t \in InFight(w)}
               \cup {ToyedFight(won) : t \in {t \in {0} : w.fight.thieves = <<>>}}
    BY <1>4, <1>14
  <2> QED BY <1>2, <1>8, <1>9, <1>10, <2>1
<1> QED BY <1>11, <1>12, <1>13, <1>14

\* A potion used, in a fight or outside one.
LEMMA PotionSound ==
  ASSUME NEW w, Sound(w), w.phase \notin {"map", "over"}, NEW i,
         combat_potion_legal(w, i) \/ noncombat_potion_legal(w, i)
  PROVE  AllSound(PotionUsed(w, i))
<1>1. CASE w.phase # "fight"
  <2>1. w.run.belt[i] \in {"blood", "fruit", "brew"}
    BY <1>1 DEF combat_potion_legal, noncombat_potion_legal
  <2>2. PotionUsed(w, i) = DrunkAtRest(w, i)
    BY <1>1 DEF PotionUsed
  <2> QED BY <1>1, <2>1, <2>2, RestDrinkSound
<1>2. CASE w.phase = "fight"
  <2>1. w.run.belt[i] \notin {"none", "fairy"} /\ ~w.fight.mid
    BY <1>2 DEF combat_potion_legal, noncombat_potion_legal
  <2>2. Settled(w) /\ Standing(w)
    BY <1>2, <2>1 DEF Sound, FightOK, Settled, Standing, Fighting, LedgerOK
  <2>3. CASE w.run.belt[i] = "smoke"
    <3>1. PotionUsed(w, i) = Smoked(w, i)
      BY <1>2, <2>3 DEF PotionUsed
    <3> QED BY <2>2, <2>3, <3>1, SmokedSound
  <2>4. CASE w.run.belt[i] # "smoke"
    <3>1. PotionUsed(w, i) = UNION {CommandEnds(v) : v \in DrunkInFight(w, i)}
      BY <1>2, <2>4 DEF PotionUsed
    <3>2. \A v \in DrunkInFight(w, i) : AllSound(CommandEnds(v))
      BY <2>1, <2>2, FightDrinkStands, EndsSound DEF Standing
    <3> QED BY <3>1, <3>2 DEF AllSound
  <2> QED BY <2>3, <2>4
<1> QED BY <1>1, <1>2

\* A Fairy thrown away in a fight is no longer armed.
LEMMA FairyThrown ==
  ASSUME NEW w, Settled(w), NEW i \in BeltFairies(w.run)
  PROVE  LET v == PotionDiscarded(w, i)
         IN  Settled(v) /\ Held(w, v)
<1> DEFINE r == ClearSlot(w.run, i)
           f == w.fight
           n == f.armed - 1
           g == [f EXCEPT !.armed = n]
           v == Refought(w, r, g)
<1>1. /\ Fighting(w) /\ LedgerOK(f) /\ WShape(w) /\ RunOK(w.run) /\ AgreeOK(w.run, f)
      /\ f.armed = Cardinality(BeltFairies(w.run)) /\ f = [x \in FightFields |-> f[x]]
  BY DEF Settled, Fighting, Common, LedgerOK
<1>2. Belted(w.run, r) /\ Cardinality(BeltFairies(r)) = Cardinality(BeltFairies(w.run)) - 1
  BY <1>1, FairyCleared
<1>3. RunOK(r) /\ Cardinality(BeltFairies(r)) \in Nat
  BY <1>2, FairiesCount DEF Belted
<1>4. n \in Nat /\ n = Cardinality(BeltFairies(r)) /\ Most(0, f.armed - 1) = n
  BY <1>1, <1>2, <1>3 DEF Most, LedgerOK
<1>5. PotionDiscarded(w, i) = v
  <2>1. w.phase = "fight" /\ w.run.belt[i] = "fairy"
    BY <1>1 DEF Fighting, BeltFairies
  <2>2. PotionDiscarded(w, i) = [On(w, r) EXCEPT !.fight.armed = Most(0, @ - 1)]
    BY <2>1 DEF PotionDiscarded, Emptied
  <2> HIDE DEF r
  <2>3. [On(w, r) EXCEPT !.fight.armed = Most(0, @ - 1)] = [On(w, r) EXCEPT !.fight.armed = n]
    <3>1. On(w, r).fight.armed = f.armed
      BY <1>1 DEF On, WShape, WorldFields
    <3> QED BY <1>4, <3>1
  <2> HIDE DEF n
  <2>4. [On(w, r) EXCEPT !.fight.armed = n] = v
    BY <1>1 DEF On, Refought, WShape, WorldFields, FightFields
  <2> QED BY <2>2, <2>3, <2>4
<1> HIDE DEF r, n
<1>6. /\ g = [x \in FightFields |-> g[x]] /\ g.hp = f.hp /\ g.max = f.max /\ g.doll = f.doll
      /\ g.armed = n /\ g.earned = f.earned /\ g.banked = f.banked /\ g.thieves = f.thieves
      /\ g.cards = f.cards /\ g.potions = f.potions /\ g.over = f.over /\ g.mid = f.mid
  BY <1>1 DEF FightFields
<1> HIDE DEF g
<1>7. LedgerOK(g)
  BY <1>1, <1>4, <1>6 DEF LedgerOK
<1>8. AgreeOK(r, g)
  BY <1>1, <1>2, <1>3, <1>4, <1>6 DEF AgreeOK, Belted
<1>9. /\ Fighting(v) /\ v.run = r /\ v.fight = g /\ v.room = w.room /\ v.ev = w.ev /\ v.pend = w.pend
  BY <1>1, <1>3, <1>7, <1>8, RefoughtIs
<1> HIDE DEF v
<1>10. Settled(v) /\ Held(w, v)
  BY <1>4, <1>6, <1>9 DEF Settled, Held
<1> QED BY <1>5, <1>10

\* A potion thrown away, in a fight or outside one.
LEMMA DiscardSound ==
  ASSUME NEW w, Sound(w), NEW i \in DOMAIN w.run.belt, potion_discard_legal(w, i)
  PROVE  Sound(PotionDiscarded(w, i))
<1> DEFINE v == PotionDiscarded(w, i)
<1>1. CASE w.phase # "fight"
  <2>1. v = On(w, ClearSlot(w.run, i))
    BY <1>1 DEF PotionDiscarded, Emptied
  <2> QED BY <1>1, <2>1, BeltSound
<1>2. CASE w.phase = "fight"
  <2>1. ~w.fight.mid /\ Settled(w) /\ ~w.fight.over
    BY <1>2 DEF potion_discard_legal, Sound, FightOK, Settled
  <2>2. Settled(v) /\ Held(w, v)
    <3>1. CASE i \in BeltFairies(w.run)
      BY <2>1, <3>1, FairyThrown
    <3>2. CASE i \notin BeltFairies(w.run)
      <4>1. v = Emptied(w, i)
        BY <3>2 DEF PotionDiscarded, BeltFairies
      <4> HIDE DEF v
      <4> QED BY <2>1, <3>2, <4>1, EmptiedIs
    <3> QED BY <3>1, <3>2
  <2> HIDE DEF v
  <2>3. FightOK(v) /\ v.phase = "fight" /\ Common(v)
    BY <2>1, <2>2 DEF FightOK, Settled, Held, Fighting
  <2>4. Sound(v)
    BY <2>3 DEF Sound, Phases
  <2> QED BY <2>4 DEF v
<1> QED BY <1>1, <1>2

(***************************************************************************)
(* The choices of each phase.                                              *)
(***************************************************************************)
\* Nothing else is offered while a card is asked for.
LEMMA PendChoices ==
  ASSUME NEW w, w.pend # "none"
  PROVE  LET c == legal_actions(w)
         IN  /\ c.deck = PendCards(w) /\ c.cards = {} /\ c.claim = {} /\ c.options = {} /\ c.wares = {}
             /\ c.buttons = {}
<1>1. legal_actions(w) = Deck(PendCards(w))
  BY DEF legal_actions
<1> QED BY <1>1 DEF Deck, NoChoice

\* A dialog: its grid, or its menu.
LEMMA DialogOffers ==
  ASSUME NEW w, w.pend = "none", w.phase = "dialog"
  PROVE  LET c == legal_actions(w)
         IN  /\ \A i \in c.deck : w.ev.grid # "none" /\ i \in event_grid_card_legal(w)
             /\ \A o \in c.options : w.ev.grid = "none" /\ o \in Menu(w)
             /\ c.cards = {} /\ c.claim = {} /\ c.wares = {} /\ c.buttons = {}
<1> DEFINE menu == Menu(w)
<1>1. legal_actions(w) = DialogChoices(w)
  BY DEF legal_actions
<1>2. DialogChoices(w) = IF w.ev.grid # "none" THEN Deck(event_grid_card_legal(w))
                         ELSE [NoChoice EXCEPT !.options = menu]
  BY Zenon DEF DialogChoices
<1> HIDE DEF menu
<1>3. CASE w.ev.grid # "none"
  <2>1. legal_actions(w) = Deck(event_grid_card_legal(w))
    BY <1>1, <1>2, <1>3
  <2> QED BY <1>3, <2>1 DEF Deck, NoChoice
<1>4. CASE w.ev.grid = "none"
  <2>1. legal_actions(w) = [NoChoice EXCEPT !.options = menu]
    BY <1>1, <1>2, <1>4
  <2> QED BY <1>4, <2>1 DEF NoChoice, menu
<1> QED BY <1>3, <1>4

\* An open row of cards.
LEMMA RowOffers ==
  ASSUME NEW w
  PROVE  LET c == OpenRowChoices(w)
         IN  /\ c.deck = {} /\ c.cards = TakeableCards(w) /\ c.claim = {} /\ c.options = {} /\ c.wares = {}
             /\ c.buttons \subseteq {"skip", "sing"}
  BY DEF OpenRowChoices, NoChoice

\* The reward screen.
LEMMA RewardOffers ==
  ASSUME NEW w
  PROVE  LET c == RewardChoices(w)
         IN  /\ c.deck = {} /\ c.options = {} /\ c.wares = {}
             /\ \A x \in c.cards : w.loot.open # 0 /\ x \in TakeableCards(w)
             /\ \A i \in c.claim : i \in DOMAIN w.loot.rows /\ reward_claim_legal(w, i)
             /\ c.buttons \subseteq {"skip", "sing", "proceed"}
<1>1. CASE w.loot.open # 0
  <2>1. RewardChoices(w) = OpenRowChoices(w)
    BY <1>1 DEF RewardChoices
  <2> QED BY <1>1, <2>1, RowOffers
<1>2. CASE w.loot.open = 0
  <2> DEFINE rows == {i \in DOMAIN w.loot.rows : reward_claim_legal(w, i)}
  <2>1. RewardChoices(w) = [NoChoice EXCEPT !.claim = rows, !.buttons = {"proceed"}]
    BY <1>2 DEF RewardChoices
  <2> HIDE DEF rows
  <2>2. LET c == RewardChoices(w)
        IN  /\ c.deck = {} /\ c.options = {} /\ c.wares = {} /\ c.cards = {} /\ c.claim = rows
            /\ c.buttons = {"proceed"}
    BY <2>1 DEF NoChoice
  <2> QED BY <2>2 DEF rows
<1> QED BY <1>1, <1>2

\* Neow's grid and the boss's chest's.
LEMMA GridOffers ==
  ASSUME NEW w
  PROVE  LET c == GridChoices(w)
         IN  /\ \A i \in c.deck : w.site.screen = "grid" /\ w.site.mode \notin Confirms
             /\ c.cards = {} /\ c.claim = {} /\ c.options = {} /\ c.wares = {} /\ c.buttons \subseteq {"proceed"}
<1>1. CASE w.site.mode \in Confirms
  <2>1. GridChoices(w) = Buttons({"proceed"})
    BY <1>1 DEF GridChoices
  <2> QED BY <2>1 DEF Buttons, NoChoice
<1>2. CASE w.site.mode \notin Confirms
  <2>1. GridChoices(w) = Deck(neow_grid_card_legal(w))
    BY <1>2 DEF GridChoices
  <2>2. \A i \in neow_grid_card_legal(w) : w.site.screen = "grid"
    BY DEF neow_grid_card_legal
  <2> HIDE DEF neow_grid_card_legal
  <2> QED BY <1>2, <2>1, <2>2 DEF Deck, NoChoice
<1> QED BY <1>1, <1>2

\* What one of the screens offers: cards only from an open row, rows only from
\* the reward screen.
Offers(w, c) ==
  /\ \A i \in c.deck : w.site.screen = "grid" /\ w.site.mode \notin Confirms
  /\ \A x \in c.cards : x \in TakeableCards(w)
  /\ \A i \in c.claim : \/ i \in DOMAIN w.loot.rows /\ reward_claim_legal(w, i)
                        \/ w.phase = "chest" /\ w.site.screen = "select"
  /\ c.wares = {}
  /\ \A o \in c.options : w.phase = "neow" /\ o \in Blessings

\* The rooms that have a grid.
LEMMA GridRoomOffers ==
  ASSUME NEW w, w.pend = "none", GridRoom(w)
  PROVE  /\ Offers(w, legal_actions(w))
         /\ legal_actions(w).buttons \subseteq {"skip", "sing", "proceed", "open", "cancel"}
         /\ w.phase = "neow" => legal_actions(w).buttons \subseteq {"skip", "sing", "proceed"}
<1> DEFINE c == legal_actions(w)
           rewards == RewardChoices(w)
           grid == GridChoices(w)
           row == OpenRowChoices(w)
<1>1. CASE w.phase = "neow"
  <2>1. c = NeowChoices(w) /\ w.site.screen \in NeowScreens
    BY <1>1 DEF legal_actions, GridRoom, GridSite
  <2>2. NeowChoices(w) =
          CASE w.site.screen = "blessing" -> [NoChoice EXCEPT !.options = Blessings]
            [] w.site.screen = "card"  -> row
            [] w.site.screen = "grid"  -> grid
            [] w.site.screen = "items" -> rewards
            [] w.site.screen = "done"  -> Buttons({"proceed"})
    BY Zenon DEF NeowChoices
  <2> HIDE DEF c, rewards, grid, row
  <2>3. CASE w.site.screen = "blessing"
    <3>1. c = [NoChoice EXCEPT !.options = Blessings]
      BY <2>1, <2>2, <2>3
    <3> QED BY <1>1, <3>1 DEF c, NoChoice, Offers
  <2>4. CASE w.site.screen = "card"
    <3>1. c = row
      BY <2>1, <2>2, <2>4
    <3> QED BY <3>1, RowOffers DEF c, row, Offers
  <2>5. CASE w.site.screen = "grid"
    <3>1. c = grid
      BY <2>1, <2>2, <2>5
    <3> QED BY <3>1, GridOffers DEF c, grid, Offers
  <2>6. CASE w.site.screen = "items"
    <3>1. c = rewards
      BY <2>1, <2>2, <2>6
    <3> QED BY <3>1, RewardOffers DEF c, rewards, Offers
  <2>7. CASE w.site.screen = "done"
    <3>1. c = Buttons({"proceed"})
      BY <2>1, <2>2, <2>7
    <3> QED BY <3>1 DEF c, Buttons, NoChoice, Offers
  <2> QED BY <2>1, <2>3, <2>4, <2>5, <2>6, <2>7 DEF NeowScreens
<1>2. CASE w.phase = "chest"
  <2> DEFINE relics == [NoChoice EXCEPT !.claim = DOMAIN w.site.relics, !.buttons = {"cancel"}]
  <2>1. c = ChestChoices(w) /\ w.site.screen \in ChestScreens
    BY <1>2 DEF legal_actions, GridRoom, GridSite
  <2>2. ChestChoices(w) =
          CASE w.site.screen = "closed" -> Buttons({"open", "proceed"})
            [] w.site.screen = "select" -> relics
            [] w.site.screen = "grid"  -> grid
            [] w.site.screen = "items" -> rewards
            [] w.site.screen = "done"  -> Buttons({"proceed"})
    BY Zenon DEF ChestChoices
  <2> HIDE DEF c, rewards, grid, row
  <2>3. CASE w.site.screen = "closed"
    <3>1. c = Buttons({"open", "proceed"})
      <4> HIDE DEF relics
      <4> QED BY <2>1, <2>2, <2>3
    <3> QED BY <1>2, <3>1 DEF c, Buttons, NoChoice, Offers
  <2>4. CASE w.site.screen = "select"
    <3>1. c = relics
      <4> HIDE DEF relics
      <4> QED BY <2>1, <2>2, <2>4
    <3> QED BY <1>2, <2>4, <3>1 DEF c, NoChoice, Offers
  <2>5. CASE w.site.screen = "grid"
    <3>1. c = grid
      <4> HIDE DEF relics
      <4> QED BY <2>1, <2>2, <2>5
    <3> QED BY <1>2, <3>1, GridOffers DEF c, grid, Offers
  <2>6. CASE w.site.screen = "items"
    <3>1. c = rewards
      <4> HIDE DEF relics
      <4> QED BY <2>1, <2>2, <2>6
    <3> QED BY <1>2, <3>1, RewardOffers DEF c, rewards, Offers
  <2>7. CASE w.site.screen = "done"
    <3>1. c = Buttons({"proceed"})
      <4> HIDE DEF relics
      <4> QED BY <2>1, <2>2, <2>7
    <3> QED BY <1>2, <3>1 DEF c, Buttons, NoChoice, Offers
  <2> QED BY <2>1, <2>3, <2>4, <2>5, <2>6, <2>7 DEF ChestScreens
<1> QED BY <1>1, <1>2 DEF GridRoom

-----------------------------------------------------------------------------
\* The campfire.
LEMMA RestOffers ==
  ASSUME NEW w, w.pend = "none", w.phase = "rest"
  PROVE  LET c == legal_actions(w)
         IN  /\ c.deck \subseteq RestCards(w) /\ c.options \subseteq UsableOptions(w.run)
             /\ c.claim = {} /\ c.wares = {}
             /\ \A x \in c.cards : w.site.screen = "dream" /\ x \in TakeableCards(w)
             /\ \A b \in c.buttons : IF w.site.screen = "dream" THEN b \in {"skip", "sing"} ELSE b = "cancel"
<1> DEFINE c == legal_actions(w)
           menu == [NoChoice EXCEPT !.options = UsableOptions(w.run)]
           cards == [NoChoice EXCEPT !.deck = RestCards(w), !.buttons = {"cancel"}]
           row == OpenRowChoices(w)
<1>1. c = RestChoices(w)
  BY DEF legal_actions
<1>2. RestChoices(w) =
        CASE w.site.screen = "menu" -> menu
          [] w.site.screen = "dream" -> row
          [] OTHER -> cards
  BY Zenon DEF RestChoices
<1> HIDE DEF c, menu, cards, row
<1>3. CASE w.site.screen = "menu"
  <2>1. c = menu
    BY <1>1, <1>2, <1>3
  <2>2. /\ menu.deck = {} /\ menu.options = UsableOptions(w.run) /\ menu.claim = {} /\ menu.wares = {}
        /\ menu.cards = {} /\ menu.buttons = {}
    BY DEF menu, NoChoice
  <2> QED BY <2>1, <2>2 DEF c
<1>4. CASE w.site.screen = "dream"
  <2>1. c = row
    BY <1>1, <1>2, <1>4
  <2>2. /\ row.deck = {} /\ row.cards = TakeableCards(w) /\ row.claim = {} /\ row.options = {}
        /\ row.wares = {} /\ row.buttons \subseteq {"skip", "sing"}
    BY RowOffers DEF row
  <2> QED BY <1>4, <2>1, <2>2 DEF c
<1>5. CASE w.site.screen \notin {"menu", "dream"}
  <2>1. c = cards
    BY <1>1, <1>2, <1>5
  <2>2. /\ cards.deck = RestCards(w) /\ cards.options = {} /\ cards.claim = {} /\ cards.wares = {}
        /\ cards.cards = {} /\ cards.buttons = {"cancel"}
    BY DEF cards, NoChoice
  <2> QED BY <1>5, <2>1, <2>2 DEF c
<1> QED BY <1>3, <1>4, <1>5

\* The shop.
LEMMA ShopOffers ==
  ASSUME NEW w, w.pend = "none", w.phase = "shop"
  PROVE  LET c == legal_actions(w)
         IN  /\ c.deck \subseteq PurgeableUnbottled(w.run) /\ c.wares \subseteq DOMAIN w.site.wares
             /\ c.claim = {} /\ c.options = {} /\ c.cards = {}
             /\ c.buttons \subseteq {"cancel", "proceed", "purge"}
<1> DEFINE c == legal_actions(w)
           goods == {i \in DOMAIN w.site.wares : shop_buy_legal(w, i)}
           ways == {"proceed"} \cup (IF shop_purge_legal(w) THEN {"purge"} ELSE {})
           grid == [NoChoice EXCEPT !.deck = PurgeableUnbottled(w.run), !.buttons = {"cancel"}]
           shelf == [NoChoice EXCEPT !.wares = goods, !.buttons = ways]
<1>1. c = ShopChoices(w)
  BY DEF legal_actions
<1>2. ShopChoices(w) = IF w.site.screen = "purge" THEN grid ELSE shelf
  BY Zenon DEF ShopChoices
<1>3. goods \subseteq DOMAIN w.site.wares /\ ways \subseteq {"proceed", "purge"}
  OBVIOUS
<1> HIDE DEF goods, ways, c
<1>4. /\ grid.deck = PurgeableUnbottled(w.run) /\ grid.wares = {} /\ grid.claim = {} /\ grid.options = {}
      /\ grid.cards = {} /\ grid.buttons = {"cancel"}
  BY DEF NoChoice
<1>5. /\ shelf.deck = {} /\ shelf.wares = goods /\ shelf.claim = {} /\ shelf.options = {}
      /\ shelf.cards = {} /\ shelf.buttons = ways
  BY DEF NoChoice
<1> HIDE DEF grid, shelf
<1> QED BY <1>1, <1>2, <1>3, <1>4, <1>5 DEF c

\* The treasure chest.
LEMMA TreasureOffers ==
  ASSUME NEW w, w.pend = "none", w.phase = "treasure"
  PROVE  LET c == legal_actions(w)
         IN  /\ c.deck = {} /\ c.claim = {} /\ c.options = {} /\ c.cards = {} /\ c.wares = {}
             /\ c.buttons \subseteq {"proceed", "open"}
<1> DEFINE ways == {"proceed"} \cup (IF treasure_chest_open_legal(w.run) THEN {"open"} ELSE {})
<1>1. legal_actions(w) = Buttons(ways)
  BY DEF legal_actions
<1>2. ways \subseteq {"proceed", "open"}
  OBVIOUS
<1> HIDE DEF ways
<1> QED BY <1>1, <1>2 DEF Buttons, NoChoice

\* The other phases, where no screen is up.
LEMMA NoOffers ==
  ASSUME NEW w, w.pend = "none", w.phase \in {"map", "over", "fight", "entering"}
  PROVE  LET c == legal_actions(w)
         IN  /\ c.deck = {} /\ c.claim = {} /\ c.options = {} /\ c.cards = {} /\ c.wares = {}
             /\ c.buttons = {}
<1>1. legal_actions(w) = NoChoice
  BY DEF legal_actions
<1> QED BY <1>1 DEF NoChoice

\* A sound world is in one of the phases above.
LEMMA SoundPhase ==
  ASSUME NEW w, Sound(w)
  PROVE  /\ w.phase \in {"dialog", "reward", "rest", "treasure", "shop", "neow", "chest"}
              \cup {"map", "over", "fight", "entering"}
         /\ w.phase \in {"neow", "chest"} => GridRoom(w)
         /\ w.phase = "shop" => Keeping(w)
         /\ w.phase \in {"reward", "rest", "treasure", "shop", "neow", "chest", "dialog"} => w.run.hp > 0
         /\ Common(w) /\ WShape(w)
  BY DEF Sound, Phases, Spoken, GridRoom, Keeping, Common

\* The rows that may be claimed, wherever the reward screen is.
LEMMA ClaimOffered ==
  ASSUME NEW w, Sound(w), NEW i \in legal_actions(w).claim,
         ~(w.phase = "chest" /\ w.site.screen = "select")
  PROVE  w.phase \in Rooms /\ i \in DOMAIN w.loot.rows /\ reward_claim_legal(w, i)
<1>1. w.pend = "none"
  BY PendChoices
<1>2. CASE w.phase = "reward"
  <2>1. legal_actions(w) = RewardChoices(w)
    BY <1>1, <1>2 DEF legal_actions
  <2> QED BY <1>2, <2>1, RewardOffers DEF Rooms
<1>3. CASE w.phase \in {"neow", "chest"}
  BY <1>1, <1>3, SoundPhase, GridRoomOffers DEF Offers, Rooms
<1>4. w.phase \notin {"dialog", "rest", "shop", "treasure", "map", "over", "fight", "entering"}
  BY <1>1, DialogOffers, RestOffers, ShopOffers, TreasureOffers, NoOffers
<1> QED BY <1>2, <1>3, <1>4, SoundPhase

\* The cards that may be taken, wherever a row is open.
LEMMA CardOffered ==
  ASSUME NEW w, Sound(w), NEW x \in legal_actions(w).cards
  PROVE  /\ w.pend = "none" /\ IsCard(x) /\ w.phase \in {"reward", "neow", "chest", "rest"}
         /\ w.phase = "rest" => w.site.screen = "dream"
<1>1. w.pend = "none"
  BY PendChoices
<1>2. w.phase \notin {"dialog", "shop", "treasure", "map", "over", "fight", "entering"}
  BY <1>1, DialogOffers, ShopOffers, TreasureOffers, NoOffers
<1>3. /\ w.phase \in {"reward", "neow", "chest", "rest"} /\ x \in TakeableCards(w)
      /\ w.phase = "rest" => w.site.screen = "dream"
  <2>1. w.phase = "reward" => x \in TakeableCards(w)
    <3>1. w.phase = "reward" => legal_actions(w) = RewardChoices(w)
      BY <1>1 DEF legal_actions
    <3> QED BY <3>1, RewardOffers
  <2>2. w.phase \in {"neow", "chest"} => x \in TakeableCards(w)
    BY <1>1, SoundPhase, GridRoomOffers DEF Offers
  <2>3. w.phase = "rest" => x \in TakeableCards(w) /\ w.site.screen = "dream"
    BY <1>1, RestOffers
  <2> QED BY <1>2, <2>1, <2>2, <2>3, SoundPhase
<1>4. IsCard(x)
  <2>1. x \in OpenCards(w) /\ LootOK(w.loot)
    BY <1>3, SoundPhase DEF TakeableCards, Common
  <2>2. w.loot.open # 0 /\ x \in w.loot.rows[w.loot.open].cards
    BY <2>1 DEF OpenCards
  <2>3. w.loot.open \in DOMAIN w.loot.rows
    BY <2>1, <2>2, RowsThere
  <2>4. RowOK(w.loot.rows[w.loot.open])
    BY <2>1, <2>3, RowsThere
  <2> QED BY <2>2, <2>4 DEF RowOK
<1> QED BY <1>1, <1>3, <1>4

-----------------------------------------------------------------------------
\* The buttons, and the screens they are on.
LEMMA ButtonOffered ==
  ASSUME NEW w, Sound(w), NEW b \in legal_actions(w).buttons
  PROVE  /\ w.pend = "none" /\ w.phase \in {"reward", "neow", "chest", "rest", "shop", "treasure"}
         /\ b \in {"sing", "skip"} => /\ w.phase \in {"reward", "neow", "chest", "rest"}
                                      /\ w.phase = "rest" => w.site.screen = "dream"
         /\ b = "cancel" => w.phase \in {"rest", "shop", "chest"}
         /\ b = "purge" => w.phase = "shop"
<1>1. w.pend = "none"
  BY PendChoices
<1>2. w.phase = "reward" => b \in {"skip", "sing", "proceed"}
  <2>1. w.phase = "reward" => legal_actions(w) = RewardChoices(w)
    BY <1>1 DEF legal_actions
  <2> QED BY <2>1, RewardOffers
<1>3. w.phase \in {"neow", "chest"} => b \in {"skip", "sing", "proceed", "open", "cancel"}
  BY <1>1, SoundPhase, GridRoomOffers
<1>4. w.phase = "neow" => b \in {"skip", "sing", "proceed"}
  BY <1>1, SoundPhase, GridRoomOffers
<1>5. w.phase = "rest" => IF w.site.screen = "dream" THEN b \in {"skip", "sing"} ELSE b = "cancel"
  BY <1>1, RestOffers
<1>6. w.phase = "shop" => b \in {"cancel", "proceed", "purge"}
  BY <1>1, ShopOffers
<1>7. w.phase = "treasure" => b \in {"proceed", "open"}
  BY <1>1, TreasureOffers
<1>8. w.phase \notin {"dialog", "map", "over", "fight", "entering"}
  BY <1>1, DialogOffers, NoOffers
<1> QED BY <1>1, <1>2, <1>3, <1>4, <1>5, <1>6, <1>7, <1>8, SoundPhase

(***************************************************************************)
(* The actions.                                                            *)
(***************************************************************************)
\* The world of the variables.
LEMMA WorldIs ==
  /\ WShape(World) /\ World.run = run /\ World.phase = phase /\ World.room = room /\ World.ev = event
  /\ World.site = site /\ World.loot = loot /\ World.fight = fight /\ World.pend = pend
  BY DEF World, WShape, WorldFields

\* A step to a sound world.
SoundStep == \E w : Sound(w) /\ Become(w)

\* After it the world of the variables is sound.
LEMMA SoundAfter ==
  ASSUME SoundStep PROVE Sound(World)'
<1>1. PICK w : Sound(w) /\ Become(w)
  BY DEF SoundStep
<1>2. World' = w
  BY <1>1 DEF World, Become, Sound, Common, WShape, WorldFields
<1>3. Sound(World')
  BY <1>1, <1>2
<1> QED BY <1>3

\* An option of a dialog; a fight it leads to begins at once.
LEMMA ChooseStep ==
  ASSUME Sound(World), Choose PROVE SoundStep
<1> DEFINE u == World
<1>1. Sound(u) /\ u.phase = "dialog" /\ u.pend = "none" /\ u.run.hp > 0
  BY WorldIs DEF Choose, Open, Sound
<1>2. PICK o \in legal_actions(u).options : \E w \in Chosen(u, o) : Become(Entered(w))
  BY DEF Choose, Legal
<1>3. PICK w \in Chosen(u, o) : Become(Entered(w))
  BY <1>2
<1> HIDE DEF u
<1>4. u.ev.grid = "none" /\ o \in Menu(u)
  BY <1>1, DialogOffers
<1>5. Safe(u)
  BY <1>1 DEF Sound, Safe, Spoken
<1>6. Safe(w)
  BY <1>1, <1>4, <1>5, ChosenSafe DEF AllSafe
<1>7. Sound(Entered(w))
  <2>1. CASE w.phase = "entering"
    <3>1. Sound(enter_combat(w))
      BY <1>6, <2>1, CombatEntered DEF Safe
    <3> QED BY <2>1, <3>1 DEF Entered
  <2>2. CASE w.phase # "entering"
    BY <1>6, <2>2, SafeIsSound DEF Entered
  <2> QED BY <2>1, <2>2
<1> QED BY <1>3, <1>7 DEF SoundStep

\* A card picked from an event's grid.
LEMMA PickCardStep ==
  ASSUME Sound(World), PickCard PROVE SoundStep
<1> DEFINE u == World
<1>1. Sound(u) /\ u.phase = "dialog" /\ u.pend = "none" /\ u.run.hp > 0
  BY WorldIs DEF PickCard, Open, Sound
<1>2. PICK i \in legal_actions(u).deck : \E w \in GridPicked(u, i) : Become(w)
  BY DEF PickCard, Legal
<1> HIDE DEF u
<1>3. i \in event_grid_card_legal(u)
  BY <1>1, DialogOffers
<1>4. Safe(u)
  BY <1>1 DEF Sound, Safe, Spoken
<1>5. \A w \in GridPicked(u, i) : Sound(w)
  BY <1>1, <1>3, <1>4, GridPickedSafe, SafeIsSound DEF AllSafe
<1> QED BY <1>2, <1>5 DEF SoundStep

\* The belt.
LEMMA BeltStep ==
  ASSUME Sound(World), UsePotion \/ Discard PROVE SoundStep
<1> DEFINE u == World
<1>1. Sound(u) /\ u.run = run /\ u.phase = phase /\ u.phase \notin {"map", "over"}
  BY WorldIs DEF UsePotion, Discard, Live
<1>2. CASE UsePotion
  <2>1. PICK i \in DOMAIN u.run.belt : /\ combat_potion_legal(u, i) \/ noncombat_potion_legal(u, i)
                                       /\ \E w \in PotionUsed(u, i) : Become(w)
    BY <1>1, <1>2 DEF UsePotion
  <2> HIDE DEF u
  <2>2. \A w \in PotionUsed(u, i) : Sound(w)
    BY <1>1, <2>1, PotionSound DEF AllSound
  <2> QED BY <2>1, <2>2 DEF SoundStep
<1>3. CASE Discard
  <2>1. PICK i \in DOMAIN u.run.belt : potion_discard_legal(u, i) /\ Become(PotionDiscarded(u, i))
    BY <1>1, <1>3 DEF Discard
  <2> HIDE DEF u
  <2>2. Sound(PotionDiscarded(u, i))
    BY <1>1, <2>1, DiscardSound
  <2> QED BY <2>1, <2>2 DEF SoundStep
<1> QED BY <1>2, <1>3

\* The card that was asked for.
LEMMA GiveStep ==
  ASSUME Sound(World), GiveCard PROVE SoundStep
<1> DEFINE u == World
<1>1. Sound(u) /\ u.pend = pend /\ u.pend # "none"
  BY WorldIs DEF GiveCard
<1>2. PICK i \in legal_actions(u).deck :
        Become(IF pend = "mirror" THEN step_deck_pick(u, i) ELSE step_bottle_pick(u, i))
  BY DEF GiveCard, Legal
<1> HIDE DEF u
<1>3. i \in PendCards(u)
  BY <1>1, PendChoices
<1>4. Sound(step_deck_pick(u, i)) /\ Sound(step_bottle_pick(u, i))
  BY <1>1, <1>3, GiveSound
<1> QED BY <1>2, <1>4 DEF SoundStep

-----------------------------------------------------------------------------
\* A row of the reward screen, and the request its relic makes.
LEMMA ClaimStep ==
  ASSUME Sound(World), Claim PROVE SoundStep
<1> DEFINE u == World
<1>1. Sound(u) /\ u.pend = pend /\ u.phase = phase /\ u.site = site
  BY WorldIs
<1>2. PICK i \in legal_actions(u).claim : \E w \in claim_reward(u, i) : Become(apply_claim_equip_request(w))
  BY DEF Claim, Legal
<1>3. u.pend = "none"
  <2> HIDE DEF u
  <2> QED BY <1>2, PendChoices
<1>4. ~(u.phase = "chest" /\ u.site.screen = "select")
  BY <1>1, <1>3 DEF Claim, Selecting, Open
<1> HIDE DEF u
<1>5. u.phase \in Rooms /\ i \in DOMAIN u.loot.rows /\ reward_claim_legal(u, i)
  BY <1>1, <1>2, <1>4, ClaimOffered
<1>6. Common(u)
  BY <1>1 DEF Sound
<1>7. ASSUME NEW w \in claim_reward(u, i) PROVE Sound(apply_claim_equip_request(w))
  <2>1. Stays(u, w)
    BY <1>5, <1>6, <1>7, ClaimRooms
  <2>2. Sound(w) /\ w.phase \in Rooms
    BY <1>1, <1>5, <2>1, StaysSound DEF Stays
  <2> QED BY <2>2, RequestSound
<1> QED BY <1>2, <1>7 DEF SoundStep

\* A card taken from an open row: in a dream, in Neow's deal, or on the reward
\* screen.
LEMMA TakeStep ==
  ASSUME Sound(World), TakeCard PROVE SoundStep
<1> DEFINE u == World
<1>1. Sound(u) /\ u.pend = pend /\ u.phase = phase /\ u.site = site
  BY WorldIs
<1>2. PICK c \in legal_actions(u).cards :
        Become(CASE Dreaming -> DreamTaken(u, c) [] NeowDeals -> CardTaken(u, c)
                 [] OTHER -> reward_take_card(u, c))
  BY DEF TakeCard, Legal
<1> HIDE DEF u
<1>3. /\ u.pend = "none" /\ IsCard(c) /\ u.phase \in {"reward", "neow", "chest", "rest"}
      /\ u.phase = "rest" => u.site.screen = "dream"
  BY <1>1, <1>2, CardOffered
<1>4. Common(u) /\ (u.phase \in {"neow", "chest"} => GridRoom(u))
  BY <1>1, SoundPhase
<1>5. Sound(DreamTaken(u, c))
  BY <1>3, <1>4, CampfireSound
<1>6. NeowDeals => Sound(CardTaken(u, c))
  BY <1>1, <1>3, <1>4, DealtKept, GridRoomIsSound DEF NeowDeals, Open
<1>7. ~Dreaming => Sound(reward_take_card(u, c))
  <2>1. Stays(u, reward_take_card(u, c))
    BY <1>3, <1>4, CardRooms
  <2>2. ~Dreaming => u.phase # "rest"
    BY <1>1, <1>3 DEF Dreaming, Open
  <2> QED BY <1>1, <1>3, <2>1, <2>2, StaysSound DEF Rooms
<1>8. ~(Dreaming /\ NeowDeals)
  BY DEF Dreaming, NeowDeals, Open
<1>9. CASE Dreaming
  <2>1. Become(DreamTaken(u, c))
    BY <1>2, <1>8, <1>9
  <2> QED BY <1>5, <2>1 DEF SoundStep
<1>10. CASE NeowDeals
  <2>1. Become(CardTaken(u, c))
    BY <1>2, <1>8, <1>10
  <2> QED BY <1>6, <1>10, <2>1 DEF SoundStep
<1>11. CASE ~Dreaming /\ ~NeowDeals
  <2>1. Become(reward_take_card(u, c))
    BY <1>2, <1>11
  <2> QED BY <1>7, <1>11, <2>1 DEF SoundStep
<1> QED BY <1>9, <1>10, <1>11

\* The song of the bowl, and a row left.
LEMMA SingStep ==
  ASSUME Sound(World), Sing \/ Skip PROVE SoundStep
<1> DEFINE u == World
<1>1. Sound(u) /\ u.pend = pend /\ u.phase = phase /\ u.site = site
  BY WorldIs
<1>2. \/ /\ "sing" \in legal_actions(u).buttons
         /\ Become(CASE Dreaming -> DreamSung(u) [] NeowDeals -> CardSung(u) [] OTHER -> reward_sing(u))
      \/ /\ "skip" \in legal_actions(u).buttons
         /\ Become(CASE Dreaming -> DreamSkipped(u) [] NeowDeals -> neow_skip_card(u)
                     [] OTHER -> reward_skip_card(u))
  BY DEF Sing, Skip, Legal
<1> HIDE DEF u
<1>3. /\ u.pend = "none" /\ u.phase \in {"reward", "neow", "chest", "rest"}
      /\ u.phase = "rest" => u.site.screen = "dream"
  BY <1>1, <1>2, ButtonOffered
<1>4. Common(u) /\ (u.phase \in {"neow", "chest"} => GridRoom(u))
  BY <1>1, SoundPhase
<1>5. Sound(DreamSung(u)) /\ Sound(DreamSkipped(u))
  BY <1>4, CampfireSound
<1>6. NeowDeals => Sound(CardSung(u)) /\ Sound(neow_skip_card(u))
  BY <1>1, <1>3, <1>4, DealtKept, GridRoomIsSound DEF NeowDeals, Open
<1>7. ~Dreaming => Sound(reward_sing(u)) /\ Sound(reward_skip_card(u))
  <2>1. Stays(u, reward_sing(u)) /\ Stays(u, reward_skip_card(u))
    BY <1>4, CardRooms
  <2>2. ~Dreaming => u.phase # "rest"
    BY <1>1, <1>3 DEF Dreaming, Open
  <2> QED BY <1>1, <1>3, <2>1, <2>2, StaysSound DEF Rooms
<1>8. ~(Dreaming /\ NeowDeals)
  BY DEF Dreaming, NeowDeals, Open
<1>9. CASE Dreaming
  <2>1. Become(DreamSung(u)) \/ Become(DreamSkipped(u))
    BY <1>2, <1>8, <1>9
  <2> QED BY <1>5, <2>1 DEF SoundStep
<1>10. CASE NeowDeals
  <2>1. Become(CardSung(u)) \/ Become(neow_skip_card(u))
    BY <1>2, <1>8, <1>10
  <2> QED BY <1>6, <1>10, <2>1 DEF SoundStep
<1>11. CASE ~Dreaming /\ ~NeowDeals
  <2>1. Become(reward_sing(u)) \/ Become(reward_skip_card(u))
    BY <1>2, <1>11
  <2> QED BY <1>7, <1>11, <2>1 DEF SoundStep
<1> QED BY <1>9, <1>10, <1>11

\* On, or out.
LEMMA ProceedStep ==
  ASSUME Sound(World), Proceed PROVE SoundStep
<1> DEFINE u == World
<1>1. Sound(u) /\ u.phase = phase /\ u.room = room
  BY WorldIs
<1>2. \/ /\ u.phase = "reward"
         /\ Become(IF room = "boss" THEN BossChestEnter(ClearLoot(u))
                   ELSE [ClearLoot(u) EXCEPT !.phase = "map"])
      \/ /\ u.phase \in {"neow", "chest"}
         /\ Become(ItemsLeft(u)) \/ Become(GridConfirm(u))
      \/ Become(NeowLeaves(u)) \/ Become(leave_boss_chest(u)) \/ Become(TreasureLeft(u))
      \/ u.phase = "shop" /\ Become(ShopLeft(u))
  BY <1>1 DEF Proceed
<1> HIDE DEF u
<1>3. /\ Common(u) /\ (u.phase \in {"neow", "chest"} => GridRoom(u)) /\ (u.phase = "shop" => Keeping(u))
      /\ u.phase = "reward" => u.run.hp > 0
  BY <1>1, SoundPhase
<1>4. CASE /\ u.phase = "reward"
           /\ Become(IF room = "boss" THEN BossChestEnter(ClearLoot(u))
                     ELSE [ClearLoot(u) EXCEPT !.phase = "map"])
  <2> DEFINE c == ClearLoot(u)
             m == [c EXCEPT !.phase = "map"]
  <2>1. Common(c) /\ c.run.hp > 0
    BY <1>3, <1>4, ClearRooms
  <2>2. Sound(m)
    BY <1>3, LeftSound
  <2> HIDE DEF m, c
  <2>3. Sound(BossChestEnter(c))
    BY <2>1, ChestEnterSound
  <2>4. Become(BossChestEnter(c)) \/ Become(m)
    BY <1>4 DEF c, m
  <2> QED BY <2>2, <2>3, <2>4 DEF SoundStep
<1>5. CASE u.phase \in {"neow", "chest"} /\ (Become(ItemsLeft(u)) \/ Become(GridConfirm(u)))
  BY <1>3, <1>5, DealtKept, ConfirmKept, GridRoomIsSound DEF SoundStep
<1>6. CASE Become(NeowLeaves(u)) \/ Become(leave_boss_chest(u)) \/ Become(TreasureLeft(u))
  BY <1>3, <1>6, NeowDoors DEF SoundStep
<1>7. CASE u.phase = "shop" /\ Become(ShopLeft(u))
  BY <1>3, <1>7, PurgeSound DEF SoundStep
<1> QED BY <1>2, <1>4, <1>5, <1>6, <1>7

\* A grid closed again.
LEMMA CancelStep ==
  ASSUME Sound(World), Cancel PROVE SoundStep
<1> DEFINE u == World
           s == [u.site EXCEPT !.screen = "menu"]
           v == Furnished(u, s)
<1>1. Sound(u) /\ u.phase = phase
  BY WorldIs
<1>2. /\ "cancel" \in legal_actions(u).buttons
      /\ Become(CASE phase = "rest" -> [u EXCEPT !.site.screen = "menu"]
                  [] phase = "shop" -> PurgeClosed(u)
                  [] phase = "chest" -> close_boss_chest(u))
  BY DEF Cancel, Legal
<1> HIDE DEF u
<1>3. u.phase \in {"rest", "shop", "chest"}
  BY <1>1, <1>2, ButtonOffered
<1>4. /\ Common(u) /\ (u.phase \in {"neow", "chest"} => GridRoom(u)) /\ (u.phase = "shop" => Keeping(u))
      /\ u.run.hp > 0
  BY <1>1, <1>3, SoundPhase
<1>5. CASE phase = "rest"
  <2>1. [u EXCEPT !.site.screen = "menu"] = v
    BY <1>4 DEF Furnished, Common, WShape, WorldFields
  <2> HIDE DEF s
  <2>2. Sound(v)
    BY <1>1, <1>4, <1>5, FurnishedIs, OutIsSound
  <2>3. Become(v)
    <3> HIDE DEF v
    <3> QED BY <1>2, <1>5, <2>1
  <2> QED BY <2>2, <2>3 DEF SoundStep
<1>6. CASE phase = "shop"
  <2>1. Become(PurgeClosed(u))
    BY <1>2, <1>6
  <2> QED BY <1>1, <1>4, <1>6, <2>1, PurgeSound DEF SoundStep
<1>7. CASE phase = "chest"
  <2>1. Become(close_boss_chest(u))
    BY <1>2, <1>7
  <2> QED BY <1>1, <1>4, <1>7, <2>1, ScreensKept, GridRoomIsSound DEF SoundStep
<1> QED BY <1>1, <1>3, <1>5, <1>6, <1>7

-----------------------------------------------------------------------------
\* The campfire.
LEMMA RestStep ==
  ASSUME Sound(World), Rest PROVE SoundStep
<1> DEFINE u == World
<1>1. Sound(u) /\ u.phase = "rest" /\ u.pend = "none"
  BY WorldIs DEF Rest, Open
<1>2. \/ \E o \in legal_actions(u).options : \E w \in RestOption(u, o) : Become(w)
      \/ \E i \in legal_actions(u).deck : Become(RestPick(u, i))
  BY DEF Rest, Legal
<1> HIDE DEF u
<1>3. Common(u) /\ u.run.hp > 0
  BY <1>1, SoundPhase
<1>4. \A o \in legal_actions(u).options : \A w \in RestOption(u, o) : Sound(w)
  BY <1>1, <1>3, RestOffers, RestOptionSound DEF AllSound
<1>5. \A i \in legal_actions(u).deck : Sound(RestPick(u, i))
  BY <1>1, <1>3, RestOffers, CampfireSound
<1> QED BY <1>2, <1>4, <1>5 DEF SoundStep

\* The shop.
LEMMA BuyStep ==
  ASSUME Sound(World), Buy PROVE SoundStep
<1> DEFINE u == World
<1>1. Sound(u) /\ u.phase = phase /\ u.pend = pend
  BY WorldIs
<1>2. \/ \E i \in legal_actions(u).wares : \E w \in shop_buy(u, i) : Become(w)
      \/ "purge" \in legal_actions(u).buttons /\ Become(PurgeOpened(u))
      \/ u.phase = "shop" /\ u.pend = "none" /\ \E i \in legal_actions(u).deck : Become(shop_purge_card(u, i))
  BY <1>1 DEF Buy, Legal, Open
<1> HIDE DEF u
<1>3. u.phase = "shop" => Keeping(u)
  BY <1>1, SoundPhase
<1>4. ASSUME NEW i \in legal_actions(u).wares, NEW w \in shop_buy(u, i) PROVE Sound(w)
  <2>1. u.pend = "none"
    BY <1>4, PendChoices
  <2>2. u.phase \notin {"dialog", "rest", "treasure", "map", "over", "fight", "entering"}
    BY <1>4, <2>1, DialogOffers, RestOffers, TreasureOffers, NoOffers
  <2>3. u.phase # "reward"
    <3>1. u.phase = "reward" => legal_actions(u) = RewardChoices(u)
      BY <2>1 DEF legal_actions
    <3> QED BY <1>4, <3>1, RewardOffers
  <2>4. u.phase \notin {"neow", "chest"}
    BY <1>1, <1>4, <2>1, SoundPhase, GridRoomOffers DEF Offers
  <2>5. u.phase = "shop"
    BY <1>1, <2>2, <2>3, <2>4, SoundPhase
  <2>6. i \in DOMAIN u.site.wares
    BY <1>4, <2>1, <2>5, ShopOffers
  <2> QED BY <1>3, <1>4, <2>5, <2>6, BuySound DEF AllSound
<1>5. "purge" \in legal_actions(u).buttons => Sound(PurgeOpened(u))
  BY <1>1, <1>3, ButtonOffered, PurgeSound
<1>6. ASSUME u.phase = "shop", u.pend = "none", NEW i \in legal_actions(u).deck
      PROVE  Sound(shop_purge_card(u, i))
  BY <1>3, <1>6, ShopOffers, PurgeSound
<1> QED BY <1>2, <1>4, <1>5, <1>6 DEF SoundStep

\* The chests.
LEMMA ChestStep ==
  ASSUME Sound(World), OpenChest \/ PickRelic PROVE SoundStep
<1> DEFINE u == World
<1>1. Sound(u) /\ u.phase = phase
  BY WorldIs
<1>2. \/ u.phase = "treasure" /\ \E w \in open_treasure_chest(u) : Become(w)
      \/ u.phase = "chest" /\ Become(open_boss_chest(u))
      \/ u.phase = "chest" /\ \E i \in legal_actions(u).claim : \E w \in BossRelicPicked(u, i) : Become(w)
  BY <1>1 DEF OpenChest, PickRelic, Selecting, Open, Legal
<1> HIDE DEF u
<1>3. Common(u) /\ (u.phase = "chest" => GridRoom(u)) /\ (u.phase = "treasure" => u.run.hp > 0)
  BY <1>1, SoundPhase
<1>4. u.phase = "treasure" => \A w \in open_treasure_chest(u) : Sound(w)
  BY <1>3, TreasureOpenSound DEF AllSound
<1>5. u.phase = "chest" => Sound(open_boss_chest(u))
  BY <1>3, ScreensKept, GridRoomIsSound
<1>6. u.phase = "chest" => \A i : \A w \in BossRelicPicked(u, i) : Sound(w)
  BY <1>3, BossRelicKept, GridRoomIsSound
<1> QED BY <1>2, <1>4, <1>5, <1>6 DEF SoundStep

\* Neow's blessing, and the grid he shares with the boss's chest.
LEMMA BlessStep ==
  ASSUME Sound(World), Bless \/ PickGrid PROVE SoundStep
<1> DEFINE u == World
<1>1. Sound(u) /\ u.phase = phase /\ u.pend = pend
  BY WorldIs
<1>2. \/ /\ u.phase = "neow" /\ u.pend = "none"
         /\ \E b \in legal_actions(u).options : \E w \in neow_activate(u, b[1], b[2]) : Become(w)
      \/ /\ u.phase \in {"neow", "chest"} /\ u.pend = "none"
         /\ \E i \in legal_actions(u).deck : \E w \in neow_grid_pick(u, i) : Become(w)
  BY <1>1 DEF Bless, PickGrid, Open, Legal
<1> HIDE DEF u
<1>3. u.phase \in {"neow", "chest"} => GridRoom(u)
  BY <1>1, SoundPhase
<1>4. ASSUME u.phase = "neow", u.pend = "none", NEW b \in legal_actions(u).options,
             NEW w \in neow_activate(u, b[1], b[2])
      PROVE  Sound(w)
  <2>1. b \in Blessings
    BY <1>3, <1>4, GridRoomOffers DEF Offers
  <2> QED BY <1>3, <1>4, <2>1, BlessingKept, GridRoomIsSound
<1>5. ASSUME u.phase \in {"neow", "chest"}, u.pend = "none", NEW i \in legal_actions(u).deck,
             NEW w \in neow_grid_pick(u, i)
      PROVE  Sound(w)
  <2>1. u.site.screen = "grid" /\ u.site.mode \notin Confirms
    BY <1>3, <1>5, GridRoomOffers DEF Offers
  <2> QED BY <1>3, <1>5, <2>1, GridPickKept, GridRoomIsSound
<1> QED BY <1>2, <1>4, <1>5 DEF SoundStep

\* What happens in a fight, and the end of a command there.
LEMMA FightStep ==
  ASSUME Sound(World), Happen \/ EndCommand PROVE SoundStep
<1> DEFINE u == World
<1>1. Sound(u) /\ u.phase = "fight"
  BY WorldIs DEF Happen, EndCommand, Open
<1>2. \/ FightGoesOn(u) /\ \E w \in Happened(u) : Become(w)
      \/ \E w \in CommandEnds(u) : Become(w)
  BY DEF Happen, EndCommand
<1> HIDE DEF u
<1>3. FightOK(u) /\ Fighting(u)
  BY <1>1 DEF Sound, FightOK
<1>4. FightGoesOn(u) => \A w \in Happened(u) : Sound(w)
  BY <1>3, HappenedSound DEF AllSound
<1>5. \A w \in CommandEnds(u) : Sound(w)
  BY <1>3, EndsSound DEF AllSound
<1> QED BY <1>2, <1>4, <1>5 DEF SoundStep

\* Every step of the specification.
LEMMA NextSound ==
  ASSUME Sound(World), [Next]_vars PROVE Sound(World)'
<1>1. CASE Over \/ UNCHANGED vars
  <2>1. World' = World
    BY <1>1 DEF Over, vars, World
  <2>2. Sound(World')
    BY <2>1
  <2> QED BY <2>2
<1>2. CASE Choose \/ PickCard \/ UsePotion \/ Discard \/ GiveCard
  BY <1>2, ChooseStep, PickCardStep, BeltStep, GiveStep, SoundAfter
<1>3. CASE Claim \/ TakeCard \/ Sing \/ Skip \/ Proceed \/ Cancel
  BY <1>3, ClaimStep, TakeStep, SingStep, ProceedStep, CancelStep, SoundAfter
<1>4. CASE Rest \/ Buy \/ OpenChest \/ PickRelic \/ Bless \/ PickGrid
  BY <1>4, RestStep, BuyStep, ChestStep, BlessStep, SoundAfter
<1>5. CASE Happen \/ EndCommand
  BY <1>5, FightStep, SoundAfter
<1> QED BY <1>1, <1>2, <1>3, <1>4, <1>5 DEF Next

(***************************************************************************)
(* The door of a room, and the theorems.                                   *)
(***************************************************************************)
\* The run of a visit.
LEMMA VisitRun ==
  ASSUME NEW v \in Visits
  PROVE  RunOK(v.run) /\ v.run.hp > 0
<1> DEFINE r == v.run
<1>1. /\ r \in Runs /\ r.hp \in 1..r.max /\ (Owns(r, "doll") => r.doll = Curses(r.deck))
  BY VisitsAssumption
<1>2. /\ r = [x \in RunFields |-> r[x]] /\ r.hp \in Nat /\ r.max \in Nat /\ r.gold \in Nat
      /\ r.purge \in Nat /\ r.deck \in Seq(Cards) /\ r.belt \in Seq(STRING)
  BY <1>1 DEF Runs, RunFields
<1> HIDE DEF r
<1>3. \A c \in Cards : IsCard(c)
  BY DEF Cards, IsCard
<1>4. IsDeck(r.deck) /\ IsList(r.belt)
  BY <1>2, <1>3 DEF IsDeck, IsList
<1>5. RunOK(r) /\ r.hp > 0
  BY <1>1, <1>2, <1>4 DEF RunOK, Body, RunShape, Vital, DollTrue
<1> QED BY <1>5 DEF r

\* The relics at the door.
LEMMA DoorKeeps ==
  ASSUME NEW r, RunOK(r), NEW where
  PROVE  Kept(r, dispatch_on_enter_room_relics(r, where))
<1> DEFINE head == IF where = "event" /\ Owns(r, "sssserpent") THEN GainGold(r, 50) ELSE r
           maw == IF Owns(head, "maw_bank") /\ head.maw THEN GainGold(head, 12) ELSE head
           n == (Len(maw.deck) \div 5) * 3
           last == IF where = "rest" /\ Owns(maw, "eternal_feather") THEN HealOutOfCombat(maw, n) ELSE maw
<1>1. dispatch_on_enter_room_relics(r, where) = last
  BY Zenon DEF dispatch_on_enter_room_relics
<1>2. Kept(r, head)
  BY Moves
<1> HIDE DEF head
<1>3. RunOK(head)
  BY <1>2 DEF Kept
<1>4. Kept(head, maw)
  BY <1>3, Moves
<1> HIDE DEF maw
<1>5. RunOK(maw) /\ IsDeck(maw.deck)
  BY <1>4 DEF Kept, RunOK, Body
<1>6. n \in Nat
  <2> DEFINE k == Len(maw.deck)
  <2>1. k \in Nat
    BY <1>5, DeckPlaces
  <2> HIDE DEF k
  <2>2. (k \div 5) * 3 \in Nat
    BY <2>1
  <2> QED BY <2>2 DEF k
<1> HIDE DEF n
<1>7. Kept(maw, maw) /\ Kept(maw, HealOutOfCombat(maw, n))
  <2> DEFINE q == HealOutOfCombat(maw, n)
  <2>1. Body(q) /\ SameCards(maw, q) /\ Alive(maw, q)
    BY <1>5, <1>6, Healing DEF RunOK
  <2> HIDE DEF q
  <2>2. Kept(maw, q)
    BY <1>5, <2>1, KeptOfSame DEF Doored
  <2> QED BY <1>5, <2>2, Moves DEF q
<1>8. Kept(maw, last)
  BY <1>7
<1> HIDE DEF last
<1>9. Kept(r, last)
  BY <1>2, <1>4, <1>8, KeptTwice
<1> QED BY <1>1, <1>9

\* The world at the door.
AtDoor(r, where) ==
  [run |-> r, phase |-> "none", room |-> where, ev |-> NoEvent, site |-> NoSite,
   loot |-> NoLoot, fight |-> NoFight, pend |-> "none"]

ToFight(w, foes) == [w EXCEPT !.fight.foes = foes]
ToTalk(w, id) == [w EXCEPT !.phase = "dialog", !.ev.id = id]

\* It is in order, and so are the fight and the dialog behind it.
LEMMA DoorIs ==
  ASSUME NEW r, RunOK(r), r.hp > 0, NEW where, NEW id, NEW foes
  PROVE  LET w == AtDoor(r, where)
             x == ToFight(w, foes)
             y == ToTalk(w, id)
         IN  /\ Common(w) /\ w.run = r /\ (where = "event" /\ id \in Events => Opened(y, id))
             /\ Common(x) /\ x.run = r /\ x.room = where /\ x.pend = "none" /\ x.ev = NoEvent
<1> DEFINE w == AtDoor(r, where)
           x == ToFight(w, foes)
           y == ToTalk(w, id)
<1>1. /\ WShape(w) /\ w.run = r /\ w.room = where /\ w.pend = "none" /\ w.ev = NoEvent
      /\ w.loot = NoLoot /\ w.phase = "none" /\ w.fight = NoFight
  BY DEF AtDoor, WShape, WorldFields
<1> HIDE DEF w
<1>2. EvShape(NoEvent) /\ LootOK(NoLoot)
  BY NoLootOK DEF NoEvent, EvShape, EvFields
<1>3. Common(w)
  BY <1>1, <1>2 DEF Common
<1>4. where = "event" /\ id \in Events => Opened(y, id)
  <2>1. /\ WShape(y) /\ y.run = r /\ y.room = where /\ y.pend = "none" /\ y.loot = NoLoot
        /\ y.phase = "dialog" /\ y.ev = [NoEvent EXCEPT !.id = id]
    BY <1>1 DEF WShape, WorldFields, ToFight, ToTalk
  <2> HIDE DEF y
  <2>2. y.ev = Words(id, 0, 0, 0, <<>>)
    BY <2>1 DEF NoEvent, Words
  <2> QED BY <1>2, <2>1, <2>2 DEF Opened
<1>5. Common(x) /\ x.run = r /\ x.room = where /\ x.pend = "none" /\ x.ev = NoEvent
  <2>1. /\ WShape(x) /\ x.run = r /\ x.room = where /\ x.pend = "none" /\ x.loot = NoLoot /\ x.ev = NoEvent
    BY <1>1 DEF WShape, WorldFields, ToFight, ToTalk
  <2> HIDE DEF x
  <2> QED BY <1>2, <2>1 DEF Common
<1> HIDE DEF x, y
<1>6. Common(w) /\ w.run = r
  BY <1>1, <1>3
<1> QED BY <1>4, <1>5, <1>6 DEF w, x, y

\* Through the door of any room.
LEMMA EntrySound ==
  ASSUME NEW v \in Visits
  PROVE  AllSound(on_player_entry(v))
<1> DEFINE r == dispatch_on_enter_room_relics(v.run, v.room)
           w == AtDoor(r, v.room)
           x == ToFight(w, v.what)
           y == ToTalk(w, v.what)
<1>1. Kept(v.run, r) /\ v.run.hp > 0
  BY VisitRun, DoorKeeps
<1>2. on_player_entry(v) =
        CASE v.room \in DOMAIN RoomGold -> {enter_combat(x)}
          [] v.room = "event" -> EventEnter(y)
          [] v.room = "rest" -> RestEnter(w)
          [] v.room = "shop" -> ShopEnter(w)
          [] v.room = "treasure" -> TreasureEnter(w)
          [] v.room = "neow" -> NeowEnter(w)
  BY Zenon DEF on_player_entry, AtDoor, ToFight, ToTalk
<1>3. v.room \in VisitedRooms /\ (v.room = "event" => v.what \in Events)
  BY VisitsAssumption
<1>4. DOMAIN RoomGold = {"monster", "elite", "burning", "boss"}
  BY DEF RoomGold
<1> HIDE DEF r
<1>5. RunOK(r) /\ r.hp > 0
  BY <1>1 DEF Kept, Alive
<1>6. /\ Common(w) /\ w.run = r /\ (v.room = "event" => Opened(y, v.what))
      /\ Common(x) /\ x.run = r /\ x.room = v.room /\ x.pend = "none" /\ x.ev = NoEvent
  BY <1>3, <1>5, DoorIs
<1> HIDE DEF w, x, y
<1>7. CASE v.room \in DOMAIN RoomGold
  <2>1. on_player_entry(v) = {enter_combat(x)}
    BY <1>2, <1>4, <1>7
  <2>2. ~event_combat_reopens(x)
    BY <1>6 DEF event_combat_reopens, NoEvent
  <2>3. EntryOK(x)
    BY <1>6, <1>7, <2>2 DEF EntryOK, FightRooms
  <2>4. Sound(enter_combat(x))
    BY <1>5, <1>6, <2>3, CombatEntered
  <2> QED BY <2>1, <2>4 DEF AllSound
<1>8. CASE v.room = "event"
  <2>1. on_player_entry(v) = EventEnter(y)
    BY <1>2, <1>4, <1>8
  <2>2. \A z \in EventEnter(y) : Sound(z)
    BY <1>6, <1>8, EventEnterSafe, SafeIsSound DEF AllSafe
  <2> QED BY <2>1, <2>2 DEF AllSound
<1>9. CASE v.room = "rest"
  <2>1. on_player_entry(v) = RestEnter(w)
    BY <1>2, <1>4, <1>9
  <2> QED BY <1>5, <1>6, <2>1, RestEnterSound
<1>10. CASE v.room = "shop"
  <2>1. on_player_entry(v) = ShopEnter(w)
    BY <1>2, <1>4, <1>10
  <2> QED BY <1>5, <1>6, <2>1, ShopEnterSound
<1>11. CASE v.room = "treasure"
  <2>1. on_player_entry(v) = TreasureEnter(w)
    BY <1>2, <1>4, <1>11
  <2> QED BY <1>5, <1>6, <2>1, TreasureEnterSound
<1>12. CASE v.room = "neow"
  <2>1. on_player_entry(v) = NeowEnter(w)
    BY <1>2, <1>4, <1>12
  <2> QED BY <1>5, <1>6, <2>1, NeowDoors
<1> QED BY <1>3, <1>7, <1>8, <1>9, <1>10, <1>11, <1>12 DEF VisitedRooms

\* The invariant of a visit: in every phase the run is in order, and what the
\* phase relies on is there.
THEOREM VisitSound == Spec => []Sound(World)
<1>1. Init => Sound(World)
  <2> SUFFICES ASSUME Init PROVE Sound(World)
    OBVIOUS
  <2>1. PICK v \in Visits : \E w \in on_player_entry(v) : Is(w)
    BY DEF Init
  <2>2. PICK w \in on_player_entry(v) : Is(w)
    BY <2>1
  <2>3. Sound(w)
    BY EntrySound DEF AllSound
  <2>4. World = w
    BY <2>2, <2>3 DEF World, Is, Sound, Common, WShape, WorldFields
  <2> QED BY <2>3, <2>4
<1>2. Sound(World) /\ [Next]_vars => Sound(World)'
  BY NextSound
<1> QED BY <1>1, <1>2, PTL DEF Spec

\* Outside a fight nobody goes on without health or in debt, whatever dialog,
\* purchase, potion or relic took the last of it; nor does a fight wait for a
\* command of the dead (apply_event_damage, step_one).
THEOREM LivingHaveHealth == Spec => []LivingRunsHaveHealth
<1>1. Sound(World) => LivingRunsHaveHealth
  <2> SUFFICES ASSUME Sound(World) PROVE LivingRunsHaveHealth
    OBVIOUS
  <2>1. /\ RunOK(run)
        /\ phase \notin {"map", "over", "fight"} => run.hp > 0
        /\ phase = "fight" => FightOK(World)
    BY WorldIs DEF Sound, Common
  <2>2. Live /\ phase # "fight" => run.hp \in 1..run.max /\ run.gold >= 0
    BY <2>1 DEF Live, RunOK, Body, Vital
  <2>3. phase = "fight" /\ ~fight.mid => fight.hp \in 1..fight.max
    <3>1. FightOK(World) /\ ~fight.mid => LedgerOK(fight) /\ ~fight.over
      BY WorldIs DEF FightOK, Fighting
    <3> QED BY <2>1, <3>1 DEF LedgerOK
  <2> QED BY <2>2, <2>3 DEF LivingRunsHaveHealth
<1> QED BY <1>1, VisitSound, PTL

\* The fight's count of armed Fairies is the belt's, between commands
\* (burn_consumed_fairies, drain_pending_potions, step_discard_potion).
THEOREM FairiesCounted == Spec => []FairiesAgree
<1>1. Sound(World) => FairiesAgree
  BY WorldIs DEF Sound, FightOK, FairiesAgree
<1> QED BY <1>1, VisitSound, PTL

\* Du-Vu Doll counts every curse, whichever door it came through, and the
\* fight's copy is the run's (recount_du_vu_doll, drain_pending_obtains).
THEOREM DollCounted == Spec => []DollCountsCurses
<1>1. Sound(World) => DollCountsCurses
  <2> SUFFICES ASSUME Sound(World) PROVE DollCountsCurses
    OBVIOUS
  <2>1. RunOK(run) /\ (phase = "fight" => FightOK(World))
    BY WorldIs DEF Sound, Common
  <2>2. FightOK(World) => fight.doll = run.doll
    BY WorldIs DEF FightOK, Fighting, AgreeOK
  <2> QED BY <2>1, <2>2 DEF DollCountsCurses, RunOK, DollTrue
<1> QED BY <1>1, VisitSound, PTL
==============================================================================
