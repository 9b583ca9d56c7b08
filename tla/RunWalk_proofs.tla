--------------------------- MODULE RunWalk_proofs ---------------------------
\* The walk of a run, for either number of bosses in act 3: types, the counting
\* argument behind the encounter lists, the keys, and the climb.
EXTENDS RunWalk, TLAPS

\* How many stops of the act are behind or under the run; 0 before its map.
Stop == floor - ActFloorBase

\* The rooms a stop of the map may turn out to be.
RoomsAt(s) ==
  IF act = 4
    THEN CASE s = 1 -> {"Rest"} [] s = 2 -> {"Shop"} [] OTHER -> {"Elite"}
    ELSE CASE s = 1 -> {"Monster"} [] s = 9 -> {"Treasure"} [] s = 15 -> {"Rest"}
           [] OTHER -> {"Monster", "Event", "Shop", "Treasure", "Rest"}
                       \cup (IF s > 5 THEN {"Elite"} ELSE {})

OnMapPhases == {"MAP_CHOICE", "COMBAT", "COMBAT_REWARD", "REST_SITE", "TREASURE_ROOM",
                "EVENT_DIALOG", "SHOP", "ROOM_UNIMPLEMENTED", "RUN_OVER"}

HeartEvents == {"Heart", "HeartMiddle", "HeartMiddle2", "HeartDeath", "GoToEnding"}

\* The room and the phases each stop of an act allows.
AtGate == Stop = 0 => /\ phase \in {"NEOW", "MAP_CHOICE"}
                      /\ room \in {"None", "TreasureBoss", "Victory"}
                      /\ phase = "NEOW" => act = 1

OnMap == Stop \in 1..Path!Rows(act) => room \in RoomsAt(Stop) /\ phase \in OnMapPhases

AtBoss == Stop \in Path!BossStops(act) =>
            /\ room = "Boss"
            /\ phase \in {"COMBAT", "RUN_OVER"} \cup
                         (IF act < 3 THEN {"COMBAT_REWARD"} ELSE {})

AtLast == Stop = Path!LastStop(act) =>
            IF act < 3 THEN room = "TreasureBoss" /\ phase = "BOSS_TREASURE"
            ELSE IF act = 3 THEN /\ room = "Victory"
                                 /\ phase \in {"EVENT_DIALOG", "RUN_OVER"}
            ELSE room = "TrueVictory" /\ phase = "RUN_OVER"

Placed == /\ Stop \in 0..Path!LastStop(act)
          /\ AtGate /\ OnMap /\ AtBoss /\ AtLast

\* Only the Spire Heart's dialog is the Spire Heart's.
HeartHere == /\ phase = "EVENT_DIALOG" => room \in {"Event", "Victory"}
             /\ phase = "EVENT_DIALOG" /\ room = "Victory" => event \in HeartEvents
             /\ event \in HeartEvents => phase = "EVENT_DIALOG" /\ room = "Victory"

\* Fewer rooms of a list have been left than the act has had stops for them.
MonsterRoomsBehind ==
  IF Stop = 0 THEN 0
  ELSE IF act = 4 THEN (IF Stop > 4 THEN 1 ELSE 0)
  ELSE Stop - 1 - (IF Stop > 9 THEN 1 ELSE 0) - (IF Stop > 15 THEN 1 ELSE 0)
EliteRoomsBehind ==
  IF act = 4 THEN (IF Stop > 3 THEN 1 ELSE 0)
  ELSE IF Stop <= 6 THEN 0 ELSE IF Stop <= 9 THEN Stop - 6
  ELSE IF Stop <= 15 THEN Stop - 7 ELSE 8
BossRoomsBehind ==
  IF Stop > Path!Rows(act) + 1 THEN Stop - Path!Rows(act) - 1 ELSE 0

Counted == /\ monsterCursor <= MonsterRoomsBehind
           /\ eliteCursor <= EliteRoomsBehind
           /\ bossCursor = BossRoomsBehind

KeysHeld == /\ act = 4 => keys = Keys
            /\ event = "GoToEnding" => keys = Keys

Stalled == phase = "ROOM_UNIMPLEMENTED" => room = "Event"

IInv == TypeOK /\ Placed /\ HeartHere /\ Counted /\ KeysHeld /\ Stalled

-----------------------------------------------------------------------------
\* Heights

\* Where the invariant holds the row does not saturate.
LEMMA StopIsRow == ASSUME IInv PROVE Stop \in Int /\ Stop >= 0 /\ CurRow = Stop - 1
  BY DEF IInv, TypeOK, Placed, Stop, CurRow, ActFloorBase,
         FinalAct, ActFloorSpan

\* The act's numbers, with the cases of the act resolved.
LEMMA ActNumbers ==
  ASSUME DoubleBoss \in BOOLEAN, act \in 1..4
  PROVE  /\ act < 4 => Path!Rows(act) = 15
         /\ act = 4 => Path!Rows(act) = 3
         /\ Path!Bosses(act) \in 1..2
         /\ act # 3 => Path!Bosses(act) = 1
         /\ act = 3 => Path!Bosses(act) = (IF DoubleBoss THEN 2 ELSE 1)
         /\ Path!BossStops(act) = Path!Rows(act) + 1 .. Path!Rows(act) + Path!Bosses(act)
         /\ Path!LastStop(act) = Path!Rows(act) + Path!Bosses(act) + 1
  BY DEF Path!Rows, Path!Bosses, Path!BossStops, Path!LastStop

\* A step that stays where it stands keeps what is said of the place.
LEMMA Stays ==
  ASSUME IInv, UNCHANGED place
  PROVE  /\ Stop' = Stop
         /\ Path!Rows(act') = Path!Rows(act) /\ Path!BossStops(act') = Path!BossStops(act)
         /\ Path!LastStop(act') = Path!LastStop(act)
         /\ \A s : RoomsAt(s)' = RoomsAt(s)
  BY DEF place, Stop, ActFloorBase, RoomsAt

-----------------------------------------------------------------------------
\* Going on to the next stop

\* What may stand at the next stop, seen from this one.
Fits(r) ==
  \/ /\ Stop < Path!Rows(act) /\ r \in NodeKinds(Stop)
     /\ phase = "MAP_CHOICE"
  \/ /\ Stop + 1 \in Path!BossStops(act) /\ r = "Boss"
  \/ /\ Stop + 1 = Path!LastStop(act)
     /\ r = IF act < 3 THEN "TreasureBoss"
            ELSE IF act = 3 THEN "Victory" ELSE "TrueVictory"

\* The next stop is one higher in the same act.
LEMMA StepsUp ==
  ASSUME IInv, NEW r, NextRoomTransition(r)
  PROVE  /\ Stop' = Stop + 1 /\ act' = act /\ keys' = keys
         /\ Path!Rows(act') = Path!Rows(act) /\ Path!BossStops(act') = Path!BossStops(act)
         /\ Path!LastStop(act') = Path!LastStop(act)
         /\ \A s : RoomsAt(s)' = RoomsAt(s)
  <1>1. floor' = floor + 1 /\ act' = act /\ endingBase' = endingBase /\ keys' = keys
    BY DEF NextRoomTransition
  <1>2. ActFloorBase' = ActFloorBase
    BY <1>1 DEF ActFloorBase
  <1>3. floor \in Nat /\ ActFloorBase \in Int
    BY DEF IInv, TypeOK, ActFloorBase, FinalAct, ActFloorSpan
  <1>4. Stop' = Stop + 1
    BY <1>1, <1>2, <1>3 DEF Stop
  <1> QED BY <1>1, <1>4 DEF RoomsAt

\* Leaving a room uses up at most one encounter, and only in a room of its list.
LEMMA LeavingCounts ==
  ASSUME IInv, DoubleBoss \in BOOLEAN, NEW r, NextRoomTransition(r), Fits(r)
  PROVE  Counted'
  <1>1. Stop' = Stop + 1 /\ act' = act /\ Path!Rows(act') = Path!Rows(act)
    BY StepsUp
  <1>2. Stop \in Int /\ Stop >= 0 /\ Stop <= Path!LastStop(act)
    BY DEF IInv, Placed
  <1>3. /\ monsterCursor \in Nat /\ eliteCursor \in Nat /\ bossCursor \in Nat
        /\ act \in 1..4 /\ floor \in Nat
    BY DEF IInv, TypeOK, FinalAct
  <1>4. UseUpEncounter
    BY DEF NextRoomTransition
  <1>5. CASE Stop = 0
    <2>1. room \notin {"Monster", "Elite", "Boss"}
      BY <1>5 DEF IInv, Placed, AtGate
    <2> QED
      BY <1>1, <1>3, <1>4, <1>5, <2>1, ActNumbers
         DEF UseUpEncounter, Counted, MonsterRoomsBehind, EliteRoomsBehind,
             BossRoomsBehind, IInv
  <1>6. CASE Stop \in 1..Path!Rows(act)
    <2>1. room \in RoomsAt(Stop)
      BY <1>6 DEF IInv, Placed, OnMap
    <2>2. room # "Boss"
      BY <2>1 DEF RoomsAt
    <2>3. bossCursor' = 0 /\ Stop' <= Path!Rows(act) + 1
      BY <1>1, <1>2, <1>3, <1>4, <1>6, <2>2, ActNumbers
         DEF UseUpEncounter, IInv, Counted, BossRoomsBehind
    <2>4. bossCursor' = BossRoomsBehind'
      BY <2>3, <1>1, <1>2, <1>3, ActNumbers DEF BossRoomsBehind
    <2>5. CASE act = 4
      BY <1>1, <1>2, <1>3, <1>4, <1>6, <2>1, <2>4, <2>5, ActNumbers
         DEF UseUpEncounter, IInv, Counted, MonsterRoomsBehind, EliteRoomsBehind,
             RoomsAt
    <2>6. CASE act # 4
      <3>1. monsterCursor' <= MonsterRoomsBehind'
        BY <1>1, <1>2, <1>3, <1>4, <1>6, <2>1, <2>6, ActNumbers
           DEF UseUpEncounter, IInv, Counted, MonsterRoomsBehind, RoomsAt
      <3>2. eliteCursor' <= EliteRoomsBehind'
        BY <1>1, <1>2, <1>3, <1>4, <1>6, <2>1, <2>6, ActNumbers
           DEF UseUpEncounter, IInv, Counted, EliteRoomsBehind, RoomsAt
      <3> QED BY <3>1, <3>2, <2>4 DEF Counted
    <2> QED BY <2>5, <2>6
  <1>7. CASE Stop > Path!Rows(act)
    <2>1. Stop \in Path!BossStops(act)
      BY <1>2, <1>3, <1>7, ActNumbers DEF Fits
    <2>2. room = "Boss"
      BY <2>1 DEF IInv, Placed, AtBoss
    <2>3. bossCursor' = bossCursor + 1
      BY <1>2, <1>3, <1>4, <2>1, <2>2, ActNumbers
         DEF UseUpEncounter, IInv, Counted, BossRoomsBehind, BossListLen, Placed, Stop,
             TypeOK, ActFloorBase, FinalAct, ActFloorSpan
    <2>4. bossCursor' = BossRoomsBehind'
      BY <1>1, <1>2, <1>3, <2>1, <2>3, ActNumbers
         DEF IInv, Counted, BossRoomsBehind
    <2>5. eliteCursor' <= EliteRoomsBehind'
      BY <1>1, <1>2, <1>3, <1>4, <2>1, <2>2, ActNumbers
         DEF UseUpEncounter, IInv, Counted, EliteRoomsBehind
    <2>6. monsterCursor' <= MonsterRoomsBehind'
      BY <1>1, <1>2, <1>3, <1>4, <2>1, <2>2, ActNumbers
         DEF UseUpEncounter, IInv, Counted, MonsterRoomsBehind
    <2> QED BY <2>4, <2>5, <2>6 DEF Counted
  <1> QED BY <1>2, <1>3, <1>5, <1>6, <1>7, ActNumbers

\* What on_player_entry leaves behind, by the room it was asked for.
LEMMA Entered ==
  ASSUME IInv, DoubleBoss \in BOOLEAN, NEW r, NextRoomTransition(r), Fits(r)
  PROVE  /\ r \in Rooms \ {"None"}
         /\ r # "Event" => room' = r
         /\ r = "Event" => room' \in {"Monster", "Treasure", "Event", "Shop"}
         /\ room' = "Victory" => phase' = "EVENT_DIALOG" /\ event' = "Heart"
         /\ room' = "TrueVictory" => phase' = "RUN_OVER"
         /\ room' = "TreasureBoss" => phase' = "BOSS_TREASURE"
         /\ room' = "Boss" => phase' \in {"COMBAT", "ROOM_UNIMPLEMENTED"}
         /\ room' \notin {"Victory", "TrueVictory", "TreasureBoss", "Boss"}
              => phase' \in OnMapPhases
         /\ room' = "Event" => phase' # "MAP_CHOICE"
         /\ room' # "Victory" => event' \in {"None", "Plain", "Colosseum"}
         /\ room' \notin {"Victory", "Event"} => phase' # "EVENT_DIALOG"
         /\ room' \in Rooms /\ event' \in Events /\ phase' \in Phases
  <1>1. OnPlayerEntry(r)
    BY DEF NextRoomTransition
  <1>2. r \in Rooms \ {"None"}
    BY DEF Fits, NodeKinds, Rooms
  <1>3. CASE r = "Event" /\ EnterEvent(CurRow + 1)
    BY <1>2, <1>3 DEF EnterEvent, DialogsOf, OnMapPhases, Rooms, Events, Phases
  <1>4. ASSUME NEW d \in IF r = "Event" THEN RollsOf(room) \ {"Event"} ELSE {r},
               room' = d, phase' \in EntryPhases(d),
               event' = IF d = "Victory" THEN "Heart" ELSE "None"
        PROVE  /\ d \in Rooms \ {"None", "Event"}
               /\ r # "Event" => d = r
               /\ r = "Event" => d \in {"Monster", "Treasure", "Shop"}
               /\ d = "Victory" => phase' = "EVENT_DIALOG"
               /\ d = "TrueVictory" => phase' = "RUN_OVER"
               /\ d = "TreasureBoss" => phase' = "BOSS_TREASURE"
               /\ d = "Boss" => phase' \in {"COMBAT", "ROOM_UNIMPLEMENTED"}
               /\ d \notin {"Victory", "TrueVictory", "TreasureBoss", "Boss"}
                    => phase' \in OnMapPhases \ {"EVENT_DIALOG"}
               /\ phase' \in Phases
    <2>1. /\ d \in Rooms \ {"None", "Event"}
          /\ r # "Event" => d = r
          /\ r = "Event" => d \in {"Monster", "Treasure", "Shop"}
      BY <1>2, <1>4 DEF RollsOf, Rooms
    <2> QED BY <2>1, <1>4 DEF EntryPhases, Rooms, OnMapPhases, Phases
  <1>5. CASE \E d \in IF r = "Event" THEN RollsOf(room) \ {"Event"} ELSE {r} :
               /\ room' = d /\ phase' \in EntryPhases(d)
               /\ event' = IF d = "Victory" THEN "Heart" ELSE "None"
    <2>1. PICK d \in IF r = "Event" THEN RollsOf(room) \ {"Event"} ELSE {r} :
               /\ room' = d /\ phase' \in EntryPhases(d)
               /\ event' = IF d = "Victory" THEN "Heart" ELSE "None"
      BY <1>5
    <2> QED BY <1>2, <1>4, <2>1 DEF Events, Rooms
  <1> QED BY <1>1, <1>3, <1>5 DEF OnPlayerEntry

\* The lists last: whatever room is entered next, its list is not used up.
LEMMA NeverStalls ==
  ASSUME IInv, DoubleBoss \in BOOLEAN, NEW r, NextRoomTransition(r), Fits(r)
  PROVE  Stalled'
  <1>1. Counted' /\ Stop' = Stop + 1 /\ act' = act
    BY LeavingCounts, StepsUp
  <1>2. /\ Stop \in Int /\ Stop >= 0 /\ act \in 1..4
        /\ monsterCursor \in Nat /\ eliteCursor \in Nat /\ bossCursor \in Nat
    BY DEF IInv, Placed, TypeOK, FinalAct
  <1>3. monsterCursor' \in Nat /\ eliteCursor' \in Nat /\ bossCursor' \in Nat
    BY <1>2 DEF NextRoomTransition, UseUpEncounter
  <1>4. Path!Rows(act') = Path!Rows(act)
    BY StepsUp
  <1>5. ASSUME phase' = "ROOM_UNIMPLEMENTED", room' # "Event"
        PROVE  FALSE
    <2>1. PICK d \in IF r = "Event" THEN RollsOf(room) \ {"Event"} ELSE {r} :
               room' = d /\ phase' \in EntryPhases(d)
      BY <1>5 DEF NextRoomTransition, OnPlayerEntry, EnterEvent
    <2>2. d \in Rooms \ {"None", "Event"}
      BY <2>1, <1>5, Entered DEF RollsOf, Rooms
    <2>3. \/ d = "Monster" /\ ~(monsterCursor' < MonsterListLen)
          \/ d = "Elite" /\ ~(eliteCursor' < EliteListLen)
          \/ d = "Boss" /\ ~(bossCursor' < BossListLen)
      BY <2>1, <2>2, <1>5 DEF EntryPhases, Rooms
    <2>4. CASE d = "Monster" /\ ~(monsterCursor' < MonsterListLen)
      <3>1. r \in {"Monster", "Event"} /\ Stop < Path!Rows(act) /\ r \in NodeKinds(Stop)
        BY <2>1, <2>4 DEF Fits, NodeKinds
      <3>2. act # 4
        BY <3>1 DEF NodeKinds, FinalAct
      <3>3. Stop' \in 1..15
        BY <1>1, <1>2, <3>1, <3>2, ActNumbers
      <3> QED BY <1>1, <1>2, <1>3, <2>4, <3>2, <3>3
              DEF Counted, MonsterRoomsBehind, MonsterListLen, FinalAct
    <2>5. CASE d = "Elite" /\ ~(eliteCursor' < EliteListLen)
      <3>1. r = "Elite"
        BY <2>1, <2>5 DEF RollsOf
      <3> QED BY <1>1, <1>2, <1>3, <2>5 DEF Counted, EliteRoomsBehind, EliteListLen, FinalAct
    <2>6. CASE d = "Boss" /\ ~(bossCursor' < BossListLen)
      <3>1. r = "Boss" /\ Stop + 1 \in Path!BossStops(act)
        BY <2>1, <2>6, <1>2, ActNumbers DEF RollsOf, Fits, NodeKinds
      <3> QED BY <1>1, <1>2, <1>3, <1>4, <2>6, <3>1, ActNumbers
              DEF Counted, BossRoomsBehind, BossListLen
    <2> QED BY <2>3, <2>4, <2>5, <2>6
  <1> QED BY <1>5 DEF Stalled

\* Going on to a room that fits keeps everything.
LEMMA Transition ==
  ASSUME IInv, DoubleBoss \in BOOLEAN, NEW r, NextRoomTransition(r), Fits(r)
  PROVE  IInv'
  <1>1. /\ Stop' = Stop + 1 /\ act' = act /\ keys' = keys
        /\ Path!Rows(act') = Path!Rows(act) /\ Path!BossStops(act') = Path!BossStops(act)
        /\ Path!LastStop(act') = Path!LastStop(act)
        /\ \A s : RoomsAt(s)' = RoomsAt(s)
    BY StepsUp
  <1>2. Stop \in Int /\ Stop >= 0 /\ act \in 1..4
    BY DEF IInv, Placed, TypeOK, FinalAct
  <1>3. TypeOK'
    BY Entered DEF IInv, TypeOK, NextRoomTransition, UseUpEncounter, Keys
  <1>4. Placed'
    <2>1. CASE Stop < Path!Rows(act) /\ r \in NodeKinds(Stop)
      <3>1. Stop + 1 \in 1..Path!Rows(act) /\ Stop + 1 \notin Path!BossStops(act)
            /\ Stop + 1 # Path!LastStop(act) /\ Stop + 1 \in 0..Path!LastStop(act)
        BY <1>2, <2>1, ActNumbers
      <3>2. r \in {"Monster", "Event", "Elite", "Rest", "Shop", "Treasure"}
        BY <2>1 DEF NodeKinds
      <3>3. room' \in RoomsAt(Stop + 1)
        BY <1>2, <2>1, <3>2, ActNumbers, Entered DEF NodeKinds, RoomsAt, FinalAct
      <3>4. phase' \in OnMapPhases
        BY <3>2, Entered
      <3> QED BY <1>1, <1>2, <3>1, <3>3, <3>4 DEF Placed, AtGate, OnMap, AtBoss, AtLast
    <2>2. CASE Stop + 1 \in Path!BossStops(act) /\ r = "Boss"
      <3>1. Stop + 1 \notin 1..Path!Rows(act) /\ Stop + 1 # Path!LastStop(act)
            /\ Stop + 1 \in 0..Path!LastStop(act)
        BY <1>2, <2>2, ActNumbers
      <3>2. room' = "Boss" /\ phase' = "COMBAT"
        BY <2>2, Entered, NeverStalls DEF Stalled
      <3> QED BY <1>1, <1>2, <3>1, <3>2 DEF Placed, AtGate, OnMap, AtBoss, AtLast
    <2>3. CASE Stop + 1 = Path!LastStop(act)
               /\ r = (IF act < 3 THEN "TreasureBoss"
                       ELSE IF act = 3 THEN "Victory" ELSE "TrueVictory")
      <3>1. Stop + 1 \notin 1..Path!Rows(act) /\ Stop + 1 \notin Path!BossStops(act)
            /\ Stop + 1 \in 0..Path!LastStop(act)
        BY <1>2, <2>3, ActNumbers
      <3>2. room' = r
        BY <2>3, Entered
      <3>3. AtLast'
        BY <1>1, <1>2, <2>3, <3>2, Entered DEF AtLast
      <3> QED BY <1>1, <1>2, <3>1, <3>3 DEF Placed, AtGate, OnMap, AtBoss
    <2> QED BY <2>1, <2>2, <2>3 DEF Fits
  <1>5. HeartHere'
    BY Entered DEF HeartHere, HeartEvents
  <1>6. KeysHeld'
    BY <1>1, Entered DEF KeysHeld, IInv
  <1> QED BY <1>3, <1>4, <1>5, <1>6, LeavingCounts, NeverStalls DEF IInv
-----------------------------------------------------------------------------
\* The steps

LEMMA Begins == ASSUME DoubleBoss \in BOOLEAN, Init PROVE IInv
  <1>1. act = 1 /\ Stop = 0
    BY DEF Init, Stop, ActFloorBase, FinalAct, ActFloorSpan
  <1>2. Placed
    BY <1>1, ActNumbers DEF Init, Placed, AtGate, OnMap, AtBoss, AtLast
  <1>3. Counted
    BY <1>1, ActNumbers DEF Init, Counted, MonsterRoomsBehind, EliteRoomsBehind,
                            BossRoomsBehind
  <1> QED BY <1>1, <1>2, <1>3
          DEF IInv, TypeOK, Init, HeartHere, HeartEvents, KeysHeld, Stalled, Phases, Rooms,
              Events, Keys, FinalAct

\* Where each phase is met: the four parts of an act.
LEMMA Parts ==
  ASSUME IInv, DoubleBoss \in BOOLEAN
  PROVE  /\ \/ Stop = 0 \/ Stop \in 1..Path!Rows(act)
            \/ Stop \in Path!BossStops(act) \/ Stop = Path!LastStop(act)
         /\ Stop \in Int /\ act \in 1..4
  BY ActNumbers DEF IInv, TypeOK, Placed, FinalAct

\* A step inside the room changes the phase only to one the stop allows.
Remains(p) ==
  /\ Stop = 0 => p = "MAP_CHOICE"
  /\ Stop \in 1..Path!Rows(act) => p \in OnMapPhases \ {"ROOM_UNIMPLEMENTED"}
  /\ Stop \in Path!BossStops(act) =>
       p \in {"COMBAT", "RUN_OVER"} \cup (IF act < 3 THEN {"COMBAT_REWARD"} ELSE {})
  /\ Stop = Path!LastStop(act) =>
       IF act < 3 THEN p = "BOSS_TREASURE"
       ELSE IF act = 3 THEN p \in {"EVENT_DIALOG", "RUN_OVER"}
       ELSE p = "RUN_OVER"

LEMMA Staying ==
  ASSUME IInv, DoubleBoss \in BOOLEAN, UNCHANGED <<place, room, cursors>>, Remains(phase')
  PROVE  Placed' /\ Counted'
  <1>1. /\ Stop' = Stop /\ act' = act /\ room' = room
        /\ Path!Rows(act') = Path!Rows(act) /\ Path!BossStops(act') = Path!BossStops(act)
        /\ Path!LastStop(act') = Path!LastStop(act)
        /\ \A s : RoomsAt(s)' = RoomsAt(s)
    BY Stays DEF place
  <1>2. /\ monsterCursor' = monsterCursor /\ eliteCursor' = eliteCursor
        /\ bossCursor' = bossCursor
    BY DEF cursors
  <1>3. Placed'
    BY <1>1 DEF IInv, Placed, AtGate, OnMap, AtBoss, AtLast, Remains
  <1>4. Counted'
    BY <1>1, <1>2 DEF IInv, Counted, MonsterRoomsBehind, EliteRoomsBehind, BossRoomsBehind
  <1> QED BY <1>3, <1>4

\* Everything a run does without leaving the room it is in.
InRoom ==
  \/ LeaveNeow \/ LoseFight \/ ReopenDialog \/ EnterCombatReward \/ DrinkSmokeBomb
  \/ ClaimKey \/ ClaimLinkedRelic \/ FinishRestSite \/ Recall \/ Dig
  \/ OpenTreasureChest \/ LeaveTreasureRoom \/ LeaveShop \/ BuyItemReward
  \/ DieInDialog \/ FinishDialog \/ FightInDialog \/ RewardInDialog
  \/ HeartClick \/ HeartDeath
  \/ (ProceedFromReward /\ room # "Boss")

LEMMA InRoomStays ==
  ASSUME InRoom
  PROVE  ~Over /\ UNCHANGED <<place, room, cursors>> /\ act' = act /\ floor' = floor
  BY DEF Over, place, LeaveNeow, LoseFight, ReopenDialog, EnterCombatReward, DrinkSmokeBomb,
         ClaimKey, ClaimLinkedRelic, FinishRestSite, Recall, Dig, OpenTreasureChest,
         LeaveTreasureRoom, LeaveShop, BuyItemReward, DieInDialog, FinishDialog,
         FightInDialog, RewardInDialog, HeartClick, HeartDeath, ProceedFromReward,
         CombatReopens, InRoom, ToPhase, OpenRelicReward

LEMMA InRoomKeeps ==
  ASSUME IInv, DoubleBoss \in BOOLEAN, InRoom
  PROVE  IInv'
  <1> USE DEF LeaveNeow, LoseFight, ReopenDialog, EnterCombatReward, DrinkSmokeBomb,
         ClaimKey, ClaimLinkedRelic, FinishRestSite, Recall, Dig, OpenTreasureChest,
         LeaveTreasureRoom, LeaveShop, BuyItemReward, DieInDialog, FinishDialog,
         FightInDialog, RewardInDialog, HeartClick, HeartDeath, ProceedFromReward,
         CombatReopens, InRoom, ToPhase, OpenRelicReward
  <1>1. /\ UNCHANGED <<place, room, cursors>> /\ room' = room
        /\ phase' \in Phases \ {"NEOW", "ROOM_UNIMPLEMENTED"}
        /\ keys \subseteq keys' /\ keys' \subseteq Keys /\ offer' \subseteq Keys
    <2>1. phase \in Phases /\ keys \subseteq Keys /\ offer \subseteq Keys
      BY DEF IInv, TypeOK
    <2> QED
      BY <2>1, InRoomStays DEF Phases, Keys
  <1>2. /\ phase' = "EVENT_DIALOG" => room \in {"Event", "Victory"}
        /\ phase' = "EVENT_DIALOG" /\ room = "Victory" => event' \in HeartEvents
        /\ event' \in HeartEvents => phase' = "EVENT_DIALOG" /\ room = "Victory"
        /\ event' = "GoToEnding" => keys' = Keys
        /\ event' \in Events
    BY <1>1 DEF IInv, TypeOK, HeartHere, KeysHeld, HeartEvents, Events
  <1>3. Remains(phase')
    <2>1. CASE Stop = 0
      <3>1. phase \in {"NEOW", "MAP_CHOICE"} /\ ~(Stop \in 1..Path!Rows(act))
            /\ Stop \notin Path!BossStops(act) /\ Stop # Path!LastStop(act)
        BY <2>1, Parts, ActNumbers DEF IInv, Placed, AtGate
      <3>2. phase' = "MAP_CHOICE"
        BY <3>1
      <3> QED BY <3>1, <3>2 DEF Remains
    <2>2. CASE Stop \in 1..Path!Rows(act)
      <3>1. phase \in OnMapPhases
            /\ Stop \notin Path!BossStops(act) /\ Stop # Path!LastStop(act) /\ Stop # 0
        BY <2>2, Parts, ActNumbers DEF IInv, Placed, OnMap
      <3>2. phase' # "BOSS_TREASURE"
        BY <3>1 DEF OnMapPhases
      <3> QED BY <1>1, <3>1, <3>2 DEF Remains, OnMapPhases, Phases
    <2>3. CASE Stop \in Path!BossStops(act)
      <3>1. /\ room = "Boss"
            /\ phase \in {"COMBAT", "RUN_OVER"} \cup
                         (IF act < 3 THEN {"COMBAT_REWARD"} ELSE {})
            /\ ~(Stop \in 1..Path!Rows(act)) /\ Stop # Path!LastStop(act) /\ Stop # 0
        BY <2>3, Parts, ActNumbers DEF IInv, Placed, AtBoss
      <3>2. phase' \in {"COMBAT", "RUN_OVER"} \cup
                       (IF act < 3 THEN {"COMBAT_REWARD"} ELSE {})
        BY <3>1, Parts
      <3> QED BY <3>1, <3>2 DEF Remains
    <2>4. CASE Stop = Path!LastStop(act)
      <3>1. /\ IF act < 3 THEN room = "TreasureBoss" /\ phase = "BOSS_TREASURE"
               ELSE IF act = 3 THEN /\ room = "Victory"
                                    /\ phase \in {"EVENT_DIALOG", "RUN_OVER"}
               ELSE room = "TrueVictory" /\ phase = "RUN_OVER"
            /\ ~(Stop \in 1..Path!Rows(act)) /\ Stop \notin Path!BossStops(act)
            /\ Stop # 0
        BY <2>4, Parts, ActNumbers DEF IInv, Placed, AtLast
      <3>2. phase = "EVENT_DIALOG" => event \in HeartEvents
        BY <3>1 DEF IInv, HeartHere
      <3>3. act = 3 /\ phase' \in {"EVENT_DIALOG", "RUN_OVER"}
        BY <3>1, <3>2, Parts DEF HeartEvents
      <3> QED BY <2>4, <3>1, <3>3 DEF Remains
    <2> QED BY <2>1, <2>2, <2>3, <2>4, Parts
  <1>4. Placed' /\ Counted'
    BY <1>1, <1>3, Staying
  <1>5. TypeOK'
    BY <1>1, <1>2, InRoomStays DEF IInv, TypeOK, place, cursors
  <1>6. KeysHeld'
    BY <1>1, <1>2, InRoomStays DEF IInv, KeysHeld
  <1> QED BY <1>1, <1>2, <1>4, <1>5, <1>6 DEF IInv, HeartHere, Stalled

LEMMA BossRoom ==
  ASSUME IInv, DoubleBoss \in BOOLEAN, room = "Boss"
  PROVE  Stop \in Path!BossStops(act)
  <1>1. /\ Stop # 0
        /\ ~(Stop \in 1..Path!Rows(act))
        /\ Stop # Path!LastStop(act)
    BY Parts DEF IInv, Placed, AtGate, OnMap, AtLast, RoomsAt
  <1> QED BY <1>1, Parts

\* Every step either stays, or goes on to a room that fits, or changes the act.
GoesOn(r) == ~Over /\ NextRoomTransition(r) /\ Fits(r)

LEMMA Steps ==
  ASSUME IInv, DoubleBoss \in BOOLEAN, Next
  PROVE  InRoom \/ (\E r : GoesOn(r)) \/ LeaveBossChest \/ Act4Crossing
  <1>1. Stop \in Int /\ Stop >= 0 /\ CurRow = Stop - 1 /\ act \in 1..4
    BY StopIsRow, Parts
  <1>2. CASE ChooseNode
    <2>1. PICK kind \in NodeKinds(CurRow + 1) : NextRoomTransition(kind)
      BY <1>2 DEF ChooseNode
    <2>2. Stop < Path!Rows(act)
      BY <1>1, <1>2, ActNumbers DEF ChooseNode, LastRow, FinalAct
    <2>3. CurRow + 1 = Stop
      BY <1>1
    <2> QED BY <1>2, <2>1, <2>2, <2>3 DEF ChooseNode, GoesOn, Fits, Over
  <1>3. CASE ChooseBoss
    <2>1. Stop + 1 \in Path!BossStops(act)
      BY <1>1, <1>3, ActNumbers DEF ChooseBoss, LastRow, FinalAct
    <2> QED BY <1>3, <2>1 DEF ChooseBoss, GoesOn, Fits, Over
  <1>4. CASE WinLastBoss
    <2>1. Stop \in Path!BossStops(act) /\ act = 3
      BY <1>4, BossRoom DEF WinLastBoss
    <2>2. bossCursor = Stop - 16
      BY <1>1, <2>1, ActNumbers DEF IInv, Counted, BossRoomsBehind
    <2>3. CASE SecondBossWaits
      <3>1. Stop + 1 \in Path!BossStops(act)
        BY <1>1, <2>1, <2>2, <2>3, ActNumbers DEF SecondBossWaits, BossListLen
      <3> QED BY <1>4, <2>3, <3>1 DEF WinLastBoss, GoesOn, Fits, Over
    <2>4. CASE ~SecondBossWaits
      <3>1. Stop + 1 = Path!LastStop(act)
        BY <1>1, <2>1, <2>2, <2>4, ActNumbers DEF SecondBossWaits, BossListLen
      <3> QED BY <1>4, <2>4, <3>1 DEF WinLastBoss, GoesOn, Fits, Over
    <2> QED BY <2>3, <2>4
  <1>5. CASE WinHeart
    <2>1. act = 4 /\ Stop + 1 = Path!LastStop(act)
      BY <1>1, <1>5, BossRoom, ActNumbers DEF WinHeart, FinalAct
    <2> QED BY <1>5, <2>1 DEF WinHeart, GoesOn, Fits, Over
  <1>6. CASE ProceedFromReward /\ room = "Boss"
    <2>1. Stop \in Path!BossStops(act) /\ act < 3
      BY <1>1, <1>6, BossRoom DEF ProceedFromReward, IInv, Placed, AtBoss
    <2>2. Stop + 1 = Path!LastStop(act)
      BY <1>1, <2>1, ActNumbers
    <2> QED BY <1>6, <2>1, <2>2 DEF ProceedFromReward, GoesOn, Fits, Over
  <1> QED BY <1>2, <1>3, <1>4, <1>5, <1>6 DEF Next, Fight, Visit, Dialog, InRoom

\* The next act begins at its gate, with its lists untouched.
LEMMA NextActKeeps ==
  ASSUME IInv, DoubleBoss \in BOOLEAN, LeaveBossChest \/ Act4Crossing
  PROVE  /\ IInv' /\ act < 4 /\ act' = act + 1
         /\ Stop = Path!LastStop(act) /\ Stop' = 0
         /\ room # "Boss" /\ room' # "Boss"
  <1>1. act' = act + 1 /\ monsterCursor' = 0 /\ eliteCursor' = 0 /\ bossCursor' = 0
        /\ phase' = "MAP_CHOICE" /\ floor' = floor /\ keys' = keys
        /\ room' = (IF act' = 2 THEN "None" ELSE room)
    BY DEF LeaveBossChest, Act4Crossing, ActTransition
  <1>2. act \in 1..4 /\ floor \in Nat /\ Stop \in Int
    BY Parts DEF IInv, TypeOK
  <1>3. CASE LeaveBossChest
    <2>1. phase = "BOSS_TREASURE" /\ endingBase' = endingBase /\ event' = event /\ offer' = {}
      BY <1>3 DEF LeaveBossChest
    <2>2. Stop = Path!LastStop(act) /\ act < 3 /\ room = "TreasureBoss"
      BY <2>1, <1>2, Parts DEF IInv, Placed, AtGate, OnMap, OnMapPhases, AtBoss, AtLast
    <2>3. Stop = 17
      BY <1>2, <2>2, ActNumbers
    <2>4. floor = act * 17
      BY <1>2, <2>2, <2>3 DEF Stop, ActFloorBase, FinalAct, ActFloorSpan
    <2>5. Stop' = 0
      BY <1>1, <1>2, <2>2, <2>4 DEF Stop, ActFloorBase, FinalAct, ActFloorSpan
    <2>6. event \notin HeartEvents
      BY <2>1 DEF IInv, HeartHere
    <2>7. room' \in {"None", "TreasureBoss"} /\ act' < 4
      BY <1>1, <1>2, <2>2
    <2>8. event' \notin HeartEvents /\ act' \in 1..4 /\ act' # 4 /\ event' # "GoToEnding"
      BY <1>1, <1>2, <2>1, <2>2, <2>6 DEF HeartEvents
    <2>9. TypeOK' /\ KeysHeld' /\ HeartHere' /\ Stalled'
      BY <1>1, <2>1, <2>7, <2>8
         DEF IInv, TypeOK, KeysHeld, HeartHere, Stalled, FinalAct, Phases, Rooms
    <2>10. Path!LastStop(act') \in Nat /\ 0 \notin Path!BossStops(act')
           /\ 0 # Path!LastStop(act') /\ ~(0 \in 1..Path!Rows(act'))
      BY <2>8 DEF Path!LastStop, Path!BossStops, Path!Rows, Path!Bosses
    <2>11. Placed'
      BY <1>1, <2>5, <2>7, <2>10 DEF Placed, AtGate, OnMap, AtBoss, AtLast
    <2>12. Counted'
      BY <1>1, <2>5, <2>8 DEF Counted, MonsterRoomsBehind, EliteRoomsBehind, BossRoomsBehind,
         Path!Rows
    <2> QED BY <1>1, <1>2, <2>2, <2>5, <2>7, <2>9, <2>11, <2>12 DEF IInv
  <1>4. CASE Act4Crossing
    <2>1. phase = "EVENT_DIALOG" /\ event = "GoToEnding" /\ endingBase' = floor
          /\ event' = "None" /\ offer' = offer
      BY <1>4 DEF Act4Crossing
    <2>2. room = "Victory" /\ keys = Keys
      BY <2>1 DEF IInv, HeartHere, HeartEvents, KeysHeld
    <2>3. Stop = Path!LastStop(act) /\ act = 3
      BY <2>1, <2>2, <1>2, Parts DEF IInv, Placed, AtGate, OnMap, RoomsAt, AtBoss, AtLast
    <2>4. act' = 4 /\ Stop' = 0
      BY <1>1, <1>2, <2>1, <2>3 DEF Stop, ActFloorBase, FinalAct
    <2>5. room' = "Victory"
      BY <1>1, <2>2, <2>4
    <2>6. TypeOK' /\ KeysHeld' /\ HeartHere' /\ Stalled'
      BY <1>1, <2>1, <2>2, <2>4, <2>5
         DEF IInv, TypeOK, KeysHeld, HeartHere, HeartEvents, Stalled, FinalAct, Phases,
             Rooms, Events
    <2>7. Path!LastStop(act') = 5 /\ Path!BossStops(act') = 4..4 /\ Path!Rows(act') = 3
      BY <2>4 DEF Path!LastStop, Path!BossStops, Path!Rows, Path!Bosses
    <2>8. Placed'
      BY <1>1, <2>4, <2>5, <2>7 DEF Placed, AtGate, OnMap, AtBoss, AtLast
    <2>9. Counted'
      BY <1>1, <2>4, <2>7 DEF Counted, MonsterRoomsBehind, EliteRoomsBehind, BossRoomsBehind
    <2> QED BY <1>1, <2>2, <2>3, <2>4, <2>5, <2>6, <2>8, <2>9 DEF IInv
  <1> QED BY <1>3, <1>4

LEMMA Inductive ==
  ASSUME IInv, DoubleBoss \in BOOLEAN, [Next]_vars
  PROVE  IInv'
  <1>1. CASE Next
    BY <1>1, Steps, InRoomKeeps, Transition, NextActKeeps DEF GoesOn
  <1>2. CASE UNCHANGED vars
    <2>1. UNCHANGED <<place, room, cursors>> /\ phase' = phase /\ event' = event
          /\ keys' = keys /\ offer' = offer /\ act' = act
      BY <1>2 DEF vars, place, cursors
    <2>2. Stop' = Stop /\ (\A s : RoomsAt(s)' = RoomsAt(s))
          /\ monsterCursor' = monsterCursor /\ eliteCursor' = eliteCursor
          /\ bossCursor' = bossCursor /\ room' = room
      BY <1>2 DEF vars, Stop, ActFloorBase, RoomsAt
    <2>3. Placed'
      BY <2>1, <2>2 DEF IInv, Placed, AtGate, OnMap, AtBoss, AtLast
    <2>4. Counted'
      BY <2>1, <2>2 DEF IInv, Counted, MonsterRoomsBehind, EliteRoomsBehind, BossRoomsBehind
    <2>5. TypeOK' /\ HeartHere' /\ KeysHeld' /\ Stalled'
      BY <1>2 DEF vars, IInv, TypeOK, HeartHere, KeysHeld, Stalled
    <2> QED BY <2>3, <2>4, <2>5 DEF IInv
  <1> QED BY <1>1, <1>2

-----------------------------------------------------------------------------
\* The theorems

LEMMA Invariance == Spec => []IInv
  <1>1. DoubleBoss \in BOOLEAN
    BY DoubleBossAssumption
  <1>2. Init => IInv
    BY <1>1, Begins
  <1>3. IInv /\ [Next]_vars => IInv'
    BY <1>1, Inductive
  <1> QED BY <1>2, <1>3, PTL DEF Spec

\* The phase, the room, the dialog, the counters and the keys of a run are always
\* values the controller knows.
THEOREM RunTypeCorrect == Spec => []TypeOK
  <1>1. IInv => TypeOK
    BY DEF IInv
  <1> QED BY <1>1, Invariance, PTL

\* The encounter lists of every act last for every walk through it
\* (next_room_transition_impl's assertion): at each stop, fewer rooms of a list lie
\* behind than the list has entries.
THEOREM ListsLast == Spec => []EncountersLast
  <1>1. IInv => EncountersLast
    <2> SUFFICES ASSUME IInv PROVE EncountersLast
      OBVIOUS
    <2>1. Stop \in Int /\ act \in 1..4 /\ monsterCursor \in Nat
          /\ Stop \in 0..Path!LastStop(act)
      BY DEF IInv, TypeOK, Placed, FinalAct
    <2>2. MonsterRoomsBehind <= MonsterListLen
      BY <2>1, ActNumbers, DoubleBossAssumption
         DEF MonsterRoomsBehind, MonsterListLen, FinalAct
    <2>3. MonsterRoomsBehind \in Int /\ MonsterListLen \in Int
      BY <2>1 DEF MonsterRoomsBehind, MonsterListLen
    <2> QED BY <2>1, <2>2, <2>3 DEF IInv, Counted, Stalled, EncountersLast
  <1> QED BY <1>1, Invariance, PTL

\* Act 4 is reached only with the three keys, and they stay (Spire Heart's third click).
THEOREM KeysBeforeTheDoor == Spec => []DoorNeedsKeys
  <1>1. IInv => DoorNeedsKeys
    BY DEF IInv, KeysHeld, DoorNeedsKeys, FinalAct
  <1> QED BY <1>1, Invariance, PTL

\* The second boss of act 3 is drawn from the list's next entry.
THEOREM SecondBossIsNew == Spec => BossesDiffer
  <1>1. ASSUME IInv, Next, room = "Boss", floor' # floor
        PROVE  bossCursor' # bossCursor
    <2>1. Stop \in Path!BossStops(act) /\ act \in 1..4 /\ DoubleBoss \in BOOLEAN
      BY <1>1, BossRoom, DoubleBossAssumption DEF IInv, TypeOK, FinalAct
    <2>2. ~InRoom /\ ~LeaveBossChest /\ ~Act4Crossing
      BY <1>1, <2>1, NextActKeeps, InRoomStays
    <2>3. PICK r : NextRoomTransition(r)
      BY <1>1, <2>1, <2>2, Steps DEF GoesOn
    <2>4. floor \in Nat /\ floor >= 1 /\ bossCursor \in Nat /\ bossCursor < BossListLen
      BY <1>1, <2>1, ActNumbers
         DEF IInv, TypeOK, Counted, BossRoomsBehind, BossListLen, Stop, ActFloorBase,
             FinalAct, ActFloorSpan
    <2> QED BY <1>1, <2>3, <2>4 DEF NextRoomTransition, UseUpEncounter
  <1>2. IInv /\ [Next]_vars
          => [room = "Boss" /\ room' = "Boss" /\ floor' # floor
                => bossCursor' # bossCursor]_vars
    BY <1>1 DEF vars
  <1> QED BY <1>2, Invariance, PTL DEF BossesDiffer, Spec

\* Stop is what the refinement calls stop.
Rowed == Stop \in Int /\ CurRow + 1 = Stop

\* The controller's floors and rooms are a climb of the path: no stop is skipped or
\* taken twice, and a boss room stands exactly where a boss is due.
THEOREM ClimbRefined == Spec => ClimbsThePath
  <1>1. Init => Path!Init
    <2> SUFFICES ASSUME Init PROVE Path!Init
      OBVIOUS
    <2>1. IInv
      BY Begins, DoubleBossAssumption
    <2>2. CurRow = Stop - 1 /\ Stop = 0
      BY <2>1, StopIsRow DEF Init, Stop, ActFloorBase, FinalAct, ActFloorSpan
    <2> QED BY <2>2 DEF Init, Path!Init, Over
  <1>2. ASSUME IInv, IInv', Rowed, Rowed', Next PROVE Path!Next \/ UNCHANGED Path!vars
    <2>1. /\ Stop \in Int /\ CurRow + 1 = Stop /\ Stop' \in Int /\ (CurRow + 1)' = Stop'
          /\ act \in 1..4 /\ DoubleBoss \in BOOLEAN
      BY <1>2, DoubleBossAssumption DEF IInv, TypeOK, FinalAct, Rowed
    <2>2. CASE InRoom
      <3>1. Stop' = Stop /\ act' = act /\ room' = room
        BY <2>2, InRoomStays DEF Stop, ActFloorBase, place
      <3>2. ~Over
        BY <2>2, InRoomStays
      <3>3. Over' = FALSE \/ Over' = TRUE
        BY DEF Over
      <3> QED BY <2>1, <3>1, <3>2, <3>3 DEF Path!Next, Path!End, Path!vars, Over
    <2>3. CASE \E r : GoesOn(r)
      <3>1. PICK r : GoesOn(r)
        BY <2>3
      <3>2. Stop' = Stop + 1 /\ act' = act /\ Path!LastStop(act') = Path!LastStop(act)
            /\ Path!BossStops(act') = Path!BossStops(act) /\ ~Over
        BY <1>2, <3>1, StepsUp DEF GoesOn
      <3>3. Stop < Path!LastStop(act)
        BY <1>2, <2>1, <3>2, ActNumbers DEF IInv, Placed
      <3>4. (room' = "Boss") = (Stop' \in Path!BossStops(act))
        <4>1. room' = "Boss" => Stop' \in Path!BossStops(act)
          <5> SUFFICES ASSUME room' = "Boss" PROVE Stop' \in Path!BossStops(act)
            OBVIOUS
          <5>1. /\ Stop' # 0
                /\ ~(Stop' \in 1..Path!Rows(act'))
                /\ Stop' # Path!LastStop(act')
            BY <1>2 DEF IInv, Placed, AtGate, OnMap, AtLast, RoomsAt
          <5> QED BY <1>2, <2>1, <3>2, <5>1, ActNumbers DEF IInv, Placed
        <4>2. Stop' \in Path!BossStops(act) => room' = "Boss"
          BY <1>2, <3>2 DEF IInv, Placed, AtBoss
        <4> QED BY <4>1, <4>2
      <3>5. act = 4 /\ Stop' = Path!LastStop(4) => Over'
        BY <1>2, <3>2 DEF IInv, Placed, AtLast, Over
      <3>6. Over' \in BOOLEAN
        BY DEF Over
      <3> QED BY <2>1, <3>2, <3>3, <3>4, <3>5, <3>6 DEF Path!Next, Path!Climb
    <2>4. CASE LeaveBossChest \/ Act4Crossing
      <3>1. /\ act < 4 /\ act' = act + 1 /\ Stop = Path!LastStop(act) /\ Stop' = 0
            /\ room # "Boss" /\ room' # "Boss"
        BY <1>2, <2>1, <2>4, NextActKeeps
      <3>2. ~Over /\ Over' = Over /\ (room' = "Boss") = (room = "Boss")
        BY <2>4, <3>1 DEF LeaveBossChest, Act4Crossing, ActTransition, Over
      <3> QED BY <2>1, <3>1, <3>2 DEF Path!Next, Path!NextAct
    <2> QED BY <1>2, <2>1, <2>2, <2>3, <2>4, Steps
  <1>3. IInv /\ IInv' /\ Rowed /\ Rowed' /\ [Next]_vars => [Path!Next]_(Path!vars)
    <2>1. UNCHANGED vars => UNCHANGED Path!vars
      BY DEF vars, Path!vars, CurRow, ActFloorBase, Over
    <2> QED BY <1>2, <2>1
  <1>4. IInv => Rowed
    BY StopIsRow DEF Rowed
  <1> QED BY <1>1, <1>3, <1>4, Invariance, PTL DEF Spec, ClimbsThePath, Path!Spec

=============================================================================
