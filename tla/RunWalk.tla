------------------------------ MODULE RunWalk ------------------------------
\* The run around the fights: the phases of run_advance.cpp and what moves
\* between them. A fight, a shop, a campfire, a reward screen and a dialog are one
\* step here, with every way the code has to leave them; what is kept whole is
\* where the run stands (act, floor, room), how much of the act's encounter lists
\* it has used up, and the rooms that stand off the map.
EXTENDS Integers

CONSTANT DoubleBoss   \* ascension >= 20

ASSUME DoubleBossAssumption == DoubleBoss \in BOOLEAN

VARIABLES
  phase,       \* RunController::phase
  act, floor,  \* RunState::act, RunState::floor
  endingBase,  \* RunState::act4_floor_base
  room,        \* RunController::room_type: what a "?" turned out to be
  event,       \* RunController::event, by what the dialog can still do
  monsterCursor, eliteCursor, bossCursor,
  keys,        \* RunState::keys
  offer        \* the keys among the rows of RunController::rewards

vars == <<phase, act, floor, endingBase, room, event,
          monsterCursor, eliteCursor, bossCursor, keys, offer>>

cursors == <<monsterCursor, eliteCursor, bossCursor>>
place == <<act, floor, endingBase>>

Phases == {"NEOW", "MAP_CHOICE", "COMBAT", "COMBAT_REWARD", "REST_SITE",
           "TREASURE_ROOM", "EVENT_DIALOG", "SHOP", "BOSS_TREASURE",
           "ROOM_UNIMPLEMENTED", "RUN_OVER"}
Rooms == {"None", "Monster", "Event", "Elite", "Rest", "Shop", "Treasure",
          "Boss", "TreasureBoss", "Victory", "TrueVictory"}
Keys == {"Ruby", "Emerald", "Sapphire"}

\* The Colosseum and the Spire Heart lead somewhere; any other dialog is "Plain".
Events == {"None", "Plain", "Colosseum", "ColosseumPostCombat",
           "Heart", "HeartMiddle", "HeartMiddle2", "HeartDeath", "GoToEnding"}

Over == phase \in {"RUN_OVER", "ROOM_UNIMPLEMENTED"}

---------------------------------------------------------------------------
\* The height of a room

FinalAct == 4
ActFloorSpan == 17

ActFloorBase ==
  IF act >= FinalAct THEN endingBase ELSE (act - 1) * ActFloorSpan

\* run_cur_row, which saturates at -1: the row before the map's first.
CurRow == IF floor <= ActFloorBase THEN -1 ELSE floor - ActFloorBase - 1

\* The row whose rooms lead to the boss.
LastRow == IF act = FinalAct THEN 2 ELSE 14

\* The kinds assign_room_types may put in a row. Its parent and sibling rules only
\* remove paths, and Wing Boots walk around them.
NodeKinds(row) ==
  IF act = FinalAct
    THEN CASE row = 0 -> {"Rest"} [] row = 1 -> {"Shop"} [] OTHER -> {"Elite"}
    ELSE CASE row = 0 -> {"Monster"}
           [] row = 8 -> {"Treasure"}
           [] row = 14 -> {"Rest"}
           [] OTHER -> {"Monster", "Event", "Shop"}
                       \cup (IF row > 4 THEN {"Elite"} ELSE {})
                       \cup (IF row > 4 /\ row < 13 THEN {"Rest"} ELSE {})

---------------------------------------------------------------------------
\* Encounter lists

MonsterListLen == CASE act = 1 -> 16 [] act = FinalAct -> 3 [] OTHER -> 15
EliteListLen == IF act = FinalAct THEN 3 ELSE 10
BossListLen == 3

UseUpEncounter_BossKept ==             \* mutant: the boss just beaten stays first
  /\ monsterCursor' = IF floor >= 1 /\ room \in {"Monster", "Boss"}
                        THEN monsterCursor + 1 ELSE monsterCursor
  /\ eliteCursor' = IF floor >= 1 /\ room = "Elite"
                      THEN eliteCursor + 1 ELSE eliteCursor
  /\ UNCHANGED bossCursor

\* Leaving a fight's room uses its encounter up; a boss room is a monster room.
UseUpEncounter ==
  /\ monsterCursor' = IF floor >= 1 /\ room \in {"Monster", "Boss"}
                        THEN monsterCursor + 1 ELSE monsterCursor
  /\ eliteCursor' = IF floor >= 1 /\ room = "Elite"
                      THEN eliteCursor + 1 ELSE eliteCursor
  /\ bossCursor' = IF floor >= 1 /\ room = "Boss" /\ bossCursor < BossListLen
                     THEN bossCursor + 1 ELSE bossCursor

---------------------------------------------------------------------------
\* Entering a room

\* The phases a room may open in. A campfire with nothing left to do closes at
\* once; Recall keeps it open while the ruby key is to be had.
EntryPhases(r) ==
  CASE r = "Monster" ->
         {IF monsterCursor' < MonsterListLen THEN "COMBAT" ELSE "ROOM_UNIMPLEMENTED"}
    [] r = "Elite" ->
         {IF eliteCursor' < EliteListLen THEN "COMBAT" ELSE "ROOM_UNIMPLEMENTED"}
    [] r = "Boss" ->
         {IF bossCursor' < BossListLen THEN "COMBAT" ELSE "ROOM_UNIMPLEMENTED"}
    [] r = "Rest" ->
         {"REST_SITE"} \cup (IF "Ruby" \in keys THEN {"MAP_CHOICE"} ELSE {})
    [] r = "Treasure" -> {"TREASURE_ROOM"}
    [] r = "TreasureBoss" -> {"BOSS_TREASURE"}
    [] r = "Victory" -> {"EVENT_DIALOG"}
    [] r = "TrueVictory" -> {"RUN_OVER"}
    [] r = "Shop" -> {"SHOP"}

\* What a "?" may turn into: never a second shop in a row.
RollsOf(leftRoom) ==
  {"Monster", "Treasure", "Event"} \cup (IF leftRoom = "Shop" THEN {} ELSE {"Shop"})

\* The dialogs of an event room; the Colosseum stands in the city's upper half.
DialogsOf(row) ==
  {"Plain"} \cup (IF act = 2 /\ row > 7 THEN {"Colosseum"} ELSE {})

\* An event room whose pools are dry stays without a dialog.
EnterEvent(row) ==
  /\ room' = "Event"
  /\ \/ phase' = "EVENT_DIALOG" /\ event' \in DialogsOf(row)
     \/ phase' = "ROOM_UNIMPLEMENTED" /\ event' = "None"

OnPlayerEntry(r) ==
  \/ /\ r = "Event"
     /\ "Event" \in RollsOf(room)
     /\ EnterEvent(CurRow + 1)
  \/ \E resolved \in IF r = "Event" THEN RollsOf(room) \ {"Event"} ELSE {r} :
       /\ room' = resolved
       /\ phase' \in EntryPhases(resolved)
       /\ event' = IF resolved = "Victory" THEN "Heart" ELSE "None"

NextRoomTransition(r) ==
  /\ UseUpEncounter
  /\ floor' = floor + 1
  /\ OnPlayerEntry(r)
  /\ offer' = {}
  /\ UNCHANGED <<act, endingBase, keys>>

---------------------------------------------------------------------------
\* The act boundary

ActTransition_OldList ==               \* mutant: the monster list goes on where it was
  /\ act' = act + 1
  /\ monsterCursor' = monsterCursor /\ eliteCursor' = 0 /\ bossCursor' = 0
  /\ room' = IF act' = 2 THEN "None" ELSE room
  /\ phase' = "MAP_CHOICE"
  /\ UNCHANGED <<floor, keys>>

ActTransition ==
  /\ act' = act + 1
  /\ monsterCursor' = 0 /\ eliteCursor' = 0 /\ bossCursor' = 0
  /\ room' = IF act' = 2 THEN "None" ELSE room
  /\ phase' = "MAP_CHOICE"
  /\ UNCHANGED <<floor, keys>>

---------------------------------------------------------------------------
\* The verbs

ToPhase(p) ==
  /\ phase' = p
  /\ UNCHANGED <<place, room, event, cursors, keys, offer>>

LeaveNeow == phase = "NEOW" /\ ToPhase("MAP_CHOICE")

ChooseNode ==
  /\ phase = "MAP_CHOICE"
  /\ CurRow < LastRow
  /\ \E kind \in NodeKinds(CurRow + 1) : NextRoomTransition(kind)

ChooseBoss ==
  /\ phase = "MAP_CHOICE"
  /\ CurRow = LastRow
  /\ NextRoomTransition("Boss")

LoseFight == phase = "COMBAT" /\ ToPhase("RUN_OVER")

\* The first fight of the Colosseum goes back to its dialog.
CombatReopens == room = "Event" /\ event = "ColosseumPostCombat"

\* goToDoubleBoss, as the code asks for it: two entries are left after this one.
SecondBossWaits == DoubleBoss /\ BossListLen - (bossCursor + 1) = 2

WinLastBoss ==
  /\ phase = "COMBAT" /\ room = "Boss" /\ act = 3
  /\ NextRoomTransition(IF SecondBossWaits THEN "Boss" ELSE "Victory")

WinHeart_ToChest ==                    \* mutant: the last boss leads to a chest too
  /\ phase = "COMBAT" /\ room = "Boss" /\ act = FinalAct
  /\ NextRoomTransition("TreasureBoss")

WinHeart ==
  /\ phase = "COMBAT" /\ room = "Boss" /\ act = FinalAct
  /\ NextRoomTransition("TrueVictory")

ReopenDialog ==
  /\ phase = "COMBAT" /\ CombatReopens
  /\ ToPhase("EVENT_DIALOG")

\* The elite that burns offers the emerald key: one elite of an act, if the act
\* was built without the key; which one the map decides.
EnterCombatReward ==
  /\ phase = "COMBAT"
  /\ ~(room = "Boss" /\ act >= 3)
  /\ ~CombatReopens
  /\ phase' = "COMBAT_REWARD"
  /\ offer' \in {{}} \cup (IF room = "Elite" /\ act < FinalAct /\ "Emerald" \notin keys
                             THEN {{"Emerald"}} ELSE {})
  /\ UNCHANGED <<place, room, event, cursors, keys>>

\* A Smoke Bomb never asks whether the fight reopens. The monsters it cannot leave
\* are bosses and the pair of act 4.
DrinkSmokeBomb ==
  /\ phase = "COMBAT"
  /\ room # "Boss" /\ act < FinalAct
  /\ phase' = "COMBAT_REWARD" /\ offer' = {}
  /\ UNCHANGED <<place, room, event, cursors, keys>>

ClaimKey ==
  /\ phase = "COMBAT_REWARD"
  /\ \E k \in offer : keys' = keys \cup {k} /\ offer' = offer \ {k}
  /\ UNCHANGED <<phase, place, room, event, cursors>>

\* The relic beside the sapphire key takes the key's row with it.
ClaimLinkedRelic ==
  /\ phase = "COMBAT_REWARD" /\ "Sapphire" \in offer
  /\ offer' = offer \ {"Sapphire"}
  /\ UNCHANGED <<phase, place, room, event, cursors, keys>>

ProceedFromReward ==
  /\ phase = "COMBAT_REWARD"
  /\ IF room = "Boss"
       THEN NextRoomTransition("TreasureBoss")
       ELSE /\ phase' = "MAP_CHOICE" /\ offer' = {}
            /\ UNCHANGED <<place, room, event, cursors, keys>>

\* Rest, Smith, Lift and Toke, on whatever screen they end.
FinishRestSite == phase = "REST_SITE" /\ ToPhase("MAP_CHOICE")

Recall ==
  /\ phase = "REST_SITE" /\ "Ruby" \notin keys
  /\ keys' = keys \cup {"Ruby"}
  /\ phase' = "MAP_CHOICE"
  /\ UNCHANGED <<place, room, event, cursors, offer>>

\* A screen put up by a relic or a shovel: whatever was offered before is gone.
OpenRelicReward ==
  /\ phase' = "COMBAT_REWARD" /\ offer' = {}
  /\ UNCHANGED <<place, room, event, cursors, keys>>

Dig == phase = "REST_SITE" /\ OpenRelicReward

OpenTreasureChest ==
  /\ phase = "TREASURE_ROOM"
  /\ phase' = "COMBAT_REWARD"
  /\ offer' = {"Sapphire"} \ keys
  /\ UNCHANGED <<place, room, event, cursors, keys>>

LeaveTreasureRoom == phase = "TREASURE_ROOM" /\ ToPhase("MAP_CHOICE")

LeaveShop == phase = "SHOP" /\ ToPhase("MAP_CHOICE")

\* Orrery, Cauldron: a relic bought here puts its own reward screen up.
BuyItemReward == phase = "SHOP" /\ OpenRelicReward

LeaveBossChest ==
  /\ phase = "BOSS_TREASURE"
  /\ ActTransition
  /\ offer' = {}
  /\ UNCHANGED <<endingBase, event>>

\* Dialogs. Hit points do not appear: what a dialog costs may kill.
DieInDialog ==
  /\ phase = "EVENT_DIALOG" /\ event = "Plain"
  /\ phase' = "RUN_OVER" /\ event' = "None"
  /\ UNCHANGED <<place, room, cursors, keys, offer>>

FinishDialog ==
  /\ phase = "EVENT_DIALOG"
  /\ event \in {"Plain", "ColosseumPostCombat"}
  /\ phase' = "MAP_CHOICE" /\ event' = "None"
  /\ UNCHANGED <<place, room, cursors, keys, offer>>

FightInDialog_Reopening ==             \* mutant: the second fight reopens the dialog too
  /\ phase = "EVENT_DIALOG"
  /\ event \in {"Plain", "Colosseum", "ColosseumPostCombat"}
  /\ phase' = "COMBAT"
  /\ event' = IF event = "Plain" THEN "None" ELSE "ColosseumPostCombat"
  /\ UNCHANGED <<place, room, cursors, keys, offer>>

FightInDialog ==
  /\ phase = "EVENT_DIALOG"
  /\ event \in {"Plain", "Colosseum", "ColosseumPostCombat"}
  /\ phase' = "COMBAT"
  /\ event' = IF event = "Colosseum" THEN "ColosseumPostCombat" ELSE "None"
  /\ UNCHANGED <<place, room, cursors, keys, offer>>

RewardInDialog ==
  /\ phase = "EVENT_DIALOG" /\ event = "Plain"
  /\ phase' = "COMBAT_REWARD" /\ event' = "None"
  /\ UNCHANGED <<place, room, cursors, keys, offer>>

HeartClick_AnyKey ==                   \* mutant: one key is enough
  /\ phase = "EVENT_DIALOG"
  /\ event \in {"Heart", "HeartMiddle", "HeartMiddle2"}
  /\ event' = CASE event = "Heart" -> "HeartMiddle"
                [] event = "HeartMiddle" -> "HeartMiddle2"
                [] OTHER -> IF keys # {} THEN "GoToEnding" ELSE "HeartDeath"
  /\ UNCHANGED <<phase, place, room, cursors, keys, offer>>

\* Three clicks, then the door or the end; the keys are read on the third.
HeartClick ==
  /\ phase = "EVENT_DIALOG"
  /\ event \in {"Heart", "HeartMiddle", "HeartMiddle2"}
  /\ event' = CASE event = "Heart" -> "HeartMiddle"
                [] event = "HeartMiddle" -> "HeartMiddle2"
                [] OTHER -> IF keys = Keys THEN "GoToEnding" ELSE "HeartDeath"
  /\ UNCHANGED <<phase, place, room, cursors, keys, offer>>

HeartDeath ==
  /\ phase = "EVENT_DIALOG" /\ event = "HeartDeath"
  /\ phase' = "RUN_OVER" /\ event' = "None"
  /\ UNCHANGED <<place, room, cursors, keys, offer>>

Act4Crossing_FixedHeight ==            \* mutant: the last act starts at floor 51 always
  /\ phase = "EVENT_DIALOG" /\ event = "GoToEnding"
  /\ endingBase' = (FinalAct - 1) * ActFloorSpan
  /\ ActTransition
  /\ event' = "None"
  /\ UNCHANGED offer

\* The door costs no floor: the last act is built at the floor it is opened on.
Act4Crossing ==
  /\ phase = "EVENT_DIALOG" /\ event = "GoToEnding"
  /\ endingBase' = floor
  /\ ActTransition
  /\ event' = "None"
  /\ UNCHANGED offer

---------------------------------------------------------------------------
Init ==
  /\ phase = "NEOW" /\ act = 1 /\ floor = 0 /\ endingBase = 0
  /\ room = "None" /\ event = "None"
  /\ monsterCursor = 0 /\ eliteCursor = 0 /\ bossCursor = 0
  /\ keys = {} /\ offer = {}

Fight ==
  \/ LoseFight \/ WinLastBoss \/ WinHeart \/ ReopenDialog
  \/ EnterCombatReward \/ DrinkSmokeBomb

Visit ==
  \/ ClaimKey \/ ClaimLinkedRelic \/ ProceedFromReward
  \/ FinishRestSite \/ Recall \/ Dig
  \/ OpenTreasureChest \/ LeaveTreasureRoom
  \/ LeaveShop \/ BuyItemReward \/ LeaveBossChest

Dialog ==
  \/ DieInDialog \/ FinishDialog \/ FightInDialog \/ RewardInDialog
  \/ HeartClick \/ HeartDeath \/ Act4Crossing

Next == LeaveNeow \/ ChooseNode \/ ChooseBoss \/ Fight \/ Visit \/ Dialog

Spec == Init /\ [][Next]_vars

\* Whoever drives a run goes on until it is over: advance() is called with an
\* action for every run that is not terminal.
FairSpec == Spec /\ WF_vars(Next)

---------------------------------------------------------------------------
\* Properties

TypeOK ==
  /\ phase \in Phases /\ act \in 1..FinalAct
  /\ floor \in Nat /\ endingBase \in Nat
  /\ room \in Rooms /\ event \in Events
  /\ monsterCursor \in Nat /\ eliteCursor \in Nat /\ bossCursor \in Nat
  /\ keys \subseteq Keys /\ offer \subseteq Keys

\* The lists an act is given last for every walk through it: no fight's room is
\* entered with its list used up, and no list is read behind its end
\* (next_room_transition_impl's assertion, whose margin is nothing for act 3 with
\* two bosses).
EncountersLast ==
  /\ monsterCursor <= MonsterListLen
  /\ phase = "ROOM_UNIMPLEMENTED" => room = "Event"

\* The run climbs stop by stop; a boss room stands exactly where a boss is due.
Path == INSTANCE RunPath WITH
  stop <- CurRow + 1, boss <- room = "Boss", over <- Over
ClimbsThePath == Path!Spec

\* The second boss of act 3 is not the first one again.
BossesDiffer ==
  [][room = "Boss" /\ room' = "Boss" /\ floor' # floor
       => bossCursor' # bossCursor]_vars

\* Act 4 is reached with all three keys, and a key is never lost again.
DoorNeedsKeys == act = FinalAct => keys = Keys

\* A fight that reopens its dialog never ends on a reward screen, the Smoke Bomb
\* drunk in it included (run_advance.cpp:3468, Colosseum's test).
SlaversReopen == phase = "COMBAT_REWARD" => event # "ColosseumPostCombat"

\* A run that is driven on ends: no room, screen or dialog keeps it.
RunEnds == <>Over
=============================================================================
