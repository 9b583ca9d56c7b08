------------------------------ MODULE CombatRound ------------------------------
(***************************************************************************)
(* What the engine promises about the rounds of a fight, with the queues   *)
(* left out: the player's turn is ended once, then every monster in the    *)
(* fight is owed one turn, and the next round starts when none is owed one *)
(* any more.  A monster that joins during the round is owed nothing in it. *)
(* A fight may be over at any moment.  CombatPump implements it.           *)
(***************************************************************************)
EXTENDS Naturals

VARIABLES stage,     \* "start", "player", "ending", "called", "acting", "over"
          round,     \* rounds started
          inFight,   \* the monsters in the fight
          owed       \* those that have still to act in this round

vars == <<stage, round, inFight, owed>>

Init ==
  /\ stage = "start"
  /\ round = 0
  /\ inFight \in SUBSET Nat
  /\ owed = {}

Begin ==
  /\ stage = "start"
  /\ stage' = "player"
  /\ round' = 1
  /\ UNCHANGED <<inFight, owed>>

\* Monsters die, leave and join while effects resolve.
Battle ==
  /\ stage \notin {"start", "over"}
  /\ inFight' \in SUBSET Nat
  /\ UNCHANGED <<stage, round, owed>>

\* The player's turn ends; what the end of the turn triggers still runs.
EndTurn ==
  /\ stage = "player"
  /\ stage' = "ending"
  /\ UNCHANGED <<round, inFight, owed>>

CallMonsters ==
  /\ stage = "ending"
  /\ stage' = "called"
  /\ UNCHANGED <<round, inFight, owed>>

Muster ==
  /\ stage = "called"
  /\ stage' = "acting"
  /\ owed' = inFight
  /\ UNCHANGED <<round, inFight>>

\* One monster has had its turn, or has left the fight before it came.
Served ==
  /\ stage = "acting"
  /\ \E m \in owed : owed' = owed \ {m}
  /\ UNCHANGED <<stage, round, inFight>>

NextRound ==
  /\ stage = "acting"
  /\ owed = {}
  /\ inFight # {}
  /\ stage' = "player"
  /\ round' = round + 1
  /\ UNCHANGED <<inFight, owed>>

Over ==
  /\ stage \notin {"start", "over"}
  /\ stage' = "over"
  /\ UNCHANGED <<round, inFight, owed>>

Next ==
  \/ Begin \/ Battle \/ EndTurn \/ CallMonsters \/ Muster \/ Served
  \/ NextRound \/ Over

Spec == Init /\ [][Next]_vars
================================================================================
