------------------------------ MODULE RunPath ------------------------------
\* What a run promises about the way up, without rooms, lists or dialogs: an
\* act is its rows, its bosses, and the room behind them; stops are taken in
\* order, none is skipped and none is taken twice. The last act is built where
\* the third one ended, at whatever height that is.
EXTENDS Naturals

CONSTANT DoubleBoss   \* act 3 has a second boss (ascension 20)

VARIABLES act, stop, boss, over

vars == <<act, stop, boss, over>>

\* Rows of the act's map that hold a room to walk to.
Rows(a) == IF a = 4 THEN 3 ELSE 15
\* Boss rooms behind the last row.
Bosses(a) == IF a = 3 /\ DoubleBoss THEN 2 ELSE 1
BossStops(a) == Rows(a) + 1 .. Rows(a) + Bosses(a)
\* The chest of acts 1 and 2, the Spire Heart of act 3, the end.
LastStop(a) == Rows(a) + Bosses(a) + 1

Init == act = 1 /\ stop = 0 /\ boss = FALSE /\ over = FALSE

Climb == /\ ~over
         /\ stop < LastStop(act)
         /\ stop' = stop + 1
         /\ boss' = (stop' \in BossStops(act))
         /\ over' \in BOOLEAN
         /\ act = 4 /\ stop' = LastStop(4) => over'
         /\ UNCHANGED act

NextAct == /\ ~over
           /\ act < 4 /\ stop = LastStop(act)
           /\ act' = act + 1 /\ stop' = 0
           /\ UNCHANGED <<boss, over>>

End == ~over /\ over' = TRUE /\ UNCHANGED <<act, stop, boss>>

Next == Climb \/ NextAct \/ End

Spec == Init /\ [][Next]_vars
=============================================================================
