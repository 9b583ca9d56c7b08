------------------------------- MODULE MCCombat -------------------------------
(***************************************************************************)
(* Decks and encounters for the model checker.  Each .cfg picks a deck and *)
(* an encounter that make one of the hard cases of the engine happen.      *)
(***************************************************************************)
EXTENDS CombatSafety, TLC

CONSTANTS c1, c2, c3, c4, c5, c6

\* Cards that play cards, one that forbids it, a choice, and one that acts by
\* itself at the end of the turn.
AutoplayDeck == c1 :> "strike" @@ c2 :> "havoc" @@ c3 :> "power" @@ c4 :> "grit"
                @@ c5 :> "normality" @@ c6 :> "burn"
HavocDeck == c1 :> "havoc" @@ c2 :> "strike" @@ c3 :> "grit"

\* Attacks against what answers them, and a card that leaves unplayed.
AttackDeck == c1 :> "strike" @@ c2 :> "bite" @@ c3 :> "grit" @@ c4 :> "dazed"

TwoPlain == {<<"plain", "plain">>}
Thieves == {<<"thief", "spiker">>}
AwakenedCourt == {<<"cultist", "reviver">>}
SplitOrRise == {<<"splitter", "splitter">>} \cup AwakenedCourt
TimeEater == {<<"clock">>}
Attackers == SplitOrRise \cup Thieves \cup TimeEater
================================================================================
