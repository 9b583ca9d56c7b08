----------------------------- MODULE MCMonsters -----------------------------
(***************************************************************************)
(* The encounters of the registry, one for each way their monsters act     *)
(* together; where an encounter draws its monsters, one of its draws.      *)
(***************************************************************************)
EXTENDS MonsterFight

Exordium ==
  {<<"CULTIST">>, <<"JAW_WORM">>, <<"LOUSE_NORMAL", "LOUSE_DEFENSIVE">>,
   <<"SPIKE_SLIME_SMALL", "ACID_SLIME_MEDIUM">>, <<"ACID_SLIME_SMALL", "SPIKE_SLIME_MEDIUM">>,
   <<"GREMLIN_FAT", "GREMLIN_TSUNDERE", "GREMLIN_WIZARD">>, <<"LOOTER">>, <<"SLAVER_BLUE">>,
   <<"SLAVER_RED">>, <<"FUNGI_BEAST">>, <<"GREMLIN_NOB">>, <<"LAGAVULIN">>,
   <<"LAGAVULIN_AWAKE">>, <<"SENTRY", "SENTRY", "SENTRY">>, <<"SPIKE_SLIME_LARGE">>,
   <<"ACID_SLIME_LARGE">>, <<"THE_GUARDIAN">>, <<"HEXAGHOST">>, <<"SLIME_BOSS">>}

City ==
  {<<"SPHERIC_GUARDIAN">>, <<"SHELLED_PARASITE">>, <<"LOOTER", "MUGGER">>, <<"BYRD", "CHOSEN">>,
   <<"SNAKE_PLANT">>, <<"SNECKO">>, <<"CENTURION", "HEALER">>, <<"TASKMASTER">>,
   <<"GREMLIN_WARRIOR", "GREMLIN_THIEF", "GREMLIN_LEADER">>, <<"BOOK_OF_STABBING">>,
   <<"BRONZE_AUTOMATON">>, <<"THE_COLLECTOR">>, <<"CHAMP">>,
   <<"BANDIT_POINTY", "BANDIT_LEADER", "BANDIT_BEAR">>}

Beyond ==
  {<<"DARKLING", "DARKLING", "DARKLING">>, <<"ORB_WALKER">>, <<"REPULSOR", "EXPLODER", "SPIKER">>,
   <<"SPIRE_GROWTH">>, <<"TRANSIENT">>, <<"MAW">>, <<"JAW_WORM_HARD">>, <<"WRITHING_MASS">>,
   <<"GIANT_HEAD">>, <<"NEMESIS">>, <<"SNAKE_DAGGER", "REPTOMANCER", "SNAKE_DAGGER">>,
   <<"CULTIST", "CULTIST", "AWAKENED_ONE">>, <<"TIME_EATER">>, <<"DECA", "DONU">>,
   <<"SPIRE_SHIELD", "SPIRE_SPEAR">>, <<"CORRUPT_HEART">>}

Encounters == Exordium \cup City \cup Beyond
Gremlin == {"GREMLIN_WARRIOR", "GREMLIN_WIZARD"}
=============================================================================
