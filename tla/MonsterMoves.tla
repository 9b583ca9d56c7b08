--------------------------- MODULE MonsterMoves ---------------------------
(***************************************************************************)
(* How the monsters choose their next move: each operator is one get_move  *)
(* or roll_move of src/src/engine/monster_*.cpp.  Where a routine throws   *)
(* again, the operator lists what any chain of throws may end with.        *)
(* `alive' and `others' count records of the field as the routine does,    *)
(* `hurt' is whether the group misses more than 20 hp, `slot' is the index *)
(* of the record in the field.                                             *)
(*                                                                         *)
(* A die is a free choice: a routine yields the set of records it may      *)
(* leave, one for every way its throws can fall.  Hit points are the three *)
(* levels the routines tell apart: well (above half), low, and none.       *)
(* Amounts, intents shown to the player and the seeded streams are left    *)
(* out.  The ascension is 20, as the engine is built (kMonsterAscension).  *)
(***************************************************************************)
EXTENDS Integers, Sequences, FiniteSets

(***************************************************************************)
(* The record of one monster, and what the routines that choose its next   *)
(* move read of it (combat_state.hpp, monster_dispatch.hpp).               *)
(***************************************************************************)
None == 0
Low == 1
Well == 2

\* Flags and counters that are not used by a routine stay as they were made.
Record(who, id, hp, x) ==
  [who |-> who,             \* the model's name for the record, stable when slots move
   id |-> id, hp |-> hp,
   moves |-> <<"-", "-">>,  \* move_history, newest first: the intent, the one before
   on |-> {},               \* flag bits that are set
   n |-> 0, k |-> 0,        \* the counters packed into pad0 and flags
   x |-> x]                 \* draw_x

Intent(m) == m.moves[1]
Half(m) == "half" \in m.on
IsDying(m) == m.hp = None /\ ~Half(m)
Escaped(m) == "escaped" \in m.on
DeadOrEscaped(m) == m.hp = None \/ Escaped(m)
BasicallyDead(m) == IsDying(m) \/ Escaped(m)

\* set_monster_move, last_move_is, last_two_moves_are, last_move_before_is.
Move(m, v) == [m EXCEPT !.moves = <<v, m.moves[1]>>]
LastIs(m, v) == m.moves[1] = v
LastBefore(m, v) == m.moves[2] = v
LastTwo(m, v) == LastIs(m, v) /\ LastBefore(m, v)

\* Ways of writing a routine: any of these moves; this move unless it is barred.
AnyOf(m, S) == {Move(m, v) : v \in S}
Unless(barred, others, v) == IF barred THEN others ELSE {v}
Raise(m, flag) == [m EXCEPT !.on = @ \cup {flag}]
Lower(m, flag) == [m EXCEPT !.on = @ \ {flag}]
Has(m, flag) == flag \in m.on

\* A turn: the record it leaves at once, and what it leaves to the queue.
Do(op) == [op |-> op, v |-> "-"]
Hit == Do("hit")
Roll == Do("roll")
Set(v) == [op |-> "set", v |-> v]
Turn(m, q) == {[m |-> m, q |-> q]}

(***************************************************************************)
(* The first act.                                                          *)
(***************************************************************************)

JawWormNext(m) ==
  AnyOf(m, Unless(LastIs(m, "CHOMP"), {"BELLOW", "THRASH"}, "CHOMP")
           \cup Unless(LastTwo(m, "THRASH"), {"CHOMP", "BELLOW"}, "THRASH")
           \cup Unless(LastIs(m, "BELLOW"), {"CHOMP", "THRASH"}, "BELLOW"))

CultistNext(m) == AnyOf(m, {"DARK_STRIKE"})

\* `spit' is the move that is not a bite: STRENGTHEN or WEAKEN.
LouseNext(m, spit) ==
  AnyOf(m, Unless(LastIs(m, spit), {"BITE"}, spit)
           \cup Unless(LastTwo(m, "BITE"), {spit}, "BITE"))

SpikeSlimeNext(m) ==       \* the medium and the large one
  AnyOf(m, Unless(LastTwo(m, "FLAME_TACKLE"), {"FRAIL_LICK"}, "FLAME_TACKLE")
           \cup Unless(LastIs(m, "FRAIL_LICK"), {"FLAME_TACKLE"}, "FRAIL_LICK"))

AcidSlimeNext(m) ==        \* the medium and the large one
  AnyOf(m, Unless(LastTwo(m, "WOUND_TACKLE"), {"TACKLE", "LICK"}, "WOUND_TACKLE")
           \cup Unless(LastTwo(m, "TACKLE"), {"WOUND_TACKLE", "LICK"}, "TACKLE")
           \cup Unless(LastIs(m, "LICK"), {"WOUND_TACKLE", "TACKLE"}, "LICK"))

SmallAcidSlimeNext(m) == AnyOf(m, IF LastIs(m, "LICK") THEN {"TACKLE"} ELSE {"LICK"})

FungiBeastNext(m) ==
  AnyOf(m, Unless(LastTwo(m, "BITE"), {"GROW"}, "BITE")
           \cup Unless(LastIs(m, "GROW"), {"BITE"}, "GROW"))

GremlinNobNext(m) ==
  CASE LastIs(m, "-") -> AnyOf(m, {"BELLOW"})
    [] ~LastIs(m, "SKULL_BASH") /\ ~LastBefore(m, "SKULL_BASH") -> AnyOf(m, {"SKULL_BASH"})
    [] OTHER -> AnyOf(m, Unless(LastTwo(m, "BULL_RUSH"), {"SKULL_BASH"}, "BULL_RUSH"))

SlaverBlueNext(m) ==
  LET otherwise == Unless(LastIs(m, "RAKE"), {"STAB"}, "RAKE")
  IN  AnyOf(m, Unless(LastTwo(m, "STAB"), otherwise, "STAB") \cup otherwise)

SlaverRedNext(m) ==
  LET otherwise == Unless(LastIs(m, "SCRAPE"), {"STAB"}, "SCRAPE")
      stab == Unless(LastTwo(m, "STAB"), otherwise, "STAB")
  IN  AnyOf(m, otherwise \cup (IF Has(m, "entangled") THEN stab ELSE {"ENTANGLE"}))

\* A lone Tsundere bashes; it asks after its own block is queued.
TsundereNext(m, alive) == AnyOf(m, IF alive > 1 THEN {"PROTECT"} ELSE {"BASH"})

\* The slot's parity picks the opening; then bolt and beam alternate.
SentryNext(m, slot) ==
  AnyOf(m, IF LastIs(m, "-") THEN (IF slot % 2 = 0 THEN {"BOLT"} ELSE {"BEAM"})
           ELSE IF LastIs(m, "BEAM") THEN {"BOLT"} ELSE {"BEAM"})

\* n counts the strong attacks since the last debuff.
LagavulinNext(m) ==
  AnyOf(m, CASE ~Has(m, "out") -> {"IDLE"}
             [] m.n < 2 -> Unless(LastTwo(m, "STRONG_ATK"), {"DEBUFF"}, "STRONG_ATK")
             [] OTHER -> {"DEBUFF"})

(***************************************************************************)
(* Hexaghost: n is the number of orbs lit.  The move that was made lights  *)
(* or spends orbs, and the orbs choose the next; the sixth pushes INFERNO  *)
(* onto the history twice, once when it is lit and once when it is read.   *)
(***************************************************************************)
OrbMoves == <<"SEAR", "TACKLE", "SEAR", "INFLAME", "TACKLE", "SEAR", "INFERNO">>

Relit(m) ==
  CASE Intent(m) \in {"DIVIDER", "INFERNO"} -> [m EXCEPT !.n = 0]
    [] Intent(m) \in {"SEAR", "TACKLE", "INFLAME"} ->
         LET lit == [m EXCEPT !.n = IF @ < 6 THEN @ + 1 ELSE @]
         IN  IF lit.n = 6 THEN Move(lit, "INFERNO") ELSE lit
    [] OTHER -> m

HexaghostNext(m) == AnyOf(Relit(m), {OrbMoves[Relit(m).n + 1]})

(***************************************************************************)
(* The second act.                                                         *)
(***************************************************************************)

ProtectOrFury(alive) == IF alive > 1 THEN {"PROTECT"} ELSE {"FURY"}

CenturionNext(m, alive) ==
  AnyOf(m, Unless(LastTwo(m, "SLASH"), ProtectOrFury(alive), "SLASH")
           \cup IF LastTwo(m, "PROTECT") \/ LastTwo(m, "FURY")
                THEN {} ELSE ProtectOrFury(alive))

HealerNext(m, hurt) ==
  AnyOf(m, IF hurt /\ ~LastTwo(m, "HEAL") THEN {"HEAL"}
           ELSE LET buff == Unless(LastTwo(m, "BUFF"), {"ATTACK"}, "BUFF")
                IN  Unless(LastIs(m, "ATTACK"), buff, "ATTACK") \cup buff)

ChosenNext(m) ==
  AnyOf(m, CASE LastIs(m, "-") -> {"HEX"}
             [] ~LastIs(m, "DEBILITATE") /\ ~LastIs(m, "DRAIN") -> {"DEBILITATE", "DRAIN"}
             [] OTHER -> {"ZAP", "POKE"})

ByrdNext(m) ==
  IF LastIs(m, "-") THEN AnyOf(m, {"CAW", "PECK"})
  ELSE AnyOf(m, IF ~Has(m, "flying") THEN {"HEADBUTT"}
                ELSE Unless(LastTwo(m, "PECK"), {"SWOOP", "CAW"}, "PECK")
                     \cup Unless(LastIs(m, "SWOOP"), {"CAW", "PECK"}, "SWOOP")
                     \cup Unless(LastIs(m, "CAW"), {"SWOOP", "PECK"}, "CAW"))

ShelledParasiteNext(m) ==
  AnyOf(m, IF LastIs(m, "-") THEN {"FELL"}
           ELSE (IF LastIs(m, "FELL") THEN {} ELSE {"FELL"})
                \cup Unless(LastTwo(m, "DOUBLE_STRIKE"), {"LIFE_SUCK"}, "DOUBLE_STRIKE")
                \cup Unless(LastTwo(m, "LIFE_SUCK"), {"DOUBLE_STRIKE"}, "LIFE_SUCK"))

SphericGuardianNext(m) ==
  CASE LastIs(m, "-") -> AnyOf(Raise(m, "second"), {"INITIAL_BLOCK_GAIN"})
    [] Has(m, "second") -> AnyOf(Lower(m, "second"), {"FRAIL_ATTACK"})
    [] OTHER -> AnyOf(m, IF LastIs(m, "BIG_ATTACK") THEN {"BLOCK_ATTACK"} ELSE {"BIG_ATTACK"})

SnakePlantNext(m) ==
  AnyOf(m, Unless(LastTwo(m, "CHOMPY_CHOMPS"), {"SPORES"}, "CHOMPY_CHOMPS")
           \cup Unless(LastIs(m, "SPORES") \/ LastBefore(m, "SPORES"), {"CHOMPY_CHOMPS"}, "SPORES"))

SneckoNext(m) ==
  AnyOf(m, IF LastIs(m, "-") THEN {"GLARE"}
           ELSE {"TAIL"} \cup Unless(LastTwo(m, "BITE"), {"TAIL"}, "BITE"))

TaskmasterNext(m) == AnyOf(m, {"SCOURING_WHIP"})

BookOfStabbingNext(m) ==
  AnyOf(m, Unless(LastIs(m, "BIG_STAB"), {"STAB"}, "BIG_STAB")
           \cup Unless(LastTwo(m, "STAB"), {"BIG_STAB"}, "STAB"))

\* With one gremlin left a throw that is barred is thrown again until it is not.
GremlinLeaderNext(m, others) ==
  AnyOf(m, CASE others = 0 -> Unless(LastIs(m, "RALLY"), {"STAB"}, "RALLY")
                              \cup Unless(LastIs(m, "STAB"), {"RALLY"}, "STAB")
             [] others = 1 -> (IF LastIs(m, "RALLY") THEN {} ELSE {"RALLY"})
                              \cup Unless(LastIs(m, "ENCOURAGE"), {"STAB"}, "ENCOURAGE")
                              \cup (IF LastIs(m, "STAB") THEN {} ELSE {"STAB"})
             [] OTHER -> Unless(LastIs(m, "ENCOURAGE"), {"STAB"}, "ENCOURAGE")
                         \cup Unless(LastIs(m, "STAB"), {"ENCOURAGE"}, "STAB"))

(***************************************************************************)
(* The Champ: n turns since the last taunt, k defensive stances taken.     *)
(* Below half of its hit points it shouts once, and executes from then on. *)
(***************************************************************************)
ChampNext(m) ==
  LET later == [m EXCEPT !.n = IF @ < 15 THEN @ + 1 ELSE @]
      mayStand == m.k < 2 /\ ~LastIs(m, "DEFENSIVE_STANCE")
      gloat == IF mayStand \/ LastIs(m, "GLOAT") \/ LastIs(m, "DEFENSIVE_STANCE")
               THEN {} ELSE {"GLOAT"}
      slap  == IF LastIs(m, "FACE_SLAP") THEN {} ELSE {"FACE_SLAP"}
      blow  == Unless(LastIs(m, "HEAVY_SLASH"), {"FACE_SLAP"}, "HEAVY_SLASH")
  IN  CASE m.hp = Low /\ ~Has(m, "threshold") -> AnyOf(Raise(later, "threshold"), {"ANGER"})
        [] Has(m, "threshold") /\ ~LastIs(m, "EXECUTE") /\ ~LastBefore(m, "EXECUTE")
             -> AnyOf(later, {"EXECUTE"})
        [] later.n = 4 /\ ~Has(m, "threshold") -> AnyOf([later EXCEPT !.n = 0], {"TAUNT"})
        [] OTHER -> AnyOf(later, gloat \cup slap \cup blow)
                    \cup IF mayStand THEN AnyOf([later EXCEPT !.k = @ + 1], {"DEFENSIVE_STANCE"})
                         ELSE {}

\* n moves since the last beam.
BronzeAutomatonNext(m) ==
  CASE LastIs(m, "-") -> AnyOf(m, {"SPAWN_ORBS"})
    [] m.n = 4 -> AnyOf([m EXCEPT !.n = 0], {"HYPER_BEAM"})
    [] m.n < 4 /\ LastIs(m, "HYPER_BEAM") -> AnyOf(m, {"BOOST"})
    [] OTHER -> AnyOf([m EXCEPT !.n = @ + 1],
                      IF LastIs(m, "BOOST") \/ LastIs(m, "SPAWN_ORBS") THEN {"FLAIL"} ELSE {"BOOST"})

BronzeOrbNext(m) ==
  AnyOf(m, LET beam == Unless(LastTwo(m, "BEAM"), {"SUPPORT_BEAM"}, "BEAM")
           IN  beam \cup Unless(LastTwo(m, "SUPPORT_BEAM"), beam, "SUPPORT_BEAM"))
  \cup IF Has(m, "stasis") THEN {} ELSE AnyOf(Raise(m, "stasis"), {"STASIS"})

\* n turns taken; the first spawn and the one great debuff leave flags.
CollectorNext(m, minionDead) ==
  AnyOf(m, CASE ~Has(m, "spawned") -> {"SPAWN"}
             [] Has(m, "spawned") /\ m.n >= 3 /\ ~Has(m, "ult") -> {"MEGA_DEBUFF"}
             [] OTHER ->
                  (IF minionDead /\ ~LastIs(m, "REVIVE") THEN {"REVIVE"} ELSE {})
                  \cup (IF LastTwo(m, "FIREBALL") THEN {} ELSE {"FIREBALL"})
                  \cup (IF LastIs(m, "BUFF") THEN {"FIREBALL"} ELSE {"BUFF"}))

(***************************************************************************)
(* The third act and the ending.                                           *)
(***************************************************************************)

ExploderNext(m) ==
  AnyOf(m, IF LastIs(m, "BLOCK") \/ LastTwo(m, "ATTACK") THEN {"BLOCK"} ELSE {"ATTACK"})

RepulsorNext(m) == AnyOf(m, {"DAZE"} \cup Unless(LastIs(m, "ATTACK"), {}, "ATTACK"))

\* n thorns it has grown; after the sixth it only attacks.
SpikerNext(m) ==
  AnyOf(m, IF m.n > 5 THEN {"ATTACK"}
           ELSE {"BUFF_THORNS"} \cup Unless(LastIs(m, "ATTACK"), {}, "ATTACK"))

OrbWalkerNext(m) ==
  AnyOf(m, Unless(LastTwo(m, "CLAW"), {"LASER"}, "CLAW")
           \cup Unless(LastTwo(m, "LASER"), {"CLAW"}, "LASER"))

TransientNext(m) == AnyOf(m, {"ATTACK"})

SpireGrowthNext(m, constricted) ==
  AnyOf(m, IF ~constricted /\ ~LastIs(m, "CONSTRICT") THEN {"CONSTRICT"}
           ELSE Unless(LastTwo(m, "QUICK_TACKLE"), {}, "QUICK_TACKLE")
                \cup Unless(LastTwo(m, "SMASH"), {"QUICK_TACKLE"}, "SMASH"))

MawNext(m) ==
  AnyOf(m, IF ~Has(m, "roared") THEN {"ROAR"}
           ELSE Unless(LastIs(m, "NOMNOMNOM"), {}, "NOMNOMNOM")
                \cup Unless(LastIs(m, "SLAM") \/ LastIs(m, "NOMNOMNOM"), {"DROOL"}, "SLAM"))

\* Any chain of throws; the depth at which the code gives up is not reached.
WrithingMassNext(m) ==
  LET spent == Has(m, "used") \/ LastIs(m, "MEGA_DEBUFF")
      usual == {"MULTI_HIT", "ATTACK_BLOCK", "ATTACK_DEBUFF"}
  IN  AnyOf(m, IF LastIs(m, "-") THEN usual
               ELSE (usual \ {m.moves[1]})
                    \cup (IF spent THEN {} ELSE {"MEGA_DEBUFF"})
                    \cup (IF spent \/ ~LastIs(m, "BIG_HIT") THEN {"BIG_HIT"} ELSE {}))

\* n counts down to the time that is never over.
GiantHeadNext(m) ==
  IF m.n <= 1 THEN AnyOf(m, {"IT_IS_TIME"})
  ELSE AnyOf([m EXCEPT !.n = @ - 1],
             Unless(LastTwo(m, "GLARE"), {"COUNT"}, "GLARE")
             \cup Unless(LastTwo(m, "COUNT"), {"GLARE"}, "COUNT"))

\* n choices until the scythe may be taken again.
NemesisNext(m) ==
  LET less == [m EXCEPT !.n = IF @ > 0 THEN @ - 1 ELSE 0]
      takeScythe == AnyOf([less EXCEPT !.n = 2], {"SCYTHE"})
      ready == less.n = 0
      triple == Unless(LastTwo(m, "TRI_ATTACK"), {"TRI_BURN"}, "TRI_ATTACK")
      burn == Unless(LastIs(m, "TRI_BURN"), {"TRI_ATTACK"}, "TRI_BURN")
  IN  IF LastIs(m, "-") THEN AnyOf(less, {"TRI_ATTACK", "TRI_BURN"})
      ELSE AnyOf(less, triple \cup burn)
           \cup (IF ready /\ (~LastIs(m, "SCYTHE") \/ LastTwo(m, "TRI_ATTACK")) THEN takeScythe ELSE {})

\* A darkling that was half dead is whole again when it next chooses.
DarklingNext(m, slot) ==
  LET whole == IF LastIs(m, "REINCARNATE") THEN Lower(m, "half") ELSE m
  IN  AnyOf(whole,
        CASE Half(whole) -> {"REINCARNATE"}
          [] ~Half(whole) /\ LastIs(m, "-") -> {"HARDEN", "NIP"}
          [] OTHER -> (IF slot % 2 = 0 THEN Unless(LastIs(m, "CHOMP"), {}, "CHOMP") ELSE {})
                      \cup Unless(LastIs(m, "HARDEN"), {"NIP"}, "HARDEN")
                      \cup Unless(LastTwo(m, "NIP"), {}, "NIP"))

AwakenedOneNext(m) ==
  CASE Has(m, "form1") /\ Has(m, "first") -> AnyOf(Lower(m, "first"), {"SLASH"})
    [] Has(m, "form1") /\ ~Has(m, "first") ->
         AnyOf(m, Unless(LastIs(m, "SOUL_STRIKE"), {"SLASH"}, "SOUL_STRIKE")
                  \cup Unless(LastTwo(m, "SLASH"), {"SOUL_STRIKE"}, "SLASH"))
    [] ~Has(m, "form1") /\ Has(m, "first") -> AnyOf(m, {"DARK_ECHO"})
    [] OTHER -> AnyOf(m, Unless(LastTwo(m, "SLUDGE"), {"TACKLE"}, "SLUDGE")
                         \cup Unless(LastTwo(m, "TACKLE"), {"SLUDGE"}, "TACKLE"))

TimeEaterNext(m) ==
  IF m.hp = Low /\ ~Has(m, "hasted") THEN AnyOf(Raise(m, "hasted"), {"HASTE"})
  ELSE AnyOf(m, Unless(LastTwo(m, "REVERBERATE"), {}, "REVERBERATE")
                \cup Unless(LastIs(m, "HEAD_SLAM"), {"REVERBERATE", "RIPPLE"}, "HEAD_SLAM")
                \cup Unless(LastIs(m, "RIPPLE"), {}, "RIPPLE"))

\* Donu opens with its circle, Deca with its beam; each alternates.
DonuNext(m) == AnyOf(m, IF Has(m, "attacking") THEN {"BEAM"} ELSE {"CIRCLE_OF_PROTECTION"})
DecaNext(m) == AnyOf(m, IF Has(m, "attacking") THEN {"BEAM"} ELSE {"SQUARE_OF_PROTECTION"})

ReptomancerNext(m, others) ==
  AnyOf(m, IF LastIs(m, "-") THEN {"SPAWN_DAGGER"}
           ELSE Unless(LastIs(m, "SNAKE_STRIKE"), {}, "SNAKE_STRIKE")
                \cup Unless(LastTwo(m, "SPAWN_DAGGER") \/ others > 3, {"SNAKE_STRIKE"}, "SPAWN_DAGGER")
                \cup Unless(LastIs(m, "BIG_BITE"), {}, "BIG_BITE"))

SnakeDaggerNext(m) == AnyOf(m, IF LastIs(m, "-") THEN {"WOUND"} ELSE {"EXPLODE"})

\* The guards of the ending and the heart go round a cycle of three, at k.
Bump(m) == [m EXCEPT !.k = (@ + 1) % 3]

SpireShieldNext(m) ==
  AnyOf(Bump(m), CASE m.k = 0 -> {"FORTIFY", "BASH"}
                   [] m.k = 1 -> Unless(LastIs(m, "BASH"), {"FORTIFY"}, "BASH")
                   [] m.k = 2 -> {"SMASH"})

SpireSpearNext(m) ==
  AnyOf(Bump(m), CASE m.k = 0 -> Unless(LastIs(m, "BURN_STRIKE"), {"PIERCER"}, "BURN_STRIKE")
                   [] m.k = 1 -> {"SKEWER"}
                   [] m.k = 2 -> {"PIERCER", "BURN_STRIKE"})

CorruptHeartNext(m) ==
  IF LastIs(m, "-") THEN AnyOf(m, {"DEBILITATE"})
  ELSE AnyOf(Bump(m), CASE m.k = 0 -> {"BLOOD_SHOTS", "ECHO_ATTACK"}
                        [] m.k = 1 -> Unless(LastIs(m, "ECHO_ATTACK"), {"BLOOD_SHOTS"}, "ECHO_ATTACK")
                        [] m.k = 2 -> {"GAIN_ONE_STRENGTH"})
===========================================================================
