----------------------------- MODULE OracleLink -----------------------------
(***************************************************************************)
(* One recorded run over the pipe between the campaign driver and the real *)
(* game.  The driver sends a command and waits for a fresh state that is   *)
(* ready (Stepper.step); on a timeout it sends "state" and takes any       *)
(* message as the answer.  The game's mod reads at most one command per    *)
(* frame, and sends a state when "state" asked for one or when the game    *)
(* has settled after a command (CommunicationMod, GameStateListener).      *)
(*                                                                         *)
(* A command is "act" or "state": which card, which choice is left out.    *)
(* The game itself is external: it accepts a command and settles some      *)
(* frames later, accepts it and never becomes ready again (an advertised   *)
(* no-op), or rejects it.  `world' counts the commands that took effect.   *)
(***************************************************************************)
EXTENDS Naturals, Sequences

CONSTANTS MaxActions,  \* --max-actions
          MaxNoops,    \* --max-noops
          MaxErrors,   \* the literal 8 of run_seed
          MaxStuck     \* the literal 12 of run_seed

ASSUME LinkAssumption == {MaxActions, MaxNoops, MaxErrors, MaxStuck} \subseteq Nat

VARIABLES inbox,   \* CommunicationMod.readQueue
          game,    \* [up, world, pending, waiting, over]
          wire,    \* messages written by the game and not yet read
          unread,  \* Reader.latest, empty unless it came after what the driver waits behind
          driver   \* [pc, why, view, kind, actions, noops, errors, stuck, outcome]

linkVars == <<inbox, game, wire, unread, driver>>

Command == {"act", "state"}
Outcome == {"none", "over", "action_cap", "error_wedge", "noop_wedge",
            "legal_exhaustion", "gone"}

FirstState == [error |-> FALSE, ready |-> TRUE, world |-> 0, over |-> FALSE]
NewGame == [up |-> TRUE, world |-> 0, pending |-> 0, waiting |-> TRUE, over |-> FALSE]
NewRun == [pc |-> "decide", why |-> "act", view |-> FirstState, kind |-> "ready",
           actions |-> 0, noops |-> 0, errors |-> 0, stuck |-> 0, outcome |-> "none"]
Idle == [NewRun EXCEPT !.pc = "off"]

LinkInit ==
  /\ inbox = << >> /\ wire = << >> /\ unread = << >>
  /\ game = [NewGame EXCEPT !.up = FALSE]
  /\ driver = Idle

\* run_seed begins: `start' was answered by a first state of the dungeon.
StartRun ==
  /\ driver' = NewRun
  /\ inbox' = << >> /\ wire' = << >> /\ unread' = << >>
  /\ game' = NewGame

(***************************************************************************)
(* The game's side.  One frame: receivePreUpdate reads a command,          *)
(* receivePostDungeonUpdate sees whether the game has settled, and         *)
(* receivePostUpdate sends a state if one is due.                          *)
(***************************************************************************)
StateMessage(g) == [error |-> FALSE, ready |-> g.waiting, world |-> g.world, over |-> g.over]
ErrorMessage(g) == [error |-> TRUE, ready |-> g.waiting, world |-> 0, over |-> FALSE]

\* hasDungeonStateChanged: what was pending has happened, and perhaps the end.
Settled(g) == {[g EXCEPT !.world = @ + g.pending, !.pending = 0, !.waiting = TRUE,
                         !.over = end] : end \in {g.over, TRUE}}

\* What executeCommand may make of an "act": taken, taken without effect, rejected.
Accepted(g) == {[g EXCEPT !.pending = IF g.over THEN @ ELSE @ + 1, !.waiting = FALSE],
                [g EXCEPT !.waiting = FALSE]}

\* The rest of a frame: the game settles, or not yet, and what is due is sent.
FinishFrame(g, due, sent) ==
  \/ /\ game' = g
     /\ wire' = wire \o sent \o (IF due THEN <<StateMessage(g)>> ELSE << >>)
  \/ /\ g.pending > 0
     /\ \E s \in Settled(g) :
          game' = s /\ wire' = wire \o sent \o <<StateMessage(s)>>

Frame ==
  /\ game.up
  /\ \/ /\ inbox = << >> /\ game.pending > 0
        /\ FinishFrame(game, FALSE, << >>)
        /\ UNCHANGED inbox
     \/ /\ inbox # << >> /\ inbox' = Tail(inbox)
        /\ \/ Head(inbox) = "state" /\ FinishFrame(game, TRUE, << >>)
           \/ Head(inbox) = "act" /\ \E g \in Accepted(game) : FinishFrame(g, FALSE, << >>)
           \/ Head(inbox) = "act" /\ FinishFrame(game, FALSE, <<ErrorMessage(game)>>)
  /\ UNCHANGED <<unread, driver>>

\* The game process dies; what it had written can still be read.
GameDies ==
  /\ game.up
  /\ game' = [game EXCEPT !.up = FALSE]
  /\ UNCHANGED <<inbox, wire, unread, driver>>

(***************************************************************************)
(* The driver's reader thread: only the latest message is kept.            *)
(***************************************************************************)
Read ==
  /\ driver.pc # "off" /\ wire # << >>
  /\ unread' = <<Head(wire)>> /\ wire' = Tail(wire)
  /\ UNCHANGED <<inbox, game, driver>>

(***************************************************************************)
(* The driver's run loop and its stepper.                                  *)
(***************************************************************************)
\* step: what has been read so far is behind the driver, and the state it held is spent.
Send(cmd, next) ==
  /\ inbox' = Append(inbox, cmd)
  /\ unread' = << >>
  /\ driver' = [next EXCEPT !.view = FirstState, !.kind = "ready"]
  /\ UNCHANGED <<game, wire>>

End(outcome) ==
  /\ driver' = [Idle EXCEPT !.pc = "ended", !.outcome = outcome]
  /\ UNCHANGED <<inbox, game, wire, unread>>

\* The top of run_seed's loop, holding the state `view'.
Decide ==
  /\ driver.pc = "decide"
  /\ LET v == driver.view IN
     \/ v.over /\ End("over")
     \/ ~v.over /\ driver.actions >= MaxActions /\ End("action_cap")
     \/ /\ ~v.over /\ driver.actions < MaxActions /\ ~v.error
        /\ Send("act", [driver EXCEPT !.pc = "wait", !.why = "act", !.actions = @ + 1,
                                      !.stuck = 0])
     \/ \* no legal command in this state: ask again, a bounded number of times
        /\ ~v.over /\ driver.actions < MaxActions /\ v.error
        /\ IF driver.stuck + 1 >= MaxStuck
           THEN End("legal_exhaustion")
           ELSE Send("state", [driver EXCEPT !.pc = "wait", !.why = "refresh",
                                             !.stuck = @ + 1])

\* step has an answer of the given kind; what the run loop makes of it.
Answered(kind, m) ==
  LET d == [driver EXCEPT !.view = m, !.kind = kind] IN
  \/ /\ driver.why = "act" /\ kind = "error"
     /\ IF d.errors + 1 > MaxErrors
        THEN End("error_wedge")
        ELSE Send("state", [d EXCEPT !.pc = "wait", !.why = "refresh", !.errors = @ + 1])
  \/ /\ driver.why = "act" /\ kind = "noop" /\ ~m.over
     /\ IF d.noops + 1 > MaxNoops
        THEN End("noop_wedge")
        ELSE \E esc \in Command :
               Send(esc, [d EXCEPT !.pc = "wait", !.why = "escape", !.noops = @ + 1,
                                   !.actions = @ + 1])
  \/ /\ \/ driver.why # "act"
        \/ kind = "ready"
        \/ kind = "noop" /\ m.over
     /\ driver' = [d EXCEPT !.pc = "decide", !.why = "act"]
     /\ unread' = << >>
     /\ UNCHANGED <<inbox, game, wire>>

Actionable(m) == m.error \/ m.ready

\* await_actionable: a fresh message that is ready or an error is the answer;
\* any other is passed over.
AwaitActionable ==
  /\ driver.pc = "wait" /\ unread # << >>
  /\ IF Actionable(unread[1])
     THEN Answered(IF unread[1].error THEN "error" ELSE "ready", unread[1])
     ELSE unread' = << >> /\ UNCHANGED <<inbox, game, wire, driver>>

\* The watchdog: no fresh state in time, so ping the game with "state".
Timeout ==
  /\ driver.pc = "wait" /\ unread = << >>
  /\ Send("state", [driver EXCEPT !.pc = "probe"])

\* await_any: whatever arrives first answers the probe.
AwaitAny ==
  /\ driver.pc = "probe" /\ unread # << >>
  /\ Answered(IF unread[1].error THEN "error" ELSE "noop", unread[1])

\* GameGone: end of the pipe, or not even the probe was answered.
Gone ==
  /\ unread = << >>
  /\ \/ driver.pc = "wait" /\ ~game.up /\ wire = << >>
     \/ driver.pc = "probe"
  /\ End("gone")

DriverStep == Decide \/ AwaitActionable \/ AwaitAny \/ Timeout \/ Gone

=============================================================================
