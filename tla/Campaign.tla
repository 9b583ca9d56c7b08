------------------------------ MODULE Campaign ------------------------------
(***************************************************************************)
(* A campaign records one run of the game per seed.  The orchestrator      *)
(* launches the game and watches two files; the game starts the driver;    *)
(* the driver plays a seed over the pipe (OracleLink), writes the run's    *)
(* artifact and keeps the ledger of settled seeds on disk.  Game, driver   *)
(* and their files may be cut short at any moment, and the ledger is all   *)
(* that the next launch knows.                                             *)
(*                                                                         *)
(* The driver dies with the game it is a child of (the kill-on-close job   *)
(* of launch_game).  A launch's one-use token is its number.  The          *)
(* heartbeat is not modelled: a stall may be seen of any launch, within    *)
(* the budget of faults, and is seen of a driver that has exited without   *)
(* asking for a restart.                                                   *)
(***************************************************************************)
EXTENDS OracleLink, SequencesExt

CONSTANTS Seeds,           \* seed_list, a sequence without repetition
          MaxAttempts,     \* --max-attempts
          SeedsPerLaunch,  \* --seeds-per-launch
          MaxFaults,       \* bound: crashes, stalls and failed writes in a behaviour
          MaxLaunches      \* bound: launches in a behaviour

NoSeed == "none"
Seed == ToSet(Seeds)

ASSUME CampaignAssumption ==
  /\ Seeds \in Seq(Seed) /\ IsInjective(Seeds)
  /\ NoSeed \notin Seed
  /\ {MaxAttempts, SeedsPerLaunch} \subseteq Nat \ {0}
  /\ {MaxFaults, MaxLaunches} \subseteq Nat

VARIABLES disk,       \* campaign_progress.json, or NoFile
          mem,        \* the driver's Progress.data, or NoFile
          artifact,   \* each seed's run file: "none", "open" or "closed"
          stage,      \* where the driver is in run()
          orch,       \* the orchestrator: "idle", "watch", "judge", or how it has exited
          seen,       \* the ledger as the orchestrator's poll has read it
          launch,     \* launch_idx
          doneBefore, \* launch_done_start
          faults      \* faults so far

campaignVars == <<disk, mem, artifact, stage, orch, seen, launch, doneBefore, faults>>
vars == <<campaignVars, linkVars>>

NoFile == [status |-> "absent", done |-> << >>, failed |-> << >>, current |-> NoSeed,
           attempt |-> 0, request |-> 0]
NewLedger == [NoFile EXCEPT !.status = "in_progress"]
Stage == {"off", "boot", "handshake", "pick", "run", "left", "raised", "exited"}
Exit == {"ok", "invalid", "fatal"}

Rows(d) == ToSet(d.done) \cup ToSet(d.failed)    \* done_seeds()

Init ==
  /\ disk = NoFile /\ mem = NoFile
  /\ artifact = [s \in Seed |-> "none"]
  /\ stage = "off" /\ orch = "idle" /\ seen = NoFile
  /\ launch = 0 /\ doneBefore = 0 /\ faults = 0
  /\ LinkInit

Fault == faults < MaxFaults /\ faults' = faults + 1

\* Progress.flush, through a temporary file and a rename: the ledger on disk is
\* the driver's, or (the rename kept failing) it is as before and the driver raises.
Flush(d, next) ==
  \/ /\ mem' = d /\ disk' = d /\ stage' = next
     /\ UNCHANGED faults
  \/ /\ Fault
     /\ mem' = d /\ stage' = "raised"
     /\ UNCHANGED disk

Requested(d) == [d EXCEPT !.request = launch]
Closed(d) == [d EXCEPT !.current = NoSeed, !.attempt = 0]

(***************************************************************************)
(* The driver.                                                             *)
(***************************************************************************)
LoadOrInit_Anew ==                      \* mutant: every launch starts a new ledger
  /\ stage = "boot"
  /\ Flush(NewLedger, "handshake")
  /\ UNCHANGED <<artifact, orch, seen, launch, doneBefore, linkVars>>

\* load_or_init: resume the ledger, dropping a restart request of an earlier launch.
LoadOrInit ==
  /\ stage = "boot"
  /\ LET d == IF disk = NoFile THEN NewLedger ELSE [disk EXCEPT !.request = 0] IN
     Flush(d, IF d.status = "fatal" THEN "exited" ELSE "handshake")
  /\ UNCHANGED <<artifact, orch, seen, launch, doneBefore, linkVars>>

Handshake ==
  /\ stage = "handshake"
  /\ \/ game.up /\ stage' = "pick" /\ UNCHANGED <<disk, mem, faults>>
     \/ \* no state from the game: ask for a restart and exit
        /\ (~game.up /\ UNCHANGED faults) \/ Fault
        /\ mem' = Requested(mem) /\ disk' = mem' /\ stage' = "exited"
  /\ UNCHANGED <<artifact, orch, seen, launch, doneBefore, linkVars>>

\* next_seed: the seed of an interrupted attempt first.
NextSeed(d) ==
  IF d.current # NoSeed /\ d.current \notin Rows(d)
  THEN d.current
  ELSE LET open == {i \in DOMAIN Seeds : Seeds[i] \notin Rows(d)}
       IN IF open = {} THEN NoSeed ELSE Seeds[Min(open)]

PickSeed ==
  /\ stage = "pick"
  /\ LET s == NextSeed(mem) IN
     IF s = NoSeed
     THEN Flush([Closed(mem) EXCEPT !.status = IF mem.failed = << >> THEN "complete"
                                              ELSE "complete_with_failures"], "exited")
     ELSE Flush([mem EXCEPT !.current = s,
                            !.attempt = IF mem.current = s THEN @ + 1 ELSE 1], "run")
  /\ UNCHANGED <<artifact, orch, seen, launch, doneBefore, linkVars>>

\* run_seed opens the artifact, replacing an earlier attempt's, and plays.
OpenRun ==
  /\ stage = "run" /\ driver.pc = "off" /\ game.up
  /\ StartRun
  /\ artifact' = [artifact EXCEPT ![mem.current] = "open"]
  /\ UNCHANGED <<disk, mem, stage, orch, seen, launch, doneBefore, faults>>

\* wait_menu and `start': the game is gone before there is a run.
MenuLost ==
  /\ stage = "run" /\ driver.pc = "off"
  /\ (~game.up /\ UNCHANGED faults) \/ Fault
  /\ End("gone")
  /\ UNCHANGED <<disk, mem, artifact, stage, orch, seen, launch, doneBefore>>

\* The runtime stack is not the sanctioned one: nothing of it may be recorded.
Drift ==
  /\ stage = "run" /\ driver.pc = "off"
  /\ Fault
  /\ mem' = [mem EXCEPT !.status = "fatal"] /\ disk' = mem' /\ stage' = "exited"
  /\ UNCHANGED <<artifact, orch, seen, launch, doneBefore, linkVars>>

Play ==
  /\ stage = "run"
  /\ \/ DriverStep \/ Read
     \/ Frame
  /\ UNCHANGED campaignVars

RunOver == stage = "run" /\ driver.pc = "ended" /\ driver.outcome # "gone"

\* The terminal record of the artifact.
CloseRun ==
  /\ RunOver /\ artifact[mem.current] = "open"
  /\ artifact' = [artifact EXCEPT ![mem.current] = "closed"]
  /\ UNCHANGED <<disk, mem, stage, orch, seen, launch, doneBefore, faults, linkVars>>

RecordDone_BeforeClose ==               \* mutant: the row is written first
  /\ RunOver /\ artifact[mem.current] = "open"
  /\ Flush([Closed(mem) EXCEPT !.done = Append(@, mem.current)], "left")
  /\ driver' = Idle
  /\ UNCHANGED <<artifact, orch, seen, launch, doneBefore, inbox, game, wire, unread>>

\* The run counts as done.  Only a game over may lead back to the menu.
RecordDone ==
  /\ RunOver /\ artifact[mem.current] = "closed"
  /\ \E next \in {"left"} \cup (IF driver.outcome = "over" /\ game.up THEN {"pick"} ELSE {}) :
       Flush([Closed(mem) EXCEPT !.done = Append(@, mem.current)], next)
  /\ driver' = Idle
  /\ UNCHANGED <<artifact, orch, seen, launch, doneBefore, inbox, game, wire, unread>>

\* except GameGone: the last attempt fails the seed; either way ask for a restart.
RecordGone ==
  /\ stage = "run" /\ driver.pc = "ended" /\ driver.outcome = "gone"
  /\ Flush(IF mem.attempt >= MaxAttempts
           THEN [Closed(mem) EXCEPT !.failed = Append(@, mem.current)]
           ELSE mem, "left")
  /\ driver' = Idle
  /\ UNCHANGED <<artifact, orch, seen, launch, doneBefore, inbox, game, wire, unread>>

\* except Exception: an error of the run itself fails the seed, and the loop goes on.
RecordError ==
  /\ stage = "run" /\ driver.pc \in {"off", "decide"}
  /\ Fault
  /\ mem' = [Closed(mem) EXCEPT !.failed = Append(@, mem.current)] /\ disk' = mem'
  /\ stage' = "pick"
  /\ driver' = Idle
  /\ UNCHANGED <<artifact, orch, seen, launch, doneBefore, inbox, game, wire, unread>>

RequestRestart_Waiting ==               \* mutant: the driver waits to be killed, and does not ask
  /\ stage = "left"
  /\ Flush(mem, "left")
  /\ UNCHANGED <<artifact, orch, seen, launch, doneBefore, linkVars>>

\* The run ended where no menu can be reached.
RequestRestart ==
  /\ stage = "left"
  /\ Flush(Requested(mem), "exited")
  /\ UNCHANGED <<artifact, orch, seen, launch, doneBefore, linkVars>>

\* _request_restart_after_unexpected_exit: once more, and then exit in any case.
LastRequest ==
  /\ stage = "raised"
  /\ stage' = "exited"
  /\ \/ mem' = Requested(mem) /\ disk' = mem' /\ UNCHANGED faults
     \/ Fault /\ UNCHANGED <<disk, mem>>
  /\ UNCHANGED <<artifact, orch, seen, launch, doneBefore, linkVars>>

DriverNext ==
  LoadOrInit \/ Handshake \/ PickSeed \/ OpenRun \/ MenuLost \/ Play \/ CloseRun \/ RecordDone
    \/ RecordGone \/ RequestRestart \/ LastRequest

(***************************************************************************)
(* The orchestrator.                                                       *)
(***************************************************************************)
Complete(d) == d.status \in {"complete", "complete_with_failures"}

\* completion_error: nothing failed, and the rows are the seeds, in their order.
Acceptable(d) == d.status = "complete" /\ d.failed = << >> /\ d.done = Seeds

Verdict(d) == IF d.status = "fatal" THEN "fatal"
              ELSE IF Acceptable(d) THEN "ok" ELSE "invalid"

\* cleanup_process: the game and, in its job, the driver.
KillAll ==
  /\ game' = [game EXCEPT !.up = FALSE]
  /\ stage' = "off" /\ mem' = NoFile /\ seen' = NoFile
  /\ driver' = Idle /\ inbox' = << >> /\ wire' = << >> /\ unread' = << >>
  /\ UNCHANGED <<disk, artifact, launch, doneBefore>>

Launch ==
  /\ orch = "idle"
  /\ \/ /\ disk.status = "fatal" \/ Complete(disk)
        /\ orch' = Verdict(disk)
        /\ UNCHANGED <<launch, doneBefore, stage, game>>
     \/ /\ ~(disk.status = "fatal" \/ Complete(disk))
        /\ launch < MaxLaunches /\ launch' = launch + 1
        /\ doneBefore' = Len(disk.done)
        /\ game' = NewGame /\ stage' = "boot" /\ orch' = "watch"
  /\ UNCHANGED <<disk, mem, artifact, seen, faults, inbox, wire, unread, driver>>

\* The poll reads the ledger; the driver goes on while the orchestrator judges.
Poll ==
  /\ orch = "watch" /\ orch' = "judge" /\ seen' = disk
  /\ UNCHANGED <<disk, mem, artifact, stage, launch, doneBefore, faults, linkVars>>

\* The ledger is closed: stop for good.
StopAll ==
  /\ orch = "judge" /\ (seen.status = "fatal" \/ Complete(seen))
  /\ orch' = Verdict(seen) /\ KillAll /\ UNCHANGED faults

Relaunch == orch' = "idle" /\ KillAll
StillOpen == orch = "judge" /\ seen.status # "fatal" /\ ~Complete(seen)
AskedFor == seen.request = launch    \* restart_requested_for_launch

Restart == StillOpen /\ AskedFor /\ Relaunch /\ UNCHANGED faults

LaunchIsFull == Len(seen.done) - doneBefore >= SeedsPerLaunch
Recycle == StillOpen /\ ~AskedFor /\ LaunchIsFull /\ Relaunch /\ UNCHANGED faults

NoReason == StillOpen /\ ~AskedFor /\ ~LaunchIsFull

GameExited == NoReason /\ ~game.up /\ Relaunch /\ UNCHANGED faults

\* The heartbeat of a driver that has exited goes stale.
StallSeen == NoReason /\ game.up /\ stage = "exited" /\ Relaunch /\ UNCHANGED faults

\* An induced kill, or the stall of a game that hangs or is slow.
StallKill == NoReason /\ game.up /\ Fault /\ Relaunch

PollAgain ==
  /\ NoReason /\ game.up /\ stage # "exited"
  /\ orch' = "watch" /\ seen' = NoFile
  /\ UNCHANGED <<disk, mem, artifact, stage, launch, doneBefore, faults, linkVars>>

\* The orchestrator itself is stopped, and later run again with the same arguments.
RunAgain == orch \in {"watch", "judge"} /\ Fault /\ Relaunch

OrchestratorNext ==
  Launch \/ Poll \/ StopAll \/ Restart \/ Recycle \/ GameExited \/ StallSeen \/ PollAgain

\* The game dies; the driver sees it at its next command.
Crash ==
  /\ Fault
  /\ GameDies
  /\ UNCHANGED <<disk, mem, artifact, stage, orch, seen, launch, doneBefore>>

Next == DriverNext \/ OrchestratorNext \/ Drift \/ RecordError \/ StallKill \/ RunAgain \/ Crash

\* The machine keeps running both programs; no fault has to happen.
FairSpec == Init /\ [][Next]_vars /\ WF_vars(DriverNext) /\ WF_vars(OrchestratorNext)

Spec == Init /\ [][Next]_vars
=============================================================================
