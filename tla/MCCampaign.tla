----------------------------- MODULE MCCampaign -----------------------------
(***************************************************************************)
(* The properties of a campaign, and its instances for the model checker.  *)
(***************************************************************************)
EXTENDS Campaign

TwoSeeds == <<"s1", "s2">>

\* A seed counts as done only with a run file that reaches its terminal record, although
\* an interrupted attempt has opened the same file before, and the terminal record, the
\* ledger's row and the request for a restart are written one after the other (run_seed,
\* run); and the ledger on disk knows what the rows of the driver's copy say, or the driver
\* is about to exit: a crash can lose the attempt under way, never a settled seed.
DoneHasRun == \A s \in ToSet(disk.done) : artifact[s] = "closed"
NothingToLose ==
  mem # NoFile /\ stage # "raised" /\ stage # "exited" => Rows(disk) = Rows(mem)
LedgerTrue == DoneHasRun /\ NothingToLose

\* What a reader of the disk sees, through crashes, failed writes and relaunches, is the
\* ledger of SeedLedger: no seed is lost, settled twice or out of order, and an exit with
\* "ok" means a run of every seed, in the order completion_error compares.
Settledness(s) == IF s \in ToSet(disk.done) THEN "done"
                  ELSE IF s \in ToSet(disk.failed) THEN "failed" ELSE "open"
Abstract == INSTANCE SeedLedger WITH
              settled <- [i \in DOMAIN Seeds |-> Settledness(Seeds[i])],
              verdict <- IF orch \in Exit THEN orch ELSE "none"
ImplementsLedger == Abstract!Spec

\* The orchestrator exits: no restart request, stall or retry repeats forever.
CampaignEnds == <>(orch \in Exit)
=============================================================================
