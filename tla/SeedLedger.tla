----------------------------- MODULE SeedLedger -----------------------------
(***************************************************************************)
(* What a campaign promises whatever crashes: the seeds are settled one    *)
(* after the other in the order of the list, each once and for good, and   *)
(* the campaign is accepted only when every seed has its run.              *)
(***************************************************************************)
EXTENDS Naturals, Sequences

CONSTANT Seeds

VARIABLES settled,  \* settled[i]: "open", "done" or "failed"
          verdict   \* "none", "ok", "invalid" or "fatal"

Init == settled = [i \in DOMAIN Seeds |-> "open"] /\ verdict = "none"

Settle ==
  /\ verdict = "none"
  /\ \E i \in DOMAIN Seeds, r \in {"done", "failed"} :
       /\ settled[i] = "open"
       /\ \A k \in 1 .. i - 1 : settled[k] # "open"
       /\ settled' = [settled EXCEPT ![i] = r]
  /\ UNCHANGED verdict

Accept ==
  /\ verdict = "none" /\ \A i \in DOMAIN Seeds : settled[i] = "done"
  /\ verdict' = "ok" /\ UNCHANGED settled

Refuse ==
  /\ verdict = "none"
  /\ \A i \in DOMAIN Seeds : settled[i] # "open"
  /\ \E i \in DOMAIN Seeds : settled[i] = "failed"
  /\ verdict' = "invalid" /\ UNCHANGED settled

Stop == verdict = "none" /\ verdict' = "fatal" /\ UNCHANGED settled

Next == Settle \/ Accept \/ Refuse \/ Stop

Spec == Init /\ [][Next]_<<settled, verdict>>
=============================================================================
