--------------------------- MODULE Campaign_proofs ---------------------------
(***************************************************************************)
(* A settled seed is never lost and never settled twice, whatever crashes: *)
(* for every list of seeds, every budget of attempts, launches and faults. *)
(*                                                                         *)
(* The three copies of the ledger (the file, the driver's and the one the  *)
(* orchestrator has read) each hold the rows of a first part of the list   *)
(* (SoundLedger); the driver's copy is the file's, or, when a write has    *)
(* failed, at most one row ahead of it (Grown), and the orchestrator's may *)
(* only lag behind.  Nothing of the pipe is needed: what a run does to the *)
(* ledger depends on its outcome alone.                                    *)
(***************************************************************************)
EXTENDS MCCampaign, SequenceTheorems, TLAPS

Ledger == [status : {"absent", "in_progress", "fatal", "complete", "complete_with_failures"},
           done : Seq(Seed), failed : Seq(Seed), current : Seed \cup {NoSeed},
           attempt : Nat, request : Nat]

Count(d) == Len(d.done) + Len(d.failed)
First(n) == {Seeds[i] : i \in 1 .. n}

\* A copy of the ledger as load_or_init and run leave it.
SoundLedger(d) ==
  /\ d \in Ledger
  /\ Count(d) <= Len(Seeds) /\ Rows(d) = First(Count(d))
  /\ ToSet(d.done) \cap ToSet(d.failed) = {}
  /\ d.failed = << >> => \A i \in 1 .. Len(d.done) : d.done[i] = Seeds[i]
  /\ d.current # NoSeed => Count(d) < Len(Seeds) /\ d.current = Seeds[Count(d) + 1]
  /\ d.status = "complete" => Count(d) = Len(Seeds) /\ d.failed = << >>
  /\ d.status = "complete_with_failures" => Count(d) = Len(Seeds) /\ d.failed # << >>
  /\ d.status = "absent" => d = NoFile

SameRows(d, e) == e.done = d.done /\ e.failed = d.failed

OneRowMore(d, e) ==
  /\ Count(d) < Len(Seeds)
  /\ LET s == Seeds[Count(d) + 1] IN
     \/ e.done = Append(d.done, s) /\ e.failed = d.failed
     \/ e.done = d.done /\ e.failed = Append(d.failed, s)

Grown(d, e) == SameRows(d, e) \/ OneRowMore(d, e)

Playing == stage \in {"handshake", "pick", "run", "left"}

LedgerInv ==
  /\ stage \in Stage /\ launch \in Nat
  /\ orch \in {"idle", "watch", "judge"} \cup Exit
  /\ artifact \in [Seed -> {"none", "open", "closed"}]
  /\ SoundLedger(disk) /\ SoundLedger(mem) /\ SoundLedger(seen)
  /\ \A s \in ToSet(disk.done) \cup ToSet(mem.done) : artifact[s] = "closed"
  /\ ToSet(seen.done) \subseteq ToSet(disk.done)
  /\ ToSet(seen.failed) \subseteq ToSet(disk.failed)
  /\ stage \in {"off", "boot"} => mem = NoFile
  /\ stage \notin {"off", "boot"} => mem.status # "absent"
  /\ Playing => disk = mem
  /\ stage = "run" => mem.current # NoSeed
  /\ stage = "raised" => Grown(disk, mem)
  /\ orch \in {"idle"} \cup Exit => stage = "off"
-----------------------------------------------------------------------------

(***************************************************************************)
(* The list of seeds, and the rows of a ledger as sets.                    *)
(***************************************************************************)

\* The list has a length, holds seeds, each once, and none of them is NoSeed.
LEMMA TheSeeds ==
  /\ Seeds \in Seq(Seed) /\ Len(Seeds) \in Nat /\ DOMAIN Seeds = 1 .. Len(Seeds)
  /\ \A i \in 1 .. Len(Seeds) : Seeds[i] \in Seed /\ Seeds[i] # NoSeed
  /\ \A i, j \in 1 .. Len(Seeds) : Seeds[i] = Seeds[j] => i = j
  /\ Seed = First(Len(Seeds))
<1>1. Seeds \in Seq(Seed) /\ NoSeed \notin Seed /\ IsInjective(Seeds)
  BY CampaignAssumption
<1>2. Len(Seeds) \in Nat /\ DOMAIN Seeds = 1 .. Len(Seeds)
  BY <1>1
<1>3. \A i \in 1 .. Len(Seeds) : Seeds[i] \in Seed
  BY <1>1
<1>4. \A i, j \in 1 .. Len(Seeds) : Seeds[i] = Seeds[j] => i = j
  BY <1>1, <1>2 DEF IsInjective
<1>5. Seed = First(Len(Seeds))
  BY <1>2, Zenon DEF Seed, ToSet, First
<1> QED
  BY <1>1, <1>2, <1>3, <1>4, <1>5

LEMMA ToSetOfNone == ToSet(<< >>) = {}
BY DEF ToSet

LEMMA ToSetOfAppend ==
  ASSUME NEW S, NEW s \in Seq(S), NEW x \in S
  PROVE  ToSet(Append(s, x)) = ToSet(s) \cup {x}
<1>1. Len(s) \in Nat /\ DOMAIN s = 1 .. Len(s) /\ Append(s, x) \in Seq(S)
  OBVIOUS
<1>2. /\ DOMAIN Append(s, x) = 1 .. Len(s) + 1
      /\ \A i \in 1 .. Len(s) : Append(s, x)[i] = s[i]
      /\ Append(s, x)[Len(s) + 1] = x
  BY <1>1
<1>3. 1 .. Len(s) + 1 = (1 .. Len(s)) \cup {Len(s) + 1}
  BY <1>1
<1> QED
  BY <1>1, <1>2, <1>3, Zenon DEF ToSet

LEMMA MembersOfRows ==
  ASSUME NEW d, SoundLedger(d)
  PROVE  /\ Len(d.done) \in Nat /\ Len(d.failed) \in Nat /\ Count(d) \in Nat
         /\ Count(d) = Len(d.done) + Len(d.failed)
         /\ d.done \in Seq(Seed) /\ d.failed \in Seq(Seed)
<1>1. d.done \in Seq(Seed) /\ d.failed \in Seq(Seed)
  BY DEF SoundLedger, Ledger
<1>2. Len(d.done) \in Nat /\ Len(d.failed) \in Nat
  BY <1>1
<1>3. Count(d) = Len(d.done) + Len(d.failed)
  BY DEF Count
<1>4. \A m, n \in Nat : m + n \in Nat
  OBVIOUS
<1>5. Count(d) \in Nat
  BY <1>2, <1>3, <1>4, Zenon
<1> QED
  BY <1>1, <1>2, <1>3, <1>5, Zenon

\* A seed of the list is settled when it stands in the first part.
LEMMA SettledOnes ==
  ASSUME NEW d, SoundLedger(d), NEW i \in 1 .. Len(Seeds)
  PROVE  Seeds[i] \in Rows(d) <=> i <= Count(d)
<1>1. Rows(d) = First(Count(d)) /\ Count(d) <= Len(Seeds) /\ Count(d) \in Nat
  BY MembersOfRows DEF SoundLedger
<1>2. ASSUME i <= Count(d)
      PROVE  Seeds[i] \in Rows(d)
  <2>1. i \in 1 .. Count(d)
    BY <1>1, <1>2, TheSeeds
  <2> QED
    BY <1>1, <2>1 DEF First
<1>3. ASSUME Seeds[i] \in Rows(d)
      PROVE  i <= Count(d)
  <2>1. PICK j \in 1 .. Count(d) : Seeds[i] = Seeds[j]
    BY <1>1, <1>3 DEF First
  <2>2. j \in 1 .. Len(Seeds)
    BY <1>1, TheSeeds
  <2>3. i = j
    BY <2>1, <2>2, TheSeeds
  <2> QED
    BY <1>1, <2>1, <2>3
<1> QED
  BY <1>2, <1>3

(***************************************************************************)
(* What the driver makes of a ledger.                                      *)
(***************************************************************************)

LEMMA NewIsSound == SoundLedger(NoFile) /\ SoundLedger(NewLedger)
<1>1. NoFile \in Ledger /\ NewLedger \in Ledger
  <2>1. << >> \in Seq(Seed) /\ NoSeed \in Seed \cup {NoSeed}
    OBVIOUS
  <2> HIDE DEF NoSeed, Seed
  <2> QED
    BY <2>1 DEF NoFile, NewLedger, Ledger
<1>2. Rows(NoFile) = {} /\ Rows(NewLedger) = {}
  BY ToSetOfNone DEF NoFile, NewLedger, Rows
<1>3. Count(NoFile) = 0 /\ Count(NewLedger) = 0
  BY DEF NoFile, NewLedger, Count
<1>4. First(0) = {}
  BY DEF First
<1>5. ToSet(NoFile.done) = {} /\ ToSet(NewLedger.done) = {}
  BY ToSetOfNone DEF NoFile, NewLedger
<1>6. /\ ToSet(NoFile.done) \cap ToSet(NoFile.failed) = {}
      /\ ToSet(NewLedger.done) \cap ToSet(NewLedger.failed) = {}
  BY <1>5
<1>7. /\ NoFile.done = << >> /\ NoFile.current = NoSeed /\ NoFile.status = "absent"
      /\ NewLedger.done = << >> /\ NewLedger.current = NoSeed
      /\ NewLedger.status = "in_progress"
  BY DEF NoFile, NewLedger
<1>8. Len(NoFile.done) = 0 /\ Len(NewLedger.done) = 0
  BY <1>7
<1>9. SoundLedger(NoFile)
  BY <1>1, <1>2, <1>3, <1>4, <1>6, <1>7, <1>8, TheSeeds DEF SoundLedger
<1>10. SoundLedger(NewLedger)
  BY <1>1, <1>2, <1>3, <1>4, <1>6, <1>7, <1>8, TheSeeds DEF SoundLedger
<1> QED
  BY <1>9, <1>10

\* Requests for a restart and a closing as "fatal" keep the rows.
LEMMA MarksAreSound ==
  ASSUME NEW d, SoundLedger(d), d.status # "absent", NEW r \in Nat
  PROVE  /\ SoundLedger([d EXCEPT !.request = r]) /\ SameRows(d, [d EXCEPT !.request = r])
         /\ [d EXCEPT !.request = r].status = d.status
         /\ [d EXCEPT !.request = r].current = d.current
         /\ SoundLedger([d EXCEPT !.status = "fatal"])
         /\ SameRows(d, [d EXCEPT !.status = "fatal"])
         /\ [d EXCEPT !.status = "fatal"].status = "fatal"
<1> DEFINE e == [d EXCEPT !.request = r]
           f == [d EXCEPT !.status = "fatal"]
<1>1. d \in Ledger
  BY DEF SoundLedger
<1>2. /\ e \in Ledger /\ e.done = d.done /\ e.failed = d.failed
      /\ e.status = d.status /\ e.current = d.current
  BY <1>1 DEF Ledger
<1>3. /\ f \in Ledger /\ f.done = d.done /\ f.failed = d.failed
      /\ f.status = "fatal" /\ f.current = d.current
  BY <1>1 DEF Ledger
<1>4. Rows(e) = Rows(d) /\ Rows(f) = Rows(d) /\ Count(e) = Count(d) /\ Count(f) = Count(d)
  BY <1>2, <1>3 DEF Rows, Count
<1> HIDE DEF e, f
<1>5. SoundLedger(e)
  BY <1>2, <1>4 DEF SoundLedger
<1>6. SoundLedger(f)
  BY <1>3, <1>4 DEF SoundLedger
<1>7. SameRows(d, e) /\ SameRows(d, f) /\ e.status = d.status /\ e.current = d.current
        /\ f.status = "fatal"
  BY <1>2, <1>3 DEF SameRows
<1> QED
  BY <1>5, <1>6, <1>7 DEF e, f

\* next_seed is the first seed after the rows, whether an attempt was interrupted or not.
LEMMA NextSeedIs ==
  ASSUME NEW d, SoundLedger(d)
  PROVE  NextSeed(d) = IF Count(d) < Len(Seeds) THEN Seeds[Count(d) + 1] ELSE NoSeed
<1> DEFINE open == {i \in DOMAIN Seeds : Seeds[i] \notin Rows(d)}
           k == Count(d)
<1>1. k \in Nat /\ k <= Len(Seeds)
  BY MembersOfRows DEF SoundLedger
<1>2. open = k + 1 .. Len(Seeds)
  <2>1. ASSUME NEW i \in 1 .. Len(Seeds)
        PROVE  i \in open <=> i \in k + 1 .. Len(Seeds)
    BY <1>1, SettledOnes, TheSeeds
  <2>2. open \subseteq 1 .. Len(Seeds) /\ k + 1 .. Len(Seeds) \subseteq 1 .. Len(Seeds)
    BY <1>1, TheSeeds
  <2> QED
    BY <2>1, <2>2
<1>3. CASE d.current # NoSeed /\ d.current \notin Rows(d)
  BY <1>3 DEF NextSeed, SoundLedger
<1>4. CASE ~(d.current # NoSeed /\ d.current \notin Rows(d))
  <2>1. NextSeed(d) = IF open = {} THEN NoSeed ELSE Seeds[Min(open)]
    BY <1>4 DEF NextSeed
  <2>2. CASE k < Len(Seeds)
    <3>1. k + 1 \in open /\ \A j \in open : k + 1 <= j
      BY <1>1, <1>2, <2>2, TheSeeds
    <3>2. \A m \in open : (\A j \in open : m <= j) => m = k + 1
      BY <1>1, <1>2, <3>1, TheSeeds
    <3>3. Min(open) = k + 1
      BY <3>1, <3>2 DEF Min
    <3> QED
      BY <2>1, <2>2, <3>1, <3>3
  <2>3. CASE ~(k < Len(Seeds))
    <3>1. open = {}
      BY <1>1, <1>2, <2>3, TheSeeds
    <3> QED
      BY <2>1, <2>3, <3>1
  <2> QED
    BY <2>2, <2>3
<1> QED
  BY <1>3, <1>4
\* What PickSeed writes.
LEMMA PickIsSound ==
  ASSUME NEW d, SoundLedger(d), d.status # "absent", NextSeed(d) # NoSeed,
         NEW e, e = [d EXCEPT !.current = NextSeed(d),
                              !.attempt = IF d.current = NextSeed(d) THEN @ + 1 ELSE 1]
  PROVE  SoundLedger(e) /\ SameRows(d, e) /\ e.status = d.status /\ e.current # NoSeed
<1>1. d \in Ledger /\ Count(d) \in Nat
  BY MembersOfRows DEF SoundLedger
<1>2. Count(d) < Len(Seeds) /\ NextSeed(d) = Seeds[Count(d) + 1]
  BY NextSeedIs
<1>3. Count(d) + 1 \in 1 .. Len(Seeds)
  BY <1>1, <1>2, TheSeeds
<1>4. NextSeed(d) \in Seed
  BY <1>2, <1>3, TheSeeds
<1>5. (IF d.current = NextSeed(d) THEN d.attempt + 1 ELSE 1) \in Nat
  BY <1>1 DEF Ledger
<1>6. /\ e \in Ledger /\ e.done = d.done /\ e.failed = d.failed
      /\ e.status = d.status /\ e.current = NextSeed(d)
  BY <1>1, <1>4, <1>5 DEF Ledger
<1>7. Rows(e) = Rows(d) /\ Count(e) = Count(d)
  BY <1>6 DEF Rows, Count
<1>8. SoundLedger(e)
  BY <1>2, <1>6, <1>7 DEF SoundLedger
<1> QED
  BY <1>6, <1>8 DEF SameRows

LEMMA CompletionIsSound ==
  ASSUME NEW d, SoundLedger(d), d.status # "absent", NextSeed(d) = NoSeed,
         NEW e, e = [Closed(d) EXCEPT !.status = IF d.failed = << >> THEN "complete"
                                                 ELSE "complete_with_failures"]
  PROVE  SoundLedger(e) /\ SameRows(d, e) /\ e.status # "absent"
<1>1. d \in Ledger /\ Count(d) \in Nat
  BY MembersOfRows DEF SoundLedger
<1>2. Count(d) = Len(Seeds)
  <2>1. SUFFICES ASSUME Count(d) < Len(Seeds)
                 PROVE  FALSE
    BY <1>1, TheSeeds DEF SoundLedger
  <2>2. NextSeed(d) = Seeds[Count(d) + 1]
    BY <2>1, NextSeedIs
  <2>3. Count(d) + 1 \in 1 .. Len(Seeds)
    BY <1>1, <2>1, TheSeeds
  <2> QED
    BY <2>2, <2>3, TheSeeds
<1>3. /\ e \in Ledger /\ e.done = d.done /\ e.failed = d.failed /\ e.current = NoSeed
      /\ e.status = IF d.failed = << >> THEN "complete" ELSE "complete_with_failures"
  BY <1>1 DEF Ledger, Closed
<1>4. Rows(e) = Rows(d) /\ Count(e) = Count(d)
  BY <1>3 DEF Rows, Count
<1>5. SoundLedger(e)
  BY <1>2, <1>3, <1>4 DEF SoundLedger
<1> QED
  BY <1>3, <1>5 DEF SameRows

\* The seed under way is none of the rows, and comes right after them.
LEMMA UnderWay ==
  ASSUME NEW d, SoundLedger(d), d.current # NoSeed
  PROVE  /\ Count(d) + 1 \in 1 .. Len(Seeds) /\ Count(d) < Len(Seeds)
         /\ d.current = Seeds[Count(d) + 1] /\ d.current \in Seed /\ d.current \notin Rows(d)
         /\ First(Count(d) + 1) = First(Count(d)) \cup {d.current}
<1>1. Count(d) < Len(Seeds) /\ d.current = Seeds[Count(d) + 1] /\ Count(d) \in Nat
  BY MembersOfRows DEF SoundLedger
<1>2. Count(d) + 1 \in 1 .. Len(Seeds)
  BY <1>1, TheSeeds
<1>3. PICK j \in 1 .. Len(Seeds) : j = Count(d) + 1
  BY <1>2
<1>4. Seeds[j] \notin Rows(d)
  BY <1>1, <1>3, SettledOnes
<1>5. 1 .. Count(d) + 1 = (1 .. Count(d)) \cup {Count(d) + 1}
  BY <1>1
<1>6. First(Count(d) + 1) = First(Count(d)) \cup {d.current}
  BY <1>1, <1>5, Zenon DEF First
<1> QED
  BY <1>1, <1>2, <1>3, <1>4, <1>6, TheSeeds

\* A run that is over adds its seed to the rows, and nothing else.
LEMMA DoneIsSound ==
  ASSUME NEW d, SoundLedger(d), d.current # NoSeed,
         NEW e, e = [Closed(d) EXCEPT !.done = Append(@, d.current)]
  PROVE  /\ SoundLedger(e) /\ OneRowMore(d, e) /\ e.status # "absent"
         /\ ToSet(e.done) = ToSet(d.done) \cup {d.current}
<1>1. d \in Ledger /\ Count(d) \in Nat
  BY MembersOfRows DEF SoundLedger
<1>2. d.status # "absent"
  BY DEF SoundLedger, NoFile
<1>3. Append(d.done, d.current) \in Seq(Seed)
  BY <1>1, UnderWay DEF Ledger
<1>4. /\ e \in Ledger /\ e.done = Append(d.done, d.current) /\ e.failed = d.failed
      /\ e.current = NoSeed /\ e.status = d.status
  BY <1>1, <1>3 DEF Ledger, Closed
<1>5. Len(d.done) \in Nat /\ Len(d.failed) \in Nat /\ Count(d) = Len(d.done) + Len(d.failed)
  BY MembersOfRows
<1>6. Len(e.done) = Len(d.done) + 1
  BY <1>1, <1>4, UnderWay DEF Ledger
<1>7. Count(e) = Count(d) + 1
  <2>1. Count(e) = Len(e.done) + Len(e.failed)
    BY DEF Count
  <2>2. \A m, n \in Nat : (m + 1) + n = (m + n) + 1 /\ m + (n + 1) = (m + n) + 1
    OBVIOUS
  <2> QED
    BY <1>4, <1>5, <1>6, <2>1, <2>2, Zenon
<1>8. ToSet(e.done) = ToSet(d.done) \cup {d.current}
  <2>1. d.done \in Seq(Seed) /\ d.current \in Seed
    BY MembersOfRows, UnderWay
  <2>2. ToSet(Append(d.done, d.current)) = ToSet(d.done) \cup {d.current}
    BY <2>1, ToSetOfAppend
  <2> QED
    BY <1>4, <2>2, Zenon
<1>9. Rows(e) = First(Count(e))
  <2>1. Rows(e) = Rows(d) \cup {d.current}
    BY <1>4, <1>8 DEF Rows
  <2>2. Rows(d) = First(Count(d))
    BY DEF SoundLedger
  <2> QED
    BY <1>7, <2>1, <2>2, UnderWay
<1>10. ToSet(e.done) \cap ToSet(e.failed) = {}
  BY <1>4, <1>8, UnderWay DEF SoundLedger, Rows
<1>11. ASSUME e.failed = << >>, NEW i \in 1 .. Len(e.done)
       PROVE  e.done[i] = Seeds[i]
  <2>1. Count(d) = Len(d.done)
    BY <1>4, <1>5, <1>11
  <2>2. CASE i = Len(d.done) + 1
    <3>1. e.done[Len(d.done) + 1] = d.current
      BY <1>1, <1>4, UnderWay DEF Ledger
    <3> QED
      BY <2>1, <2>2, <3>1, UnderWay
  <2>3. CASE i # Len(d.done) + 1
    <3>1. i \in 1 .. Len(d.done)
      BY <1>5, <1>6, <2>3
    <3>2. e.done[i] = d.done[i]
      BY <1>1, <1>4, <3>1, UnderWay DEF Ledger
    <3> QED
      BY <1>4, <1>11, <3>1, <3>2 DEF SoundLedger
  <2> QED
    BY <2>2, <2>3
<1>12. Count(e) <= Len(Seeds)
  BY <1>1, <1>7, UnderWay, TheSeeds
<1>13. ~Complete(d)
  BY <1>1, UnderWay, TheSeeds DEF SoundLedger, Complete
<1>14. SoundLedger(e)
  BY <1>2, <1>4, <1>9, <1>10, <1>11, <1>12, <1>13 DEF SoundLedger, Complete
<1>15. OneRowMore(d, e)
  BY <1>4, UnderWay DEF OneRowMore
<1> QED
  BY <1>2, <1>4, <1>8, <1>14, <1>15

LEMMA FailedIsSound ==
  ASSUME NEW d, SoundLedger(d), d.current # NoSeed,
         NEW e, e = [Closed(d) EXCEPT !.failed = Append(@, d.current)]
  PROVE  SoundLedger(e) /\ OneRowMore(d, e) /\ e.status # "absent" /\ e.done = d.done
<1>1. d \in Ledger /\ Count(d) \in Nat
  BY MembersOfRows DEF SoundLedger
<1>2. d.status # "absent"
  BY DEF SoundLedger, NoFile
<1>3. Append(d.failed, d.current) \in Seq(Seed)
  BY <1>1, UnderWay DEF Ledger
<1>4. /\ e \in Ledger /\ e.failed = Append(d.failed, d.current) /\ e.done = d.done
      /\ e.current = NoSeed /\ e.status = d.status
  BY <1>1, <1>3 DEF Ledger, Closed
<1>5. Len(d.done) \in Nat /\ Len(d.failed) \in Nat /\ Count(d) = Len(d.done) + Len(d.failed)
  BY MembersOfRows
<1>6. Len(e.failed) = Len(d.failed) + 1
  BY <1>1, <1>4, UnderWay DEF Ledger
<1>7. Count(e) = Count(d) + 1
  <2>1. Count(e) = Len(e.done) + Len(e.failed)
    BY DEF Count
  <2>2. \A m, n \in Nat : (m + 1) + n = (m + n) + 1 /\ m + (n + 1) = (m + n) + 1
    OBVIOUS
  <2> QED
    BY <1>4, <1>5, <1>6, <2>1, <2>2, Zenon
<1>8. ToSet(e.failed) = ToSet(d.failed) \cup {d.current}
  <2>1. d.failed \in Seq(Seed) /\ d.current \in Seed
    BY MembersOfRows, UnderWay
  <2>2. ToSet(Append(d.failed, d.current)) = ToSet(d.failed) \cup {d.current}
    BY <2>1, ToSetOfAppend
  <2> QED
    BY <1>4, <2>2, Zenon
<1>9. Rows(e) = First(Count(e))
  <2>1. Rows(e) = Rows(d) \cup {d.current}
    BY <1>4, <1>8 DEF Rows
  <2>2. Rows(d) = First(Count(d))
    BY DEF SoundLedger
  <2> QED
    BY <1>7, <2>1, <2>2, UnderWay
<1>10. ToSet(e.done) \cap ToSet(e.failed) = {}
  BY <1>4, <1>8, UnderWay DEF SoundLedger, Rows
<1>11. e.failed # << >>
  BY <1>5, <1>6
<1>12. Count(e) <= Len(Seeds)
  BY <1>1, <1>7, UnderWay, TheSeeds
<1>13. ~Complete(d)
  BY <1>1, UnderWay, TheSeeds DEF SoundLedger, Complete
<1>14. SoundLedger(e)
  BY <1>2, <1>4, <1>9, <1>10, <1>11, <1>12, <1>13 DEF SoundLedger, Complete
<1>15. OneRowMore(d, e)
  BY <1>4, UnderWay DEF OneRowMore
<1> QED
  BY <1>2, <1>4, <1>14, <1>15
(***************************************************************************)
(* The driver's steps on the ledger.  Each leaves the driver with a ledger *)
(* d that is as the file, or one row ahead of it, and the file either as   *)
(* it was or as d; where the file is behind, the driver is on its way out. *)
(***************************************************************************)
LEMMA Lengthened ==
  ASSUME NEW d, SoundLedger(d), NEW e, Grown(d, e)
  PROVE  ToSet(d.done) \subseteq ToSet(e.done) /\ ToSet(d.failed) \subseteq ToSet(e.failed)
<1>1. CASE SameRows(d, e)
  BY <1>1 DEF SameRows
<1>2. CASE OneRowMore(d, e)
  <2> DEFINE s == Seeds[Count(d) + 1]
  <2>1. Count(d) \in Nat /\ d.done \in Seq(Seed) /\ d.failed \in Seq(Seed)
    BY MembersOfRows
  <2>2. Count(d) + 1 \in 1 .. Len(Seeds)
    BY <1>2, <2>1, TheSeeds DEF OneRowMore
  <2>3. s \in Seed
    BY <2>2, TheSeeds
  <2> HIDE DEF s
  <2>4. /\ ToSet(Append(d.done, s)) = ToSet(d.done) \cup {s}
        /\ ToSet(Append(d.failed, s)) = ToSet(d.failed) \cup {s}
    BY <2>1, <2>3, ToSetOfAppend
  <2>5. \/ e.done = Append(d.done, s) /\ e.failed = d.failed
        \/ e.done = d.done /\ e.failed = Append(d.failed, s)
    BY <1>2 DEF OneRowMore, s
  <2> QED
    BY <2>4, <2>5
<1> QED
  BY <1>1, <1>2 DEF Grown

Write(d) ==
  /\ SoundLedger(d) /\ d.status # "absent" /\ Grown(disk, d)
  /\ \A s \in ToSet(d.done) : artifact[s] = "closed"
  /\ stage # "off" /\ UNCHANGED <<artifact, orch, seen, launch>>
  /\ mem' = d /\ stage' \in Stage \ {"off", "boot"} /\ (stage' = "run" => d.current # NoSeed)
  /\ disk' = d \/ (disk' = disk /\ stage' \in {"raised", "exited"})

LEMMA WriteKeeps ==
  ASSUME LedgerInv, NEW d, Write(d)
  PROVE  LedgerInv'
<1>1. /\ ToSet(disk.done) \subseteq ToSet(d.done) /\ ToSet(disk.failed) \subseteq ToSet(d.failed)
  BY Lengthened DEF Write, LedgerInv
<1>2. disk' = d \/ disk' = disk
  BY DEF Write
<1>3. SoundLedger(disk)' /\ SoundLedger(mem)' /\ SoundLedger(seen)'
  BY <1>2 DEF Write, LedgerInv
<1>4. (stage \in Stage /\ launch \in Nat
        /\ orch \in {"idle", "watch", "judge"} \cup Exit
        /\ artifact \in [Seed -> {"none", "open", "closed"}])'
  BY DEF Write, LedgerInv, Stage
<1>5. (\A s \in ToSet(disk.done) \cup ToSet(mem.done) : artifact[s] = "closed")'
  <2>1. \A s \in ToSet(disk.done) : artifact[s] = "closed"
    BY DEF LedgerInv
  <2>2. artifact' = artifact /\ mem' = d
    BY DEF Write
  <2>3. \A s \in ToSet(d.done) : artifact[s] = "closed"
    BY DEF Write
  <2> QED
    BY <1>2, <2>1, <2>2, <2>3
<1>6. (ToSet(seen.done) \subseteq ToSet(disk.done)
        /\ ToSet(seen.failed) \subseteq ToSet(disk.failed))'
  BY <1>1, <1>2 DEF Write, LedgerInv
<1>7. (stage \notin {"off", "boot"})' /\ (mem.status # "absent")'
  BY DEF Write
<1>8. (Playing => disk = mem)'
  BY DEF Write, Playing
<1>9. (stage = "raised" => Grown(disk, mem))'
  BY DEF Write, Grown, SameRows
<1>10. (orch \notin {"idle"} \cup Exit)'
  BY DEF Write, LedgerInv
<1>11. (stage = "run" => mem.current # NoSeed)'
  BY DEF Write
<1> QED
  BY <1>3, <1>4, <1>5, <1>6, <1>7, <1>8, <1>9, <1>10, <1>11 DEF LedgerInv

LEMMA FlushWrites ==
  ASSUME NEW d, SoundLedger(d), d.status # "absent", Grown(disk, d),
         \A s \in ToSet(d.done) : artifact[s] = "closed",
         stage # "off", UNCHANGED <<artifact, orch, seen, launch>>,
         NEW next \in Stage \ {"off", "boot"}, next = "run" => d.current # NoSeed,
         Flush(d, next)
  PROVE  Write(d)
<1>1. next # "off" /\ next # "boot" /\ next \in Stage
  OBVIOUS
<1>2. "raised" \in Stage \ {"off", "boot"} /\ "raised" # "run"
  BY DEF Stage
<1>3. CASE mem' = d /\ disk' = d /\ stage' = next
  <2>1. /\ disk' = d \/ (disk' = disk /\ stage' \in {"raised", "exited"})
        /\ stage' \in Stage \ {"off", "boot"}
        /\ stage' = "run" => d.current # NoSeed
    BY <1>1, <1>3
  <2> QED
    BY <1>3, <2>1, Zenon DEF Write
<1>4. CASE mem' = d /\ stage' = "raised" /\ UNCHANGED disk
  BY <1>2, <1>4 DEF Write
<1> QED
  BY <1>3, <1>4 DEF Flush

\* What LedgerInv says of a driver that plays.
LEMMA AtPlay ==
  ASSUME LedgerInv, Playing
  PROVE  /\ SoundLedger(mem) /\ mem.status # "absent" /\ disk = mem /\ stage # "off"
         /\ \A s \in ToSet(mem.done) : artifact[s] = "closed"
         /\ \A e : SameRows(mem, e) =>
              Grown(disk, e) /\ \A s \in ToSet(e.done) : artifact[s] = "closed"
BY DEF LedgerInv, Playing, Grown, SameRows

LEMMA LoadWrites ==
  ASSUME LedgerInv, LoadOrInit
  PROVE  \E d : Write(d)
<1> DEFINE d == IF disk = NoFile THEN NewLedger ELSE [disk EXCEPT !.request = 0]
<1>1. SoundLedger(disk) /\ stage = "boot"
  BY DEF LedgerInv, LoadOrInit
<1>2. SoundLedger(d) /\ d.status # "absent" /\ SameRows(disk, d)
  <2>1. CASE disk = NoFile
    <3>1. d = NewLedger
      BY <2>1
    <3>2. NewLedger.status = "in_progress" /\ SameRows(NoFile, NewLedger)
      BY DEF NewLedger, NoFile, SameRows
    <3> QED
      BY <2>1, <3>1, <3>2, NewIsSound
  <2>2. CASE disk # NoFile
    <3>1. disk.status # "absent"
      BY <1>1, <2>2 DEF SoundLedger
    <3>2. d = [disk EXCEPT !.request = 0]
      BY <2>2
    <3> HIDE DEF d
    <3>3. /\ SoundLedger([disk EXCEPT !.request = 0])
          /\ SameRows(disk, [disk EXCEPT !.request = 0])
          /\ [disk EXCEPT !.request = 0].status = disk.status
      BY <1>1, <3>1, MarksAreSound
    <3> QED
      BY <3>1, <3>2, <3>3
  <2> HIDE DEF d
  <2> QED
    BY <2>1, <2>2
<1>3. Flush(d, IF d.status = "fatal" THEN "exited" ELSE "handshake")
  BY DEF LoadOrInit
<1> HIDE DEF d
<1>4. \A s \in ToSet(d.done) : artifact[s] = "closed"
  BY <1>2 DEF LedgerInv, SameRows
<1>5. Grown(disk, d)
  BY <1>2 DEF Grown
<1>6. UNCHANGED <<artifact, orch, seen, launch>>
  BY DEF LoadOrInit
<1>7. PICK next \in {"exited", "handshake"} : Flush(d, next)
  BY <1>3
<1>8. next \in Stage \ {"off", "boot"} /\ next # "run"
  BY DEF Stage
<1>9. Write(d)
  BY <1>1, <1>2, <1>4, <1>5, <1>6, <1>7, <1>8, FlushWrites
<1> QED
  BY <1>9

LEMMA HandshakeWrites ==
  ASSUME LedgerInv, Handshake
  PROVE  \E d : Write(d)
<1>1. Playing
  BY DEF Handshake, Playing
<1>2. launch \in Nat /\ UNCHANGED <<artifact, orch, seen, launch>>
  BY DEF LedgerInv, Handshake
<1>3. CASE stage' = "pick" /\ UNCHANGED <<disk, mem>>
  <2>1. Grown(disk, mem)
    BY <1>1, AtPlay DEF SameRows
  <2>2. "pick" \in Stage \ {"off", "boot"} /\ "pick" # "run"
    BY DEF Stage
  <2>3. disk' = mem /\ mem' = mem
    BY <1>1, <1>3, AtPlay
  <2>4. /\ SoundLedger(mem) /\ mem.status # "absent" /\ stage # "off"
        /\ \A s \in ToSet(mem.done) : artifact[s] = "closed"
    BY <1>1, AtPlay
  <2>5. stage' \in Stage \ {"off", "boot"} /\ (stage' = "run" => mem.current # NoSeed)
    BY <1>3, <2>2
  <2>6. Write(mem)
    BY <1>2, <2>1, <2>3, <2>4, <2>5, Zenon DEF Write
  <2> QED
    BY <2>6
<1>4. CASE mem' = Requested(mem) /\ disk' = mem' /\ stage' = "exited"
  <2>1. SoundLedger(Requested(mem)) /\ SameRows(mem, Requested(mem))
          /\ Requested(mem).status # "absent"
    BY <1>1, <1>2, AtPlay, MarksAreSound DEF Requested
  <2>2. Write(Requested(mem))
    BY <1>1, <1>2, <1>4, <2>1, AtPlay DEF Write, Stage
  <2> QED
    BY <2>2
<1> QED
  BY <1>3, <1>4 DEF Handshake

LEMMA PickWrites ==
  ASSUME LedgerInv, PickSeed
  PROVE  \E d : Write(d)
<1>1. Playing
  BY DEF PickSeed, Playing
<1>2. UNCHANGED <<artifact, orch, seen, launch>>
  BY DEF PickSeed
<1>3. CASE NextSeed(mem) = NoSeed
  <2> DEFINE d == [Closed(mem) EXCEPT !.status = IF mem.failed = << >> THEN "complete"
                                                 ELSE "complete_with_failures"]
  <2>1. SoundLedger(d) /\ SameRows(mem, d) /\ d.status # "absent"
    BY <1>1, <1>3, AtPlay, CompletionIsSound
  <2>2. Flush(d, "exited")
    BY <1>3 DEF PickSeed
  <2> HIDE DEF d
  <2>3. "exited" \in Stage \ {"off", "boot"} /\ "exited" # "run"
    BY DEF Stage
  <2>4. Write(d)
    BY <1>1, <1>2, <2>1, <2>2, <2>3, AtPlay, FlushWrites
  <2> QED
    BY <2>4
<1>4. CASE NextSeed(mem) # NoSeed
  <2> DEFINE d == [mem EXCEPT !.current = NextSeed(mem),
                              !.attempt = IF mem.current = NextSeed(mem) THEN @ + 1 ELSE 1]
  <2>1. SoundLedger(d) /\ SameRows(mem, d) /\ d.status # "absent" /\ d.current # NoSeed
    BY <1>1, <1>4, AtPlay, PickIsSound
  <2>2. Flush(d, "run")
    BY <1>4 DEF PickSeed
  <2> HIDE DEF d
  <2>3. "run" \in Stage \ {"off", "boot"}
    BY DEF Stage
  <2>4. Write(d)
    BY <1>1, <1>2, <2>1, <2>2, <2>3, AtPlay, FlushWrites
  <2> QED
    BY <2>4
<1> QED
  BY <1>3, <1>4
LEMMA DriftWrites ==
  ASSUME LedgerInv, Drift
  PROVE  \E d : Write(d)
<1> DEFINE d == [mem EXCEPT !.status = "fatal"]
<1>1. Playing
  BY DEF Drift, Playing
<1>2. SoundLedger(d) /\ SameRows(mem, d) /\ d.status = "fatal"
  BY <1>1, AtPlay, MarksAreSound
<1>3. mem' = d /\ disk' = d /\ stage' = "exited" /\ UNCHANGED <<artifact, orch, seen, launch>>
  BY DEF Drift
<1> HIDE DEF d
<1>4. Grown(disk, d) /\ (\A s \in ToSet(d.done) : artifact[s] = "closed") /\ stage # "off"
  BY <1>1, <1>2, AtPlay
<1>5. "exited" \in Stage \ {"off", "boot"} /\ "exited" # "run"
  BY DEF Stage
<1>6. Write(d)
  BY <1>2, <1>3, <1>4, <1>5 DEF Write
<1> QED
  BY <1>6

LEMMA DoneWrites ==
  ASSUME LedgerInv, RecordDone
  PROVE  \E d : Write(d)
<1> DEFINE d == [Closed(mem) EXCEPT !.done = Append(@, mem.current)]
<1>1. Playing /\ mem.current # NoSeed /\ artifact[mem.current] = "closed"
  BY DEF RecordDone, RunOver, Playing, LedgerInv
<1>2. SoundLedger(mem) /\ disk = mem /\ stage # "off"
  BY <1>1, AtPlay
<1>3. /\ SoundLedger(d) /\ OneRowMore(mem, d) /\ d.status # "absent"
      /\ ToSet(d.done) = ToSet(mem.done) \cup {mem.current}
  BY <1>1, <1>2, DoneIsSound
<1>4. PICK next \in {"left"} \cup (IF driver.outcome = "over" /\ game.up THEN {"pick"} ELSE {}) :
        Flush(d, next)
  BY DEF RecordDone
<1>5. next \in Stage \ {"off", "boot"} /\ next # "run"
  BY <1>4 DEF Stage
<1> HIDE DEF d
<1>6. \A s \in ToSet(d.done) : artifact[s] = "closed"
  BY <1>1, <1>3, AtPlay
<1>7. Grown(disk, d) /\ UNCHANGED <<artifact, orch, seen, launch>>
  BY <1>2, <1>3 DEF Grown, RecordDone
<1>8. Write(d)
  BY <1>2, <1>3, <1>4, <1>5, <1>6, <1>7, FlushWrites
<1> QED
  BY <1>8

\* A failed seed becomes a row, be it at the last attempt or by an error of the run.
LEMMA FailureFacts ==
  ASSUME LedgerInv, stage = "run",
         NEW d, d = [Closed(mem) EXCEPT !.failed = Append(@, mem.current)]
  PROVE  /\ SoundLedger(d) /\ d.status # "absent" /\ Grown(disk, d) /\ stage # "off"
         /\ \A s \in ToSet(d.done) : artifact[s] = "closed"
<1>1. Playing /\ mem.current # NoSeed
  BY DEF Playing, LedgerInv
<1>2. SoundLedger(mem) /\ disk = mem /\ \A s \in ToSet(mem.done) : artifact[s] = "closed"
  BY <1>1, AtPlay
<1>3. SoundLedger(d) /\ OneRowMore(mem, d) /\ d.status # "absent" /\ d.done = mem.done
  BY <1>1, <1>2, FailedIsSound
<1> QED
  BY <1>2, <1>3 DEF Grown

LEMMA GoneWrites ==
  ASSUME LedgerInv, RecordGone
  PROVE  \E d : Write(d)
<1> DEFINE e == [Closed(mem) EXCEPT !.failed = Append(@, mem.current)]
           d == IF mem.attempt >= MaxAttempts THEN e ELSE mem
<1>1. stage = "run" /\ Playing /\ UNCHANGED <<artifact, orch, seen, launch>>
  BY DEF RecordGone, Playing
<1>2. Flush(d, "left")
  BY DEF RecordGone
<1>3. /\ SoundLedger(e) /\ e.status # "absent" /\ Grown(disk, e) /\ stage # "off"
      /\ \A s \in ToSet(e.done) : artifact[s] = "closed"
  BY <1>1, FailureFacts
<1> HIDE DEF e
<1>4. /\ SoundLedger(mem) /\ mem.status # "absent" /\ Grown(disk, mem)
      /\ \A s \in ToSet(mem.done) : artifact[s] = "closed"
  BY <1>1, AtPlay DEF SameRows
<1>5. d = e \/ d = mem
  OBVIOUS
<1> HIDE DEF d
<1>6. "left" \in Stage \ {"off", "boot"} /\ "left" # "run"
  BY DEF Stage
<1>7. Write(d)
  BY <1>1, <1>2, <1>3, <1>4, <1>5, <1>6, FlushWrites
<1> QED
  BY <1>7

LEMMA ErrorWrites ==
  ASSUME LedgerInv, RecordError
  PROVE  \E d : Write(d)
<1> DEFINE d == [Closed(mem) EXCEPT !.failed = Append(@, mem.current)]
<1>1. stage = "run" /\ mem' = d /\ disk' = d /\ stage' = "pick"
        /\ UNCHANGED <<artifact, orch, seen, launch>>
  BY DEF RecordError
<1>2. /\ SoundLedger(d) /\ d.status # "absent" /\ Grown(disk, d) /\ stage # "off"
      /\ \A s \in ToSet(d.done) : artifact[s] = "closed"
  BY <1>1, FailureFacts
<1> HIDE DEF d
<1>3. "pick" \in Stage \ {"off", "boot"} /\ "pick" # "run"
  BY DEF Stage
<1>4. Write(d)
  BY <1>1, <1>2, <1>3 DEF Write
<1> QED
  BY <1>4

LEMMA RequestWrites ==
  ASSUME LedgerInv, RequestRestart
  PROVE  \E d : Write(d)
<1> DEFINE d == Requested(mem)
<1>1. Playing /\ launch \in Nat /\ UNCHANGED <<artifact, orch, seen, launch>>
  BY DEF RequestRestart, Playing, LedgerInv
<1>2. SoundLedger(d) /\ SameRows(mem, d) /\ d.status # "absent"
  BY <1>1, AtPlay, MarksAreSound DEF Requested
<1>3. Flush(d, "exited")
  BY DEF RequestRestart
<1> HIDE DEF d
<1>4. Grown(disk, d) /\ (\A s \in ToSet(d.done) : artifact[s] = "closed") /\ stage # "off"
  BY <1>1, <1>2, AtPlay
<1>5. "exited" \in Stage \ {"off", "boot"} /\ "exited" # "run"
  BY DEF Stage
<1>6. Write(d)
  BY <1>1, <1>2, <1>3, <1>4, <1>5, FlushWrites
<1> QED
  BY <1>6

\* The last request takes a row along that an earlier write has failed to store.
LEMMA LastRequestWrites ==
  ASSUME LedgerInv, LastRequest
  PROVE  \E d : Write(d)
<1>1. /\ stage = "raised" /\ stage' = "exited" /\ launch \in Nat
      /\ UNCHANGED <<artifact, orch, seen, launch>>
  BY DEF LastRequest, LedgerInv
<1>2. /\ SoundLedger(mem) /\ mem.status # "absent" /\ Grown(disk, mem)
      /\ \A s \in ToSet(mem.done) : artifact[s] = "closed"
  BY <1>1 DEF LedgerInv
<1>3. "exited" \in Stage \ {"off", "boot"} /\ "exited" # "run"
  BY DEF Stage
<1>4. CASE UNCHANGED <<disk, mem>>
  <2>1. Write(mem)
    BY <1>1, <1>2, <1>3, <1>4 DEF Write
  <2> QED
    BY <2>1
<1>5. CASE mem' = Requested(mem) /\ disk' = mem'
  <2> DEFINE d == Requested(mem)
  <2>1. SoundLedger(d) /\ SameRows(mem, d) /\ d.status # "absent"
    BY <1>1, <1>2, MarksAreSound DEF Requested
  <2>2. mem' = d /\ disk' = d
    BY <1>5
  <2> HIDE DEF d
  <2>3. Grown(disk, d) /\ \A s \in ToSet(d.done) : artifact[s] = "closed"
    BY <1>2, <2>1 DEF Grown, SameRows, OneRowMore
  <2>4. Write(d)
    BY <1>1, <1>3, <2>1, <2>2, <2>3 DEF Write
  <2> QED
    BY <2>4
<1> QED
  BY <1>4, <1>5 DEF LastRequest
\* The driver's steps that write the ledger or move on without writing.
Writing ==
  \/ LoadOrInit \/ Handshake \/ PickSeed \/ Drift \/ RecordDone \/ RecordGone \/ RecordError
  \/ RequestRestart \/ LastRequest

LEMMA WritingWrites ==
  ASSUME LedgerInv, Writing
  PROVE  \E d : Write(d)
BY LoadWrites, HandshakeWrites, PickWrites, DriftWrites, DoneWrites, GoneWrites, ErrorWrites,
   RequestWrites, LastRequestWrites DEF Writing

(***************************************************************************)
(* The other steps leave the file alone.                                   *)
(***************************************************************************)

\* An artifact is opened or closed for the seed under way only, which is none of the rows.
LEMMA ArtifactKeeps ==
  ASSUME LedgerInv, stage = "run", NEW v \in {"open", "closed"},
         artifact' = [artifact EXCEPT ![mem.current] = v],
         UNCHANGED <<disk, mem, stage, orch, seen, launch>>
  PROVE  LedgerInv'
<1>1. Playing /\ mem.current # NoSeed /\ SoundLedger(mem) /\ disk = mem
  BY DEF Playing, LedgerInv
<1>2. mem.current \in Seed /\ mem.current \notin ToSet(mem.done)
  BY <1>1, UnderWay DEF Rows
<1>3. artifact \in [Seed -> {"none", "open", "closed"}]
  BY DEF LedgerInv
<1>4. artifact' \in [Seed -> {"none", "open", "closed"}]
  BY <1>2, <1>3
<1>5. ToSet(mem.done) \subseteq Seed
  <2>1. mem.done \in Seq(Seed)
    BY <1>1, MembersOfRows
  <2>2. \A i \in DOMAIN mem.done : mem.done[i] \in Seed
    BY <2>1
  <2> QED
    BY <2>2, Zenon DEF ToSet
<1>6. \A s \in ToSet(mem.done) : artifact'[s] = "closed"
  <2>1. ASSUME NEW s \in ToSet(mem.done)
        PROVE  artifact'[s] = artifact[s]
    BY <1>2, <1>3, <1>5
  <2> QED
    BY <2>1 DEF LedgerInv
<1> QED
  BY <1>1, <1>4, <1>6 DEF LedgerInv, Playing, Grown, SameRows, OneRowMore

\* What the orchestrator does to the driver when it stops watching.
LEMMA KillKeeps ==
  ASSUME LedgerInv, KillAll, orch' \in {"idle"} \cup Exit
  PROVE  LedgerInv'
<1>1. /\ stage' = "off" /\ mem' = NoFile /\ seen' = NoFile
      /\ UNCHANGED <<disk, artifact, launch>>
  BY DEF KillAll
<1>2. NoFile.done = << >> /\ NoFile.failed = << >>
  BY DEF NoFile
<1>3. ToSet(NoFile.done) = {} /\ ToSet(NoFile.failed) = {} /\ SoundLedger(NoFile)
  BY <1>2, ToSetOfNone, NewIsSound
<1>4. "off" \in Stage
  BY DEF Stage
<1> QED
  BY <1>1, <1>3, <1>4 DEF LedgerInv, Playing

LEMMA VerdictIsExit ==
  ASSUME NEW d
  PROVE  Verdict(d) \in Exit
BY DEF Verdict, Exit

LEMMA LaunchKeeps ==
  ASSUME LedgerInv, Launch
  PROVE  LedgerInv'
<1>1. /\ stage = "off" /\ mem = NoFile /\ launch \in Nat
      /\ UNCHANGED <<disk, mem, artifact, seen>>
  BY DEF LedgerInv, Launch
<1>2. CASE orch' = Verdict(disk) /\ UNCHANGED <<launch, stage>>
  BY <1>1, <1>2, VerdictIsExit DEF LedgerInv, Playing
<1>3. CASE launch' = launch + 1 /\ stage' = "boot" /\ orch' = "watch"
  <2>1. "boot" \in Stage /\ launch' \in Nat
    BY <1>1, <1>3 DEF Stage
  <2> QED
    BY <1>1, <1>3, <2>1 DEF LedgerInv, Playing, Exit
<1> QED
  BY <1>2, <1>3 DEF Launch

LEMMA PollKeeps ==
  ASSUME LedgerInv, Poll \/ PollAgain
  PROVE  LedgerInv'
<1>1. /\ UNCHANGED <<disk, mem, artifact, stage, launch>>
      /\ orch \in {"watch", "judge"} /\ orch' \in {"watch", "judge"}
  BY DEF Poll, PollAgain, NoReason, StillOpen
<1>2. NoFile.done = << >> /\ NoFile.failed = << >>
  BY DEF NoFile
<1>3. ToSet(NoFile.done) = {} /\ ToSet(NoFile.failed) = {} /\ SoundLedger(NoFile)
  BY <1>2, ToSetOfNone, NewIsSound
<1>4. seen' = disk \/ seen' = NoFile
  BY DEF Poll, PollAgain
<1>5. SoundLedger(seen') /\ ToSet(seen'.done) \subseteq ToSet(disk.done)
        /\ ToSet(seen'.failed) \subseteq ToSet(disk.failed)
  BY <1>3, <1>4 DEF LedgerInv
<1>6. orch' \notin {"idle"} \cup Exit /\ orch \notin {"idle"} \cup Exit
  BY <1>1 DEF Exit
<1> QED
  BY <1>1, <1>5, <1>6 DEF LedgerInv, Playing, Grown, SameRows, OneRowMore

Relaunching == Restart \/ Recycle \/ GameExited \/ StallSeen \/ StallKill \/ RunAgain

Quiet == UNCHANGED <<disk, mem, artifact, stage, orch, seen, launch>>

LEMMA QuietKeeps ==
  ASSUME LedgerInv, Quiet
  PROVE  LedgerInv'
BY DEF LedgerInv, Quiet, Playing, Grown, SameRows, OneRowMore

\* Every step is of one of these kinds.
LEMMA StepKinds ==
  ASSUME [Next]_vars
  PROVE  Writing \/ OpenRun \/ CloseRun \/ Launch \/ Poll \/ PollAgain \/ StopAll
           \/ Relaunching \/ Quiet
<1>1. MenuLost \/ Play \/ Crash => Quiet
  BY DEF MenuLost, Play, Crash, Quiet, campaignVars
<1>2. UNCHANGED vars => Quiet
  BY DEF Quiet, vars, campaignVars
<1> QED
  BY <1>1, <1>2, Zenon DEF Next, DriverNext, OrchestratorNext, Writing, Relaunching

LEMMA InvStep == LedgerInv /\ [Next]_vars => LedgerInv'
<1> SUFFICES ASSUME LedgerInv, [Next]_vars
             PROVE  LedgerInv'
  OBVIOUS
<1>1. CASE Writing
  <2>1. PICK d : Write(d)
    BY <1>1, WritingWrites
  <2> QED
    BY <2>1, WriteKeeps
<1>2. CASE OpenRun
  BY <1>2, ArtifactKeeps DEF OpenRun
<1>3. CASE CloseRun
  BY <1>3, ArtifactKeeps DEF CloseRun, RunOver
<1>4. CASE Launch
  BY <1>4, LaunchKeeps
<1>5. CASE Poll \/ PollAgain
  BY <1>5, PollKeeps
<1>6. CASE StopAll
  BY <1>6, KillKeeps, VerdictIsExit DEF StopAll
<1>7. CASE Relaunching
  BY <1>7, KillKeeps DEF Relaunching, Restart, Recycle, GameExited, StallSeen, StallKill,
     RunAgain, Relaunch
<1>8. CASE Quiet
  BY <1>8, QuietKeeps
<1> QED
  BY <1>1, <1>2, <1>3, <1>4, <1>5, <1>6, <1>7, <1>8, StepKinds

LEMMA InvInit == Init => LedgerInv
<1> SUFFICES ASSUME Init
             PROVE  LedgerInv
  OBVIOUS
<1>1. /\ disk = NoFile /\ mem = NoFile /\ seen = NoFile /\ stage = "off" /\ orch = "idle"
      /\ launch = 0 /\ artifact = [s \in Seed |-> "none"]
  BY DEF Init
<1>2. NoFile.done = << >> /\ NoFile.failed = << >>
  BY DEF NoFile
<1>3. ToSet(NoFile.done) = {} /\ ToSet(NoFile.failed) = {} /\ SoundLedger(NoFile)
  BY <1>2, ToSetOfNone, NewIsSound
<1> QED
  BY <1>1, <1>3 DEF LedgerInv, Playing, Stage

LEMMA InvAlways == Spec => []LedgerInv
BY InvInit, InvStep, PTL DEF Spec

\* A seed counts as done only with a closed artifact, and the ledger on disk has the rows
\* of the driver's copy except on the way out: run_seed, run and Progress.flush, for every
\* list of seeds, whatever crashes and whichever write fails.
THEOREM SettledSeedsAreKept == Spec => []LedgerTrue
<1>1. ASSUME LedgerInv
      PROVE  LedgerTrue
  <2>1. DoneHasRun
    BY <1>1 DEF LedgerInv, DoneHasRun
  <2>2. ASSUME mem # NoFile, stage # "raised", stage # "exited"
        PROVE  disk = mem
    BY <1>1, <2>2 DEF LedgerInv, Stage, Playing
  <2> QED
    BY <2>1, <2>2 DEF LedgerTrue, NothingToLose
<1> QED
  BY <1>1, InvAlways, PTL
(***************************************************************************)
(* What a reader of the file sees implements SeedLedger.                   *)
(***************************************************************************)

Fate(d, s) == IF s \in ToSet(d.done) THEN "done"
              ELSE IF s \in ToSet(d.failed) THEN "failed" ELSE "open"
Fates(d) == [i \in DOMAIN Seeds |-> Fate(d, Seeds[i])]
Judged == IF orch \in Exit THEN orch ELSE "none"

\* A seed is open as long as it comes after the rows.
LEMMA OpenOnes ==
  ASSUME NEW d, SoundLedger(d), NEW i \in 1 .. Len(Seeds)
  PROVE  /\ Fates(d)[i] \in {"open", "done", "failed"}
         /\ Fates(d)[i] = "open" <=> i > Count(d)
         /\ Fates(d)[i] = "done" <=> Seeds[i] \in ToSet(d.done)
         /\ Fates(d)[i] = "failed" <=> Seeds[i] \in ToSet(d.failed)
<1>1. Fates(d)[i] = Fate(d, Seeds[i])
  BY TheSeeds DEF Fates
<1>2. Seeds[i] \in Rows(d) <=> i <= Count(d)
  BY SettledOnes
<1>3. ~(Seeds[i] \in ToSet(d.done) /\ Seeds[i] \in ToSet(d.failed))
  BY DEF SoundLedger
<1>4. Fate(d, Seeds[i]) = "open" <=> Seeds[i] \notin Rows(d)
  BY DEF Fate, Rows
<1>5. /\ Fate(d, Seeds[i]) \in {"open", "done", "failed"}
      /\ Fate(d, Seeds[i]) = "done" <=> Seeds[i] \in ToSet(d.done)
      /\ Fate(d, Seeds[i]) = "failed" <=> Seeds[i] \in ToSet(d.failed)
  BY <1>3 DEF Fate
<1>6. i > Count(d) <=> ~(i <= Count(d))
  <2>1. \A m, n \in Nat : m > n <=> ~(m <= n)
    OBVIOUS
  <2>2. i \in Nat
    BY TheSeeds
  <2>3. Count(d) \in Nat
    BY MembersOfRows
  <2> QED
    BY <2>1, <2>2, <2>3, Zenon
<1> QED
  BY <1>1, <1>2, <1>4, <1>5, <1>6

\* A new row settles the next seed of the list, and no other.
LEMMA GrowthSettles ==
  ASSUME NEW d, SoundLedger(d), NEW e, OneRowMore(d, e)
  PROVE  /\ Count(d) + 1 \in 1 .. Len(Seeds)
         /\ \E r \in {"done", "failed"} : Fates(e) = [Fates(d) EXCEPT ![Count(d) + 1] = r]
<1>1. Count(d) \in Nat /\ d.done \in Seq(Seed) /\ d.failed \in Seq(Seed)
  BY MembersOfRows
<1>2. PICK k : k = Count(d) + 1
  OBVIOUS
<1>3. k \in 1 .. Len(Seeds)
  BY <1>1, <1>2, TheSeeds DEF OneRowMore
<1>4. PICK s : s = Seeds[k]
  OBVIOUS
<1>5. s \in Seed
  BY <1>3, <1>4, TheSeeds
<1>6. /\ ToSet(Append(d.done, s)) = ToSet(d.done) \cup {s}
      /\ ToSet(Append(d.failed, s)) = ToSet(d.failed) \cup {s}
  BY <1>1, <1>5, ToSetOfAppend
<1>7. s \notin ToSet(d.done) /\ s \notin ToSet(d.failed)
  <2>1. ~(k <= Count(d))
    BY <1>1, <1>2
  <2> QED
    BY <1>3, <1>4, <2>1, SettledOnes DEF Rows
<1>8. \A i \in DOMAIN Seeds : Seeds[i] = s <=> i = k
  BY <1>3, <1>4, TheSeeds
<1>9. k \in DOMAIN Fates(d) /\ DOMAIN Fates(d) = DOMAIN Seeds
  BY <1>3, TheSeeds DEF Fates
<1>10. CASE e.done = Append(d.done, s) /\ e.failed = d.failed
  <2>1. \A x : Fate(e, x) = IF x = s THEN "done" ELSE Fate(d, x)
    BY <1>6, <1>10 DEF Fate
  <2>2. Fates(e) = [Fates(d) EXCEPT ![k] = "done"]
    BY <1>8, <1>9, <2>1 DEF Fates
  <2> QED
    BY <1>2, <1>3, <2>2
<1>11. CASE e.done = d.done /\ e.failed = Append(d.failed, s)
  <2>1. \A x : Fate(e, x) = IF x = s THEN "failed" ELSE Fate(d, x)
    BY <1>6, <1>7, <1>11 DEF Fate
  <2>2. Fates(e) = [Fates(d) EXCEPT ![k] = "failed"]
    BY <1>8, <1>9, <2>1 DEF Fates
  <2> QED
    BY <1>2, <1>3, <2>2
<1> QED
  BY <1>2, <1>4, <1>10, <1>11 DEF OneRowMore

\* A sound ledger that is closed and not acceptable has failed a seed, and none is open.
LEMMA ClosedLedger ==
  ASSUME NEW d, SoundLedger(d), Complete(d)
  PROVE  /\ Count(d) = Len(Seeds)
         /\ Acceptable(d) => \A i \in 1 .. Len(Seeds) : Fates(d)[i] = "done"
         /\ ~Acceptable(d) => \E i \in 1 .. Len(Seeds) : Fates(d)[i] = "failed"
<1>1. Count(d) = Len(Seeds)
  BY DEF SoundLedger, Complete
<1>2. Len(d.done) \in Nat /\ Len(d.failed) \in Nat /\ Count(d) = Len(d.done) + Len(d.failed)
        /\ d.done \in Seq(Seed) /\ d.failed \in Seq(Seed)
  BY MembersOfRows
<1>3. ASSUME Acceptable(d), NEW i \in 1 .. Len(Seeds)
      PROVE  Fates(d)[i] = "done"
  <2>1. Seeds[i] \in ToSet(d.done)
    BY <1>3, TheSeeds DEF Acceptable, ToSet
  <2> QED
    BY <2>1, OpenOnes
<1>4. ASSUME ~Acceptable(d)
      PROVE  \E i \in 1 .. Len(Seeds) : Fates(d)[i] = "failed"
  <2>1. d.failed # << >>
    <3>1. SUFFICES ASSUME d.failed = << >>
                   PROVE  FALSE
      OBVIOUS
    <3>2. d.status = "complete"
      BY <3>1 DEF Complete, SoundLedger
    <3>3. Len(d.done) = Len(Seeds) /\ \A i \in 1 .. Len(d.done) : d.done[i] = Seeds[i]
      BY <1>1, <1>2, <3>1 DEF SoundLedger
    <3>4. d.done = Seeds
      BY <1>2, <3>3, TheSeeds
    <3> QED
      BY <1>4, <3>1, <3>2, <3>4 DEF Acceptable
  <2>2. 1 \in DOMAIN d.failed
    BY <1>2, <2>1
  <2>3. PICK s : s = d.failed[1]
    OBVIOUS
  <2>4. s \in ToSet(d.failed)
    BY <2>2, <2>3, Zenon DEF ToSet
  <2>5. s \in First(Len(Seeds))
    BY <1>1, <2>4 DEF SoundLedger, Rows
  <2>6. PICK i \in 1 .. Len(Seeds) : Seeds[i] = s
    BY <2>5 DEF First
  <2>7. Fates(d)[i] = "failed"
    BY <2>4, <2>6, OpenOnes
  <2> QED
    BY <2>7
<1> QED
  BY <1>1, <1>3, <1>4

\* The steps of SeedLedger over the file and the orchestrator's exit.
LEMMA MappedState ==
  /\ [i \in DOMAIN Seeds |-> Settledness(Seeds[i])] = Fates(disk)
  /\ [i \in DOMAIN Seeds |-> Settledness(Seeds[i])]' = Fates(disk')
BY DEF Fates, Fate, Settledness
LEMMA LedgerSteps ==
  /\ /\ Judged = "none" /\ Judged' = "none"
     /\ \E i \in DOMAIN Seeds, r \in {"done", "failed"} :
          /\ Fates(disk)[i] = "open" /\ \A k \in 1 .. i - 1 : Fates(disk)[k] # "open"
          /\ Fates(disk') = [Fates(disk) EXCEPT ![i] = r]
     => Abstract!Next
  /\ /\ Judged = "none" /\ Judged' = "ok" /\ disk' = disk
     /\ \A i \in DOMAIN Seeds : Fates(disk)[i] = "done"
     => Abstract!Next
  /\ /\ Judged = "none" /\ Judged' = "invalid" /\ disk' = disk
     /\ \A i \in DOMAIN Seeds : Fates(disk)[i] # "open"
     /\ \E i \in DOMAIN Seeds : Fates(disk)[i] = "failed"
     => Abstract!Next
  /\ Judged = "none" /\ Judged' = "fatal" /\ disk' = disk => Abstract!Next
  /\ Fates(disk') = Fates(disk) /\ Judged' = Judged
     => UNCHANGED <<[i \in DOMAIN Seeds |-> Settledness(Seeds[i])], Judged>>
<1>1. /\ [i \in DOMAIN Seeds |-> Settledness(Seeds[i])] = Fates(disk)
      /\ [i \in DOMAIN Seeds |-> Settledness(Seeds[i])]' = Fates(disk')
  BY MappedState
<1>2. disk' = disk => Fates(disk') = Fates(disk)
  OBVIOUS
<1> HIDE DEF Fates, Settledness
<1>3. /\ Abstract!Settle <=>
           /\ Judged = "none"
           /\ \E i \in DOMAIN Seeds, r \in {"done", "failed"} :
                /\ Fates(disk)[i] = "open" /\ \A k \in 1 .. i - 1 : Fates(disk)[k] # "open"
                /\ Fates(disk') = [Fates(disk) EXCEPT ![i] = r]
           /\ Judged' = Judged
      /\ Abstract!Accept <=>
           /\ Judged = "none" /\ \A i \in DOMAIN Seeds : Fates(disk)[i] = "done"
           /\ Judged' = "ok" /\ Fates(disk') = Fates(disk)
      /\ Abstract!Refuse <=>
           /\ Judged = "none" /\ \A i \in DOMAIN Seeds : Fates(disk)[i] # "open"
           /\ \E i \in DOMAIN Seeds : Fates(disk)[i] = "failed"
           /\ Judged' = "invalid" /\ Fates(disk') = Fates(disk)
      /\ Abstract!Stop <=>
           Judged = "none" /\ Judged' = "fatal" /\ Fates(disk') = Fates(disk)
  BY <1>1 DEF Abstract!Settle, Abstract!Accept, Abstract!Refuse, Abstract!Stop, Judged
<1> QED
  BY <1>1, <1>2, <1>3, Zenon DEF Abstract!Next

\* Every step of the driver settles the next seed of the list, or none.
LEMMA WriteSettles ==
  ASSUME LedgerInv, NEW d, Write(d)
  PROVE  Abstract!Next \/ (Fates(disk') = Fates(disk) /\ Judged' = Judged)
<1>1. orch' = orch /\ orch \notin Exit
  BY DEF Write, LedgerInv
<1>2. Judged = "none" /\ Judged' = "none"
  BY <1>1 DEF Judged
<1>3. CASE disk' = disk
  BY <1>2, <1>3
<1>4. CASE disk' = d /\ SameRows(disk, d)
  <2>1. Fates(d) = Fates(disk)
    BY <1>4 DEF SameRows, Fates, Fate
  <2> QED
    BY <1>2, <1>4, <2>1
<1>5. CASE disk' = d /\ OneRowMore(disk, d)
  <2>1. SoundLedger(disk) /\ Count(disk) \in Nat
    BY MembersOfRows DEF LedgerInv
  <2>2. PICK r \in {"done", "failed"} : Fates(d) = [Fates(disk) EXCEPT ![Count(disk) + 1] = r]
    BY <1>5, <2>1, GrowthSettles
  <2>3. PICK j \in 1 .. Len(Seeds) : j = Count(disk) + 1
    BY <1>5, <2>1, GrowthSettles
  <2>4. Fates(disk)[j] = "open"
    BY <2>1, <2>3, OpenOnes
  <2>5. ASSUME NEW k \in 1 .. j - 1
        PROVE  Fates(disk)[k] # "open"
    <3>1. k \in 1 .. Len(Seeds) /\ ~(k > Count(disk))
      BY <2>1, <2>3, TheSeeds
    <3> QED
      BY <2>1, <3>1, OpenOnes
  <2>6. Fates(disk') = [Fates(disk) EXCEPT ![j] = r] /\ j \in DOMAIN Seeds
    BY <1>5, <2>2, <2>3, TheSeeds
  <2> QED
    BY <1>2, <2>4, <2>5, <2>6, LedgerSteps
<1> QED
  BY <1>3, <1>4, <1>5 DEF Write, Grown

\* The verdict over a copy d that lags behind the file is right of the file.
LEMMA VerdictStands ==
  ASSUME LedgerInv, orch \notin Exit, NEW d, SoundLedger(d),
         ToSet(d.done) \subseteq ToSet(disk.done), ToSet(d.failed) \subseteq ToSet(disk.failed),
         d.status = "fatal" \/ Complete(d), orch' = Verdict(d), disk' = disk
  PROVE  Abstract!Next
<1>1. Judged = "none" /\ Judged' = Verdict(d)
  BY VerdictIsExit DEF Judged
<1>2. SoundLedger(disk)
  BY DEF LedgerInv
<1>3. ASSUME NEW i \in 1 .. Len(Seeds)
      PROVE  /\ Fates(d)[i] = "done" => Fates(disk)[i] = "done"
             /\ Fates(d)[i] = "failed" => Fates(disk)[i] = "failed"
  BY <1>2, OpenOnes
<1>4. CASE d.status = "fatal"
  BY <1>1, <1>4, LedgerSteps DEF Verdict
<1>5. CASE d.status # "fatal" /\ Acceptable(d)
  <2>1. \A i \in DOMAIN Seeds : Fates(disk)[i] = "done"
    BY <1>3, <1>5, ClosedLedger, TheSeeds
  <2> QED
    BY <1>1, <1>5, <2>1, LedgerSteps DEF Verdict
<1>6. CASE d.status # "fatal" /\ ~Acceptable(d)
  <2>1. \E i \in DOMAIN Seeds : Fates(disk)[i] = "failed"
    BY <1>3, <1>6, ClosedLedger, TheSeeds
  <2>2. ASSUME NEW i \in 1 .. Len(Seeds)
        PROVE  Fates(disk)[i] # "open"
    <3>1. Count(d) = Len(Seeds) /\ ~(i > Count(d))
      BY <1>6, ClosedLedger, TheSeeds
    <3>2. Fates(d)[i] = "done" \/ Fates(d)[i] = "failed"
      BY <3>1, OpenOnes
    <3> QED
      BY <1>3, <3>2
  <2> QED
    BY <1>1, <1>6, <2>1, <2>2, LedgerSteps, TheSeeds DEF Verdict
<1> QED
  BY <1>4, <1>5, <1>6

LEMMA LedgerNext ==
  ASSUME LedgerInv, [Next]_vars
  PROVE  Abstract!Next \/ (Fates(disk') = Fates(disk) /\ Judged' = Judged)
<1>1. CASE Writing
  <2>1. PICK d : Write(d)
    BY <1>1, WritingWrites
  <2> QED
    BY <2>1, WriteSettles
<1>2. CASE OpenRun \/ CloseRun \/ Quiet
  BY <1>2 DEF OpenRun, CloseRun, Quiet, Judged
<1>3. CASE Poll \/ PollAgain
  <2>1. disk' = disk /\ orch \notin Exit /\ orch' \notin Exit
    BY <1>3 DEF Poll, PollAgain, NoReason, StillOpen, Exit
  <2> QED
    BY <2>1 DEF Judged
<1>4. CASE Relaunching
  <2>1. disk' = disk /\ orch \notin Exit /\ orch' \notin Exit
    BY <1>4 DEF Relaunching, Restart, Recycle, GameExited, StallSeen, StallKill, RunAgain,
       Relaunch, NoReason, StillOpen, KillAll, Exit
  <2> QED
    BY <2>1 DEF Judged
<1>5. CASE Launch
  <2>1. disk' = disk /\ orch \notin Exit
    BY <1>5 DEF Launch, Exit
  <2>2. CASE orch' = "watch"
    <3>1. orch' \notin Exit
      BY <2>2 DEF Exit
    <3> QED
      BY <2>1, <3>1 DEF Judged
  <2>3. CASE orch' = Verdict(disk) /\ (disk.status = "fatal" \/ Complete(disk))
    BY <2>1, <2>3, VerdictStands DEF LedgerInv
  <2> QED
    BY <1>5, <2>2, <2>3 DEF Launch
<1>6. CASE StopAll
  <2>1. /\ disk' = disk /\ orch \notin Exit /\ orch' = Verdict(seen)
        /\ seen.status = "fatal" \/ Complete(seen)
    BY <1>6 DEF StopAll, KillAll, Exit
  <2> QED
    BY <2>1, VerdictStands DEF LedgerInv
<1> QED
  BY <1>1, <1>2, <1>3, <1>4, <1>5, <1>6, StepKinds

\* What a reader of campaign_progress.json sees is SeedLedger, for every list of seeds and
\* every budget: the seeds are settled in the order of the list, each once and for good,
\* and the exit "ok" means a run of each of them (Progress.flush and next_seed of the
\* driver, completion_error of the orchestrator).
THEOREM LedgerIsImplemented == Spec => ImplementsLedger
<1>1. ASSUME Init
      PROVE  Abstract!Init
  <2>1. NoFile.done = << >> /\ NoFile.failed = << >> /\ disk = NoFile /\ orch \notin Exit
    BY <1>1 DEF NoFile, Init, Exit
  <2>2. ToSet(disk.done) = {} /\ ToSet(disk.failed) = {}
    BY <2>1, ToSetOfNone
  <2>3. [i \in DOMAIN Seeds |-> Settledness(Seeds[i])] = [i \in DOMAIN Seeds |-> "open"]
    BY <2>2 DEF Settledness
  <2> QED
    BY <2>1, <2>3 DEF Abstract!Init
<1>2. ASSUME LedgerInv, [Next]_vars
      PROVE  \/ Abstract!Next
             \/ UNCHANGED <<[i \in DOMAIN Seeds |-> Settledness(Seeds[i])],
                            IF orch \in Exit THEN orch ELSE "none">>
  BY <1>2, LedgerNext, LedgerSteps DEF Judged
<1> QED
  BY <1>1, <1>2, InvAlways, PTL DEF Spec, ImplementsLedger, Abstract!Spec
===============================================================================
