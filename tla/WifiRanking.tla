---------------------------- MODULE WifiRanking ----------------------------
(***************************************************************************)
(* Which open access points a Wi-Fi window tries, and in which order:      *)
(* WifiCandidateRanker and BssidAttemptTracker of src/src/ClockCore.cpp as *)
(* NetworkTimeService.cpp uses them.  A scan reports an access point any   *)
(* number of times, in any order and at any strength.  BSSIDs are numbers: *)
(* the code compares them with memcmp.                                     *)
(***************************************************************************)
EXTENDS Integers, FiniteSetsExt, SequencesExt

CONSTANTS
  Bssid,          \* a set of numbers
  Rssi,           \* signal strengths in dBm
  RankCapacity,   \* WifiCandidateRanker::kCapacity
  FailedRoom      \* BssidAttemptTracker::kCapacity

\* No radio reports it.
NotHeard == 1000

ASSUME RankingAssumption ==
  /\ Bssid \subseteq Nat /\ Rssi \subseteq Int \ {NotHeard}
  /\ {RankCapacity, FailedRoom} \subseteq Nat \ {0}

VARIABLES
  candidates,     \* candidateRanker_
  next,           \* nextCandidateIndex_: how many of them have been tried
  failed,         \* failedBssids_
  scanning,
  exhausted,      \* wifiExhaustedForBoot_
  heard           \* history: the strongest reading of each usable access point

rankVars == <<candidates, next, failed, scanning, exhausted, heard>>

Nothing == [b \in Bssid |-> NotHeard]

RankInit ==
  /\ candidates = <<>> /\ next = 0 /\ heard = Nothing
  /\ failed = {} /\ scanning = FALSE /\ exhausted = FALSE

\* A total order on readings: strength first, then the address.
Outranks(c, d) == c.rssi > d.rssi \/ (c.rssi = d.rssi /\ c.bssid <= d.bssid)

\* MUTANT: a full list takes no more.
InsertedWithRoom(list, c) ==
  LET ahead == SelectInSeq(list, LAMBDA d : ~Outranks(d, c))
  IN  IF Len(list) >= RankCapacity THEN list
      ELSE IF ahead = 0 THEN Append(list, c) ELSE InsertAt(list, ahead, c)

\* Before the first that does not outrank it; the last one gives way to it.
Inserted(list, c) ==
  LET ahead == SelectInSeq(list, LAMBDA d : ~Outranks(d, c))
      all   == IF ahead = 0 THEN Append(list, c) ELSE InsertAt(list, ahead, c)
  IN  IF Len(all) > RankCapacity THEN Front(all) ELSE all

consider(list, c) ==
  LET same == SelectInSeq(list, LAMBDA d : d.bssid = c.bssid)
  IN  IF same = 0 THEN Inserted(list, c)
      ELSE IF c.rssi <= list[same].rssi THEN list
      ELSE Inserted(RemoveAt(list, same), c)

startScan ==
  /\ ~scanning /\ ~exhausted
  /\ candidates' = <<>> /\ next' = 0 /\ scanning' = TRUE /\ heard' = Nothing
  /\ UNCHANGED <<failed, exhausted>>

\* usable: open, on a channel the clock knows, and its name is a string of 1 to 32.
ScanReports(bssid, rssi, usable) ==
  /\ scanning
  /\ IF usable /\ bssid \notin failed
     THEN /\ candidates' = consider(candidates, [bssid |-> bssid, rssi |-> rssi])
          /\ heard' = [heard EXCEPT ![bssid] = IF @ = NotHeard \/ rssi > @ THEN rssi ELSE @]
     ELSE UNCHANGED <<candidates, heard>>
  /\ UNCHANGED <<next, failed, scanning, exhausted>>

ScanEnds ==
  /\ scanning
  /\ scanning' = FALSE
  /\ UNCHANGED <<candidates, next, failed, exhausted, heard>>

\* connectNextCandidate, for a candidate that fails: with no room to remember it, Wi-Fi is
\* over until the next boot.
CandidateFails ==
  /\ ~scanning /\ ~exhausted /\ next < Len(candidates)
  /\ next' = next + 1
  /\ IF Cardinality(failed) < FailedRoom
     THEN failed' = failed \union {candidates[next'].bssid} /\ UNCHANGED exhausted
     ELSE exhausted' = TRUE /\ UNCHANGED failed
  /\ UNCHANGED <<candidates, scanning, heard>>

Restart ==
  /\ candidates' = <<>> /\ next' = 0 /\ heard' = Nothing
  /\ failed' = {} /\ scanning' = FALSE /\ exhausted' = FALSE

RankNext ==
  \/ startScan \/ ScanEnds \/ CandidateFails \/ Restart
  \/ \E bssid \in Bssid, rssi \in Rssi, usable \in BOOLEAN : ScanReports(bssid, rssi, usable)

----------------------------------------------------------------------------
(* Properties                                                              *)

\* Whatever the order of the reports, the list holds the strongest access points heard,
\* each once, at its best reading and in order; whoever was heard and is not listed has
\* found the list full of stronger ones.  None of those still to be tried has failed before.
RankingIsBest ==
  /\ \A i \in DOMAIN candidates : i > next => candidates[i].bssid \notin failed
  /\ Len(candidates) <= RankCapacity
  /\ \A i, j \in DOMAIN candidates :
       i < j => Outranks(candidates[i], candidates[j])
                /\ candidates[i].bssid # candidates[j].bssid
  /\ \A i \in DOMAIN candidates : candidates[i].rssi = heard[candidates[i].bssid]
  /\ \A b \in Bssid :
       heard[b] # NotHeard /\ (\A i \in DOMAIN candidates : candidates[i].bssid # b)
       => /\ Len(candidates) = RankCapacity
          /\ Outranks(Last(candidates), [bssid |-> b, rssi |-> heard[b]])

=============================================================================
