--------------------------- MODULE ScheduleProofs ---------------------------
(***************************************************************************)
(* Proofs about the background refresh of a pool, for any cards, intervals *)
(* and pauses: a round starts when it is shown to, and no card is passed   *)
(* over by two rounds in a row.                                            *)
(***************************************************************************)
EXTENDS RefreshSchedule, TLAPS

-----------------------------------------------------------------------------
(* The pauses' lengths are of no matter here: that a card is paused is read, *)
(* how long it stays so is not.                                            *)
ClocksTyped ==
  /\ poolKind \in {"codex", "claude"}
  /\ loop \in {"starts", "asks", "done", "waits"}
  /\ round \in [tick : 0..(FullRound - 1), interval : {Fast, Slow}, unchanged : 0..Unchanged]
  /\ at \in -1..Slow /\ sleep \in 0..Slow /\ permit \in BOOLEAN
  /\ age \in [Rows -> 0..Oldest] /\ passedOver \in [Rows -> 0..2]

(* The published time and the loop's wait start from one interval, and run  *)
(* down together; a permit not taken yet starts both over.                 *)
ClocksTogether ==
  /\ loop = "asks" => at = -1
  /\ loop = "done" \/ (loop = "waits" /\ permit) => at = round.interval
  /\ ShownRoundComes

(* A card passed over was not asked since: it ages while the loop waits.   *)
OldWhenRoundStarts ==
  \A row \in Rows : passedOver[row] = 1 =>
    /\ loop = "waits" => age[row] + sleep >= round.interval
    /\ loop = "starts" => age[row] >= round.interval

ScheduleInv == ClocksTyped /\ ClocksTogether /\ PassedOverOnce /\ OldWhenRoundStarts

LEMMA Intervals ==
  /\ Fast \in Nat /\ Slow \in Nat /\ 0 < Fast /\ Fast < Slow /\ Oldest = Slow + 1
BY ScheduleConstants DEF Oldest

LEMMA ScheduleStarts == ScheduleInit => ScheduleInv
<1> SUFFICES ASSUME NEW kind \in {"codex", "claude"}, ScheduleStart(kind) PROVE ScheduleInv
  BY DEF ScheduleInit
<1> USE Intervals DEF ScheduleStart
<1>1. ClocksTyped
  <2>1. age \in [Rows -> 0..Oldest] OBVIOUS
  <2>2. round \in [tick : 0..(FullRound - 1), interval : {Fast, Slow}, unchanged : 0..Unchanged]
    BY ScheduleConstants
  <2>3. at \in -1..Slow /\ sleep \in 0..Slow OBVIOUS
  <2>4. permit \in BOOLEAN /\ loop = "starts" OBVIOUS
  <2>5. passedOver \in [Rows -> 0..2] OBVIOUS
  <2> QED BY <2>1, <2>2, <2>3, <2>4, <2>5 DEF ClocksTyped
<1>2. ClocksTogether BY DEF ClocksTogether, ShownRoundComes
<1>3. PassedOverOnce /\ OldWhenRoundStarts BY DEF PassedOverOnce, OldWhenRoundStarts
<1> QED BY <1>1, <1>2, <1>3 DEF ScheduleInv

(* A card passed over once is due when the next round starts.              *)
LEMMA StartKeeps ==
  ASSUME ScheduleInv, NEW inUse \in SUBSET Rows, RoundStarts(inUse) PROVE ScheduleInv'
<1> USE Intervals DEF ScheduleInv, RoundStarts
<1>1. /\ loop' = "asks" /\ at' = -1
      /\ UNCHANGED <<round, sleep, permit, age>>
  OBVIOUS
<1>2. \A row \in Rows : passedOver'[row] \in 0..1
  <2> SUFFICES ASSUME NEW row \in Rows PROVE passedOver'[row] \in 0..1
    OBVIOUS
  <2>1. /\ passedOver[row] \in 0..1 /\ age[row] \in Int
        /\ round.interval \in Int /\ poolKind \in {"codex", "claude"}
    BY DEF PassedOverOnce, ClocksTyped
  <2>2. passedOver'[row] = IF row \in due' \/ pause[row].left > 0 \/ poolKind = "codex" THEN 0
                           ELSE IF passedOver[row] < 2 THEN passedOver[row] + 1 ELSE 2
    OBVIOUS
  <2>3. CASE passedOver[row] = 0 BY <2>1, <2>2, <2>3
  <2>4. CASE passedOver[row] = 1
    <3>1. age[row] >= round.interval BY <2>4 DEF OldWhenRoundStarts
    <3>2. poolKind = "claude" => row \in due'
      BY <2>1, <3>1 DEF DueCards, IsDue, Fresh
    <3> QED BY <2>1, <2>2, <3>2
  <2> QED BY <2>1, <2>3, <2>4
<1>3. passedOver' \in [Rows -> 0..2] BY <1>2
<1>4. ClocksTyped' BY <1>1, <1>3 DEF ClocksTyped
<1>5. ClocksTogether' /\ OldWhenRoundStarts'
  BY <1>1 DEF ClocksTogether, ShownRoundComes, OldWhenRoundStarts
<1>6. PassedOverOnce' BY <1>2 DEF PassedOverOnce
<1> QED BY <1>4, <1>5, <1>6

LEMMA AnswerKeeps ==
  ASSUME ScheduleInv, NEW row \in Rows, NEW answer \in Answered, Ask(row, answer)
  PROVE  ScheduleInv'
<1> USE Intervals DEF ScheduleInv, Ask, timing
<1>1. UNCHANGED <<poolKind, loop, round, at, sleep, permit>> OBVIOUS
<1>2. /\ age' \in [Rows -> 0..Oldest] /\ passedOver' \in [Rows -> 0..2]
      /\ \A r \in Rows : passedOver'[r] = 0 \/ (passedOver'[r] = passedOver[r] /\ age'[r] = age[r])
  <2>1. CASE pause[row].left > 0 BY <2>1 DEF ClocksTyped
  <2>2. CASE ~(pause[row].left > 0)
    <3>1. age' = [age EXCEPT ![row] = 0] /\ passedOver' = [passedOver EXCEPT ![row] = 0]
      BY <2>2
    <3> QED BY <3>1 DEF ClocksTyped
  <2> QED BY <2>1, <2>2
<1>3. ClocksTyped' BY <1>1, <1>2 DEF ClocksTyped
<1>4. ClocksTogether' BY <1>1 DEF ClocksTogether, ShownRoundComes
<1>5. PassedOverOnce' BY <1>2 DEF PassedOverOnce
<1>6. OldWhenRoundStarts' BY <1>1, <1>2 DEF OldWhenRoundStarts
<1> QED BY <1>3, <1>4, <1>5, <1>6

(* The end of a round publishes the interval, and the loop waits for it.   *)
LEMMA RoundEndKeeps ==
  ASSUME ScheduleInv, NEW changed \in BOOLEAN, RoundEnds(changed) PROVE ScheduleInv'
<1> USE Intervals DEF ScheduleInv, RoundEnds, rowVars
<1>1. /\ loop' = "done" /\ at' = round'.interval /\ round' = NextRound(changed)
      /\ UNCHANGED <<poolKind, sleep, permit, age, passedOver>>
  OBVIOUS
<1>2. round' \in [tick : 0..(FullRound - 1), interval : {Fast, Slow}, unchanged : 0..Unchanged]
  <2> DEFINE tick == (round.tick + 1) % FullRound
  <2>1. tick \in 0..(FullRound - 1) BY ScheduleConstants DEF ClocksTyped
  <2>2. round.unchanged + 1 < Unchanged => round.unchanged + 1 \in 0..Unchanged
    BY ScheduleConstants DEF ClocksTyped
  <2>3. 0 \in 0..Unchanged BY ScheduleConstants
  <2>4. round' \in {[round EXCEPT !.tick = tick],
                    [tick |-> tick, interval |-> Fast, unchanged |-> 0],
                    [tick |-> tick, interval |-> Slow, unchanged |-> 0],
                    [tick |-> tick, interval |-> Fast, unchanged |-> round.unchanged + 1]}
        /\ (round' = [tick |-> tick, interval |-> Fast, unchanged |-> round.unchanged + 1]
              => round' = [tick |-> tick, interval |-> Fast, unchanged |-> 0]
                 \/ round.unchanged + 1 < Unchanged)
    BY <1>1, ScheduleConstants DEF NextRound, ClocksTyped
  <2> HIDE DEF tick
  <2> QED BY <2>1, <2>2, <2>3, <2>4 DEF ClocksTyped
<1>3. ClocksTyped' BY <1>1, <1>2 DEF ClocksTyped
<1>4. ClocksTogether' BY <1>1 DEF ClocksTogether, ShownRoundComes
<1>5. PassedOverOnce' /\ OldWhenRoundStarts' BY <1>1 DEF PassedOverOnce, OldWhenRoundStarts
<1> QED BY <1>3, <1>4, <1>5

LEMMA WaitKeeps == ScheduleInv /\ (LoopWaits \/ TakesPermit \/ Wakes) => ScheduleInv'
<1> SUFFICES ASSUME ScheduleInv, LoopWaits \/ TakesPermit \/ Wakes PROVE ScheduleInv'
  OBVIOUS
<1> USE Intervals DEF ScheduleInv, LoopWaits, TakesPermit, WaitAgain, Wakes, rowVars, timing
<1>1. UNCHANGED <<poolKind, round, at, age, passedOver>> OBVIOUS
<1>2. round.interval \in 0..Slow BY DEF ClocksTyped
<1>3. ClocksTyped' BY <1>1, <1>2 DEF ClocksTyped
<1>4. ClocksTogether' BY <1>1 DEF ClocksTogether, ShownRoundComes
<1>5. PassedOverOnce' BY <1>1 DEF PassedOverOnce
<1>6. OldWhenRoundStarts'
  <2> SUFFICES ASSUME NEW row \in Rows, passedOver[row] = 1
               PROVE  /\ loop' = "waits" => age[row] + sleep' >= round.interval
                      /\ loop' = "starts" => age[row] >= round.interval
    BY <1>1 DEF OldWhenRoundStarts
  <2>1. age[row] \in Nat BY DEF ClocksTyped
  <2>2. CASE LoopWaits \/ TakesPermit BY <1>2, <2>1, <2>2
  <2>3. CASE Wakes BY <1>2, <2>1, <2>3 DEF OldWhenRoundStarts
  <2> QED BY <2>2, <2>3
<1> QED BY <1>3, <1>4, <1>5, <1>6

(* Refreshes by hand.                                                      *)
LEMMA HandKeeps ==
  ScheduleInv /\ (HandEnds \/ \E rows \in SUBSET Rows : RefreshByHand(rows)) => ScheduleInv'
<1> SUFFICES ASSUME ScheduleInv, HandEnds \/ \E rows \in SUBSET Rows : RefreshByHand(rows)
             PROVE  ScheduleInv'
  OBVIOUS
<1> USE Intervals DEF ScheduleInv, HandEnds, PutOff, RefreshByHand, rowVars, timing
<1>1. UNCHANGED <<poolKind, loop, round, sleep, age, passedOver>> OBVIOUS
<1>2. (at > 0 /\ at' = round.interval /\ permit' = TRUE) \/ UNCHANGED <<at, permit>> OBVIOUS
<1>3. ClocksTyped'
  <2>1. permit' \in BOOLEAN BY <1>2 DEF ClocksTyped
  <2>2. at' \in -1..Slow BY <1>2 DEF ClocksTyped
  <2> QED BY <1>1, <2>1, <2>2 DEF ClocksTyped
<1>4. ClocksTogether' BY <1>1, <1>2 DEF ClocksTogether, ShownRoundComes, ClocksTyped
<1>5. PassedOverOnce' /\ OldWhenRoundStarts' BY <1>1 DEF PassedOverOnce, OldWhenRoundStarts
<1> QED BY <1>3, <1>4, <1>5

(* What the wait loses, every card gains.                                  *)
LEMMA TimeKeeps == ScheduleInv /\ TimePasses => ScheduleInv'
<1> SUFFICES ASSUME ScheduleInv, TimePasses PROVE ScheduleInv'
  OBVIOUS
<1> USE Intervals DEF ScheduleInv, TimePasses, LoopIdle
<1>1. UNCHANGED <<poolKind, loop, round, permit, passedOver>> OBVIOUS
<1>2. at' = Less(at) /\ sleep' = Less(sleep)
      /\ at' \in -1..Slow /\ sleep' \in 0..Slow
  BY DEF ClocksTyped, Less
<1>3. age' \in [Rows -> 0..Oldest]
      /\ \A row \in Rows : age'[row] = IF age[row] < Oldest THEN age[row] + 1 ELSE Oldest
  BY DEF ClocksTyped
<1>4. ClocksTyped' BY <1>1, <1>2, <1>3 DEF ClocksTyped
<1>5. ClocksTogether'
  <2>1. CASE loop = "asks" BY <1>1, <1>2, <2>1 DEF ClocksTogether, ShownRoundComes, Less
  <2>2. CASE loop = "waits" /\ ~permit /\ sleep > 0
    BY <1>1, <1>2, <2>2 DEF ClocksTogether, ShownRoundComes, Less
  <2> QED BY <2>1, <2>2
<1>6. PassedOverOnce' BY <1>1 DEF PassedOverOnce
<1>7. OldWhenRoundStarts'
  <2> SUFFICES ASSUME NEW row \in Rows, passedOver[row] = 1
               PROVE  /\ loop = "waits" => age'[row] + sleep' >= round.interval
                      /\ loop = "starts" => age'[row] >= round.interval
    BY <1>1 DEF OldWhenRoundStarts
  <2>1. age[row] \in 0..Oldest /\ sleep \in 0..Slow /\ round.interval \in 0..Slow
    BY DEF ClocksTyped
  <2>2. loop = "waits" => age[row] + sleep >= round.interval /\ sleep > 0
    BY DEF OldWhenRoundStarts
  <2> QED BY <1>2, <1>3, <2>1, <2>2 DEF Less
<1> QED BY <1>4, <1>5, <1>6, <1>7

(* Whatever is refreshed by hand and however the interval adapts, the next *)
(* round starts at the time that is shown, and no two Claude rounds in a   *)
(* row pass a card over (background_pool, background_round, is_due).       *)
THEOREM RoundsAreOnTime == ScheduleSpec => []RoundsOnTime
<1>1. ScheduleInv /\ [ScheduleNext]_scheduleVars => ScheduleInv'
  <2> SUFFICES ASSUME ScheduleInv, [ScheduleNext]_scheduleVars PROVE ScheduleInv'
    OBVIOUS
  <2>1. CASE UNCHANGED scheduleVars
    BY <2>1 DEF ScheduleInv, ClocksTyped, ClocksTogether, ShownRoundComes, PassedOverOnce,
      OldWhenRoundStarts, scheduleVars, timing, rowVars
  <2> QED BY <2>1, StartKeeps, AnswerKeeps, RoundEndKeeps, WaitKeeps, HandKeeps, TimeKeeps
        DEF ScheduleNext, LoopStep
<1>2. ScheduleInv => RoundsOnTime BY DEF ScheduleInv, ClocksTogether, RoundsOnTime
<1> QED BY <1>1, <1>2, ScheduleStarts, PTL DEF ScheduleSpec
=============================================================================
