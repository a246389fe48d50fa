-------------------------- MODULE RefreshSchedule --------------------------
(***************************************************************************)
(* When the usage of a pool's cards is asked for: the background loop of   *)
(* one pool (application.rs, background_pool and background_round), the    *)
(* schedule it publishes (refresh_policy.rs), refreshes by hand, which may *)
(* put the next round off, and the pauses after HTTP 429 (claude.rs).      *)
(*                                                                         *)
(* Times are kept relative to now, in units of the fast interval.  Every   *)
(* Claude round asks for the whole pool, subject to freshness, at an       *)
(* interval that adapts; Codex rounds come at a fixed one, and all but     *)
(* each FullRound-th ask for the card in use alone.                        *)
(***************************************************************************)
EXTENDS Integers, FiniteSets

CONSTANTS
    Rows,          \* the cards of the pool
    Fast, Slow,    \* the two intervals of the Claude pool
    FullRound,     \* Codex rounds from one of the whole pool to the next
    Pause, LongestPause, \* the first and the longest pause after HTTP 429
    Unchanged      \* fast rounds without a change before the slow interval

ASSUME ScheduleConstants ==
    /\ Fast \in Nat \ {0} /\ Slow \in Nat /\ Fast < Slow
    /\ FullRound \in Nat \ {0} /\ Pause \in Nat \ {0}
    /\ LongestPause \in Nat /\ Pause <= LongestPause
    /\ Unchanged \in Nat \ {0}

VARIABLES
    poolKind,  \* "codex" or "claude"
    loop,      \* what the background loop does
    round,     \* tick, the interval in use, rounds without a change
    at,        \* time to the next round as published, -1 while one is due or runs
    sleep,     \* time left of the loop's wait
    permit,    \* a notification the loop has not taken
    due,       \* cards the round still asks for
    byHand,    \* cards a refresh by hand still asks for
    handAll,   \* that refresh is of the whole pool
    age,       \* time since a card's usage was last asked for
    pause,     \* time until a card may be asked again, and HTTP 429s in a row
    passedOver \* rounds in a row that did not ask for a card

timing == <<at, sleep, permit>>
asking == <<due, byHand, handAll>>
rowVars == <<age, pause, passedOver>>
scheduleVars == <<poolKind, loop, round, timing, asking, rowVars>>

Oldest == Slow + 1

ScheduleTypeOK ==
    /\ poolKind \in {"codex", "claude"}
    /\ loop \in {"starts", "asks", "done", "waits"}
    /\ round \in [tick : 0..(FullRound - 1), interval : {Fast, Slow},
                  unchanged : 0..Unchanged]
    /\ at \in -1..Slow
    /\ sleep \in 0..Slow
    /\ permit \in BOOLEAN
    /\ due \subseteq Rows /\ byHand \subseteq Rows /\ handAll \in BOOLEAN
    /\ age \in [Rows -> 0..Oldest]
    /\ pause \in [Rows -> [left : 0..LongestPause, limits : 0..LongestPause]]
    /\ passedOver \in [Rows -> 0..2]

ScheduleStart(kind) ==
    /\ poolKind = kind
    /\ loop = "starts"
    /\ round = [tick |-> 0, interval |-> IF kind = "codex" THEN Fast ELSE Slow,
                unchanged |-> 0]
    /\ at = -1 /\ sleep = 0 /\ permit = FALSE
    /\ due = {} /\ byHand = {} /\ handAll = FALSE
    /\ age \in [Rows -> {0, Oldest}]
    /\ pause = [r \in Rows |-> [left |-> 0, limits |-> 0]]
    /\ passedOver = [r \in Rows |-> 0]
ScheduleInit == ScheduleStart("codex") \/ ScheduleStart("claude")

(***************************************************************************)
(* A round of the background loop.                                         *)
(***************************************************************************)
(* A Claude card asked within the interval waits for the next round. *)
FreshForLong(row) == age[row] < Slow
Fresh(row) == age[row] < round.interval
IsDue(row) == ~Fresh(row)
DueCards(inUse) ==
    IF poolKind = "claude" THEN {row \in Rows : IsDue(row)}
    ELSE IF round.tick = 0 THEN Rows ELSE inUse

(* A paused card is answered with its last error, asked or not. *)
RoundStarts(inUse) ==
    /\ loop = "starts" /\ Cardinality(inUse) <= 1
    /\ loop' = "asks"
    /\ at' = -1
    /\ due' = DueCards(inUse)
    /\ passedOver' = [row \in Rows |->
          IF row \in due' \/ pause[row].left > 0 \/ poolKind = "codex" THEN 0
          ELSE IF passedOver[row] < 2 THEN passedOver[row] + 1 ELSE 2]
    /\ UNCHANGED <<poolKind, round, sleep, permit, byHand, handAll, age, pause>>

(* The pause doubles with each 429 in a row, up to the longest. *)
AfterLimit(row) ==
    LET n == pause[row].limits + 1
        doubled == Pause * (2 ^ (n - 1)) IN
    [left |-> IF doubled < LongestPause THEN doubled ELSE LongestPause,
     limits |-> IF n < LongestPause THEN n ELSE LongestPause]

(* One card's answer; any answer counts as asked, a paused card is not asked. *)
Asked429 == poolKind = "claude"
Ask(row, answer) ==
    /\ row \in due \union byHand
    /\ due' = due \ {row} /\ byHand' = byHand \ {row}
    /\ IF pause[row].left > 0
       THEN answer = "fine" /\ UNCHANGED <<age, pause, passedOver>>
       ELSE /\ answer = "limited" => Asked429
            /\ age' = [age EXCEPT ![row] = 0]
            /\ passedOver' = [passedOver EXCEPT ![row] = 0]
            /\ pause' = [pause EXCEPT ![row] =
                  CASE answer = "fine" -> [left |-> 0, limits |-> 0]
                    [] answer = "failed" -> [@ EXCEPT !.left = 0]
                    [] answer = "limited" -> AfterLimit(row)]
    /\ UNCHANGED <<poolKind, loop, round, timing, handAll>>

(* Fast after a change; slow again after Unchanged fast rounds without one. *)
NextRound(changed) ==
    LET still == round.unchanged + 1
        tick == (round.tick + 1) % FullRound IN
    CASE poolKind = "codex" -> [round EXCEPT !.tick = tick]
      [] poolKind = "claude" /\ changed ->
            [tick |-> tick, interval |-> Fast, unchanged |-> 0]
      [] poolKind = "claude" /\ ~changed /\ (round.interval # Fast \/ still >= Unchanged) ->
            [tick |-> tick, interval |-> Slow, unchanged |-> 0]
      [] OTHER -> [tick |-> tick, interval |-> Fast, unchanged |-> still]

RoundEnds(changed) ==
    /\ loop = "asks" /\ due = {}
    /\ loop' = "done"
    /\ round' = NextRound(changed)
    /\ at' = round'.interval
    /\ UNCHANGED <<poolKind, sleep, permit, asking, rowVars>>

(* The loop waits the interval its round returned. *)
LoopWaits ==
    /\ loop = "done"
    /\ loop' = "waits"
    /\ sleep' = round.interval
    /\ UNCHANGED <<poolKind, round, at, permit, asking, rowVars>>

(* A notification starts the wait over. *)
WaitOn == sleep
WaitAgain == round.interval
TakesPermit ==
    /\ loop = "waits" /\ permit
    /\ permit' = FALSE
    /\ sleep' = WaitAgain
    /\ UNCHANGED <<poolKind, loop, round, at, asking, rowVars>>
Wakes ==
    /\ loop = "waits" /\ sleep = 0
    /\ loop' = "starts"
    /\ UNCHANGED <<poolKind, round, timing, asking, rowVars>>

(***************************************************************************)
(* A refresh by hand.                                                      *)
(***************************************************************************)
AnyCards(rows) == rows # {}
WholePool(rows) == rows = Rows
RefreshByHand(rows) ==
    /\ byHand = {} /\ ~handAll /\ rows # {}
    /\ byHand' = rows
    /\ handAll' = WholePool(rows)
    /\ UNCHANGED <<poolKind, loop, round, timing, due, rowVars>>

(* Refreshing the whole pool stands in for its next round; a round that is *)
(* due or under way schedules the next itself.                             *)
PutOff ==
    IF at > 0
    THEN at' = round.interval /\ permit' = TRUE
    ELSE UNCHANGED <<at, permit>>
HandEnds ==
    /\ handAll /\ byHand = {}
    /\ handAll' = FALSE
    /\ PutOff
    /\ UNCHANGED <<poolKind, loop, round, sleep, due, byHand, rowVars>>

(***************************************************************************)
(* Time.  It does not pass while the loop has something to do at once: it  *)
(* is seconds and minutes against a task that only has to be polled.       *)
(***************************************************************************)
LoopIdle == loop = "asks" \/ (loop = "waits" /\ ~permit /\ sleep > 0)
Less(n) == IF n > 0 THEN n - 1 ELSE n
TimePasses ==
    /\ LoopIdle
    /\ at' = Less(at) /\ sleep' = Less(sleep)
    /\ age' = [row \in Rows |-> IF age[row] < Oldest THEN age[row] + 1 ELSE Oldest]
    /\ pause' = [row \in Rows |-> [pause[row] EXCEPT !.left = Less(@)]]
    /\ UNCHANGED <<poolKind, loop, round, permit, asking, passedOver>>

Answered == {"fine", "failed", "limited"}
LoopStep ==
    \/ \E inUse \in SUBSET Rows : RoundStarts(inUse)
    \/ \E changed \in BOOLEAN : RoundEnds(changed)
    \/ LoopWaits \/ TakesPermit \/ Wakes
ScheduleNext ==
    \/ LoopStep
    \/ \E row \in Rows, answer \in Answered : Ask(row, answer)
    \/ \E rows \in SUBSET Rows : RefreshByHand(rows)
    \/ HandEnds
    \/ TimePasses

ScheduleSpec == ScheduleInit /\ [][ScheduleNext]_scheduleVars
(* The loop is polled, every request ends within its timeout, time passes. *)
AnswersAndTimeFair ==
    /\ \A row \in Rows : WF_scheduleVars(\E answer \in Answered : Ask(row, answer))
    /\ WF_scheduleVars(HandEnds)
    /\ WF_scheduleVars(TimePasses)
LiveScheduleSpec ==
    ScheduleSpec /\ AnswersAndTimeFair /\ WF_scheduleVars(LoopStep)

(***************************************************************************)
(* Properties.                                                             *)
(***************************************************************************)
(* The time shown for the next round is the time it starts: a refresh of   *)
(* the whole pool by hand puts off both or neither, whenever it ends.      *)
ShownRoundComes == loop = "waits" /\ ~permit => sleep = at

(* No Claude card is passed over by two rounds in a row: one a round finds *)
(* fresh is due at the next, however the interval adapts in between.       *)
PassedOverOnce == \A row \in Rows : passedOver[row] < 2

(* A round starts when it is shown to, and asks for every card in time.     *)
RoundsOnTime == ShownRoundComes /\ PassedOverOnce

(* Every card is asked for again and again, whatever is refreshed by hand  *)
(* and however often Claude answers with HTTP 429, unless refreshes of the *)
(* whole pool by hand keep coming while it is paused, each putting off the *)
(* round that would have asked.                                            *)
CardsAskedAgain ==
    \A row \in Rows : []<>(age[row] = 0 \/ (handAll /\ pause[row].left > 0))
=============================================================================
