----------------------------- MODULE QuotaSwitch -----------------------------
(***************************************************************************)
(* Which account is used next: what an answer says of an account's         *)
(* five-hour and weekly limits (usage.rs, claude.rs), how much quota that  *)
(* leaves it (ranking.rs), and the two switches made on it, Smart Switch   *)
(* and the automatic switch at the end of a round of refreshes             *)
(* (application.rs, claude.rs), of either pool.  A switch is decided on a  *)
(* list of the accounts and made in a later step.                          *)
(*                                                                         *)
(* Percentages are 0, 50 and 100, counted in halves.                       *)
(***************************************************************************)
EXTENDS Naturals, Sequences, FiniteSets, FiniteSetsExt

CONSTANTS
  Officials,     \* accounts with a login of their own, by when they were added
  Shared,        \* accounts of one Sub2api provider: one card in use together
  MaxReplies     \* bound: answers, failures, and what the user does

ASSUME QuotaBounds ==
  /\ Officials \subseteq Nat \ {0} /\ Shared \subseteq Nat \ {0}
  /\ Officials \cap Shared = {} /\ IsFiniteSet(Officials \cup Shared)
  /\ MaxReplies \in Nat

VARIABLES
  usage,       \* what is stored of each account: its windows, and how old
  failing,      \* accounts whose last refresh failed
  disabled,    \* accounts that may not be used
  inUse,       \* the accounts in use: one, all of the provider's, or none
  round,       \* a round of refreshes, and the automatic switch at its end
  smart,       \* a Smart Switch under way
  replies,
  told         \* history: the last answer about each account

quotaVars == <<usage, failing, disabled, inUse, round, smart, replies, told>>

Holders == Officials \cup Shared
Nobody == 0
NoWindow == [for |-> "nothing"]
Window(duration, used) == [for |-> duration, used |-> used]
Windows == {NoWindow} \cup [for : {"5h", "week", "month", "unsaid"}, used : 0..2]

\* Codex answers a primary and a secondary limit, of durations that depend on the plan;
\* Claude Code and Sub2api name theirs.
Replies ==
  {<<Window("5h", f), Window("week", w)>> : f \in {0, 2}, w \in {0, 2}}
    \cup {<<Window("week", 2), NoWindow>>, <<Window("unsaid", 0), Window("unsaid", 2)>>}

-----------------------------------------------------------------------------
(* What an answer says: classify_windows.                                  *)

\* A window is known by its duration, else by its place.
Exact(reply, duration) == {i \in {1, 2} : reply[i].for = duration}
Classified(reply, duration, place) ==
  LET exact == Exact(reply, duration)
  IN  IF exact # {} THEN reply[Min(exact)]
      ELSE IF reply[place].for = "unsaid" THEN reply[place] ELSE NoWindow
Snapshot(reply) == [fiveHour |-> Classified(reply, "5h", 1),
                    oneWeek |-> Classified(reply, "week", 2)]

\* with_matching_windows: earlier versions stored windows of other durations too.
Matching(window, duration) == IF window.for \in {duration, "unsaid"} THEN window ELSE NoWindow
\* variant: what is stored is shown
AsStored(a) == usage[a]
Shown(a) == [usage[a] EXCEPT !.fiveHour = Matching(@, "5h"), !.oneWeek = Matching(@, "week")]

Remaining(window) == IF window = NoWindow THEN 0 ELSE 2 - window.used
FiveHourRemaining(u) ==
  IF u.fiveHour = NoWindow /\ u.oneWeek # NoWindow THEN 2 ELSE Remaining(u.fiveHour)
\* 0.7 of the week's and 0.3 of the five hours' remainder.
Score(a) == 7 * Remaining(Shown(a).oneWeek) + 3 * FiveHourRemaining(Shown(a))

SpentWindow(window) == window # NoWindow /\ window.used = 2
\* variant: only the five-hour limit counts
SpentNow(a) == SpentWindow(Shown(a).fiveHour)
Exhausted(a) == SpentWindow(Shown(a).fiveHour) \/ SpentWindow(Shown(a).oneWeek)

-----------------------------------------------------------------------------
(* Who is chosen.                                                          *)

Available(a) == a \notin disabled
\* Fetched within the last fifteen minutes, and not failing since.
Fresh(a) == a \notin failing /\ usage[a].recent
Eligible(a) == Available(a) /\ Fresh(a) /\ ~Exhausted(a) /\ Score(a) > 0

Top(accounts) == {a \in accounts : \A b \in accounts : Score(b) <= Score(a)}
\* The list shows the accounts in use first, then by quota, then by when they came: of
\* equals Smart Switch takes the first, the automatic switch the last.
Best ==
  LET top == Top({a \in Holders : Available(a)})
  IN  CASE top = {} -> Nobody
        [] top \cap inUse # {} -> Min(top \cap inUse)
        [] OTHER -> Min(top)

Spent == {a \in inUse : Exhausted(a)}
MustLeave == Spent # {} /\ \A a \in inUse : ~Available(a) \/ Exhausted(a)
AutoSwitchTarget ==
  LET better == {a \in Holders \ inUse : Eligible(a) /\ \A b \in Spent : Score(a) > Score(b)}
  IN  IF (\E a \in inUse : Fresh(a)) /\ MustLeave /\ better # {} THEN Max(Top(better))
      ELSE Nobody

\* Switching to any account of the provider selects the provider.
Selected(a) == IF a \in Shared THEN Shared ELSE {a}

-----------------------------------------------------------------------------
NoSwitch == [pc |-> "idle"]
Counts == replies < MaxReplies /\ replies' = replies + 1

QuotaInit ==
  \* an earlier version stored one window, whatever its duration, in both places; an
  \* account without a snapshot is one with no windows
  /\ \E old \in {NoWindow, Window("month", 2)} :
       /\ usage = [a \in Holders |-> [fiveHour |-> old, oneWeek |-> old, recent |-> FALSE]]
       /\ told = [a \in Holders |-> <<old, NoWindow>>]
  /\ failing = {} /\ disabled \in SUBSET Shared
  /\ inUse \in {Selected(a) : a \in Holders}
  /\ round = NoSwitch /\ smart = NoSwitch /\ replies = 0

\* refresh_all: every account and the provider at once, each for itself.
RoundStarts ==
  /\ round = NoSwitch /\ round' = [pc |-> "asking", asked |-> Holders]
  /\ UNCHANGED <<usage, failing, disabled, inUse, smart, replies, told>>
Leaves(a) ==
  round' = IF round.pc = "asking" THEN [round EXCEPT !.asked = @ \ {a}] ELSE round

UsageAnswered(a, reply) ==
  /\ Counts /\ Leaves(a)
  /\ usage' = [usage EXCEPT ![a] = [fiveHour |-> Snapshot(reply).fiveHour,
                                    oneWeek |-> Snapshot(reply).oneWeek, recent |-> TRUE]]
  /\ failing' = failing \ {a} /\ told' = [told EXCEPT ![a] = reply]
  /\ UNCHANGED <<disabled, inUse, smart>>
\* What was known stays, and the account is not switched to. A workspace that was
\* deactivated closes a Codex account.
UsageFails(a) ==
  /\ Counts /\ Leaves(a)
  /\ failing' = failing \cup {a}
  /\ disabled' \in {disabled, disabled \cup {a}}
  /\ UNCHANGED <<usage, inUse, smart, told>>
\* An account that waits, or is paused, is not asked.
PassedOver(a) ==
  /\ round.pc = "asking" /\ a \in round.asked /\ Leaves(a)
  /\ UNCHANGED <<usage, failing, disabled, inUse, smart, replies, told>>

\* auto_switch_if_needed, if it is on: it reads the accounts, then switches.
RoundEnds ==
  /\ round.pc = "asking" /\ round.asked = {}
  /\ \/ round' = NoSwitch
     \/ round' = IF AutoSwitchTarget = Nobody THEN NoSwitch
                 ELSE [pc |-> "switching", target |-> AutoSwitchTarget]
  /\ UNCHANGED <<usage, failing, disabled, inUse, smart, replies, told>>
AutoSwitches ==
  /\ round.pc = "switching"
  /\ inUse' = Selected(round.target) /\ round' = NoSwitch
  /\ UNCHANGED <<usage, failing, disabled, smart, replies, told>>
AutoFails ==
  /\ round.pc = "switching" /\ round' = NoSwitch
  /\ UNCHANGED <<usage, failing, disabled, inUse, smart, replies, told>>

SmartStarts ==
  /\ smart = NoSwitch /\ Best # Nobody /\ Best \notin inUse /\ Counts
  /\ smart' = [pc |-> "switching", target |-> Best]
  /\ UNCHANGED <<usage, failing, disabled, inUse, round, told>>
SmartEnds ==
  /\ smart.pc = "switching" /\ smart' = NoSwitch
  /\ inUse' \in {inUse, Selected(smart.target)}
  /\ UNCHANGED <<usage, failing, disabled, round, replies, told>>

\* Fifteen minutes pass.
GrowsOld(a) ==
  /\ usage[a].recent
  /\ usage' = [usage EXCEPT ![a] = [@ EXCEPT !.recent = FALSE]]
  /\ UNCHANGED <<failing, disabled, inUse, round, smart, replies, told>>
UserChooses(a) ==
  /\ Counts /\ inUse' = Selected(a)
  /\ UNCHANGED <<usage, failing, disabled, round, smart, told>>
UserSignsOut ==
  /\ Counts /\ inUse' = {}
  /\ UNCHANGED <<usage, failing, disabled, round, smart, told>>

QuotaNext ==
  \/ RoundStarts \/ RoundEnds \/ AutoSwitches \/ AutoFails \/ SmartStarts \/ SmartEnds
  \/ \E a \in Holders :
       \/ \E reply \in Replies : UsageAnswered(a, reply)
       \/ UsageFails(a) \/ PassedOver(a) \/ GrowsOld(a) \/ UserChooses(a)
  \/ UserSignsOut

QuotaSpec == QuotaInit /\ [][QuotaNext]_quotaVars

QuotaTypeOK ==
  /\ \A a \in Holders :
       /\ usage[a].fiveHour \in Windows /\ usage[a].oneWeek \in Windows
       /\ usage[a].recent \in BOOLEAN
  /\ failing \subseteq Holders /\ disabled \subseteq Holders
  /\ inUse = {} \/ \E a \in Holders : inUse = Selected(a)
  /\ round.pc \in {"idle", "asking", "switching"} /\ smart.pc \in {"idle", "switching"}
  /\ told \in [Holders -> Replies \cup {<<NoWindow, NoWindow>>, <<Window("month", 2), NoWindow>>}]

-----------------------------------------------------------------------------
(* What is promised.                                                       *)

\* The limits an answer names, or leaves to their places.
Limits(reply) == {i \in {1, 2} : reply[i].for \in {"5h", "week", "unsaid"}}
UsedUp(a) == \E i \in Limits(told[a]) : told[a][i].used = 2
QuotaLeft(a) == Limits(told[a]) # {} /\ ~UsedUp(a)

\* The automatic switch decides to leave accounts only when the last answers about those
\* it may use said that a limit is used up, and for one whose last answer, at most fifteen
\* minutes old, left quota in each of its limits; so it decides for an account it decided
\* to leave only after another answer about it, and rounds that fail move nothing.
SwitchesToQuota ==
  [][(round.pc = "asking" /\ round'.pc = "switching") =>
       /\ \A a \in inUse : a \in disabled \/ UsedUp(a)
       /\ \E a \in inUse : UsedUp(a)
       /\ QuotaLeft(round'.target) /\ Fresh(round'.target)
       /\ round'.target \notin disabled]_quotaVars
=============================================================================
