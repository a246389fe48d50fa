----------------------------- MODULE ClaudeCards -----------------------------
(***************************************************************************)
(* The logins a card of the Claude pool holds: the one in use, others to   *)
(* fall back on, the newest first, and those Claude rejected.              *)
(***************************************************************************)
EXTENDS Integers, Sequences, FiniteSets, SequencesExt

CONSTANT MaxAlternates  \* generations a card falls back on (3 in the code)
ASSUME AlternatesKept == MaxAlternates \in Nat \ {0}

\* Vec::retain of those that are not among the logins given.
Without(s, logins) ==
  LET kept[n \in 0..Len(s)] ==
        IF n = 0 THEN <<>>
        ELSE IF s[n] \in logins THEN kept[n - 1] ELSE Append(kept[n - 1], s[n])
  IN  kept[Len(s)]

PushUnbounded(alternates, login) ==             \* variant: never truncated
  <<login>> \o Without(alternates, {login})
Push(alternates, login) ==
  LET all == <<login>> \o Without(alternates, {login})
  IN  SubSeq(all, 1, IF Len(all) < MaxAlternates THEN Len(all) ELSE MaxAlternates)

\* Stored::keep_alternate
KeepAlternate(c, login) ==
  IF login \in c.rejected \/ login = c.login THEN c
  ELSE [c EXCEPT !.alternates = Push(@, login)]

\* Each of them, the last first, so that the first is the newest.
KeepAlternates(c, logins) ==
  LET kept[n \in 0..Len(logins)] ==
        IF n = 0 THEN c ELSE KeepAlternate(kept[n - 1], logins[Len(logins) + 1 - n])
  IN  kept[Len(logins)]

\* Stored::adopt: the login seen elsewhere is used, unless Claude rejected it,
\* and the previous one stays to fall back on unless Claude Code renewed it.
AdoptRejected(c, login, fromLive) ==            \* variant: rejections forgotten
  IF c.login = login THEN [c EXCEPT !.inLive = @ \/ fromLive]
  ELSE LET next == [c EXCEPT !.login = login, !.inLive = fromLive,
                      !.alternates = Without(@, {login})]
       IN  IF fromLive /\ c.inLive THEN next ELSE KeepAlternate(next, c.login)
AdoptAlone(c, login, fromLive) ==               \* variant: nothing to fall back on
  IF login \in c.rejected THEN [c EXCEPT !.inLive = @ /\ ~fromLive]
  ELSE IF c.login = login THEN [c EXCEPT !.inLive = @ \/ fromLive]
  ELSE [c EXCEPT !.login = login, !.inLive = fromLive,
                 !.alternates = Without(@, {login})]
Adopt(c, login, fromLive) ==
  IF login \in c.rejected THEN [c EXCEPT !.inLive = @ /\ ~fromLive]
  ELSE IF c.login = login THEN [c EXCEPT !.inLive = @ \/ fromLive]
  ELSE LET next == [c EXCEPT !.login = login, !.inLive = fromLive,
                      !.alternates = Without(@, {login})]
       IN  IF fromLive /\ c.inLive THEN next ELSE KeepAlternate(next, c.login)

\* Stored::reject
Rejecting(c, logins) ==
  [c EXCEPT !.rejected = @ \cup logins,
            !.alternates = Without(@, c.rejected \cup logins)]

\* What a refresh knows is merged into the card as it is now: w.base is the card
\* as the refresh read it, w.login what it uses in the end.
MergedOver(c, w) ==                             \* variant: the card as it was read
  [c EXCEPT !.login = w.login, !.inLive = w.inLive,
            !.alternates = IF w.renewed THEN <<>> ELSE w.alternates]
Merged(c, w) ==
  LET arrived == Without(c.alternates, ToSet(w.base.alternates))
      others == IF w.login # w.base.login /\ c.login # w.base.login
                  THEN <<c.login>> \o arrived ELSE arrived
      used == [c EXCEPT
        !.alternates = IF w.renewed THEN <<>> ELSE w.alternates,
        !.login = IF w.login # w.base.login THEN w.login ELSE @,
        !.inLive = IF w.login # w.base.login \/ c.login = w.login THEN w.inLive ELSE @]
  IN  KeepAlternates(Rejecting(used, w.rejected), others)
=============================================================================
